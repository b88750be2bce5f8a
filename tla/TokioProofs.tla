----------------------------- MODULE TokioProofs -----------------------------
(***************************************************************************)
(* Proofs about Tokio, for any number of tasks, whichever futures are      *)
(* dropped, any packets of the remote peer and every window size.          *)
(***************************************************************************)
EXTENDS Tokio, SeqExProofs

----------------------------------------------------------------------------
(* The pump loop of receive_inner.                                         *)

\* What holds before the loop and survives each turn of it holds after it.
LEMMA PumpLoopInduction ==
    ASSUME NEW S, NEW start \in S,
           \A r \in S : r.do_pump /\ PumpOutcome(r.seq) = "Deliver" => PumpTurn(r) \in S
    PROVE  PumpLoop(start) \in S
<1> DEFINE Turn(r) == IF r.do_pump /\ PumpOutcome(r.seq) = "Deliver" THEN PumpTurn(r) ELSE r
           Chosen(x) == CHOOSE r \in {Turn(q) : q \in {x}} : TRUE
           IsRun(f, n) == f = [k \in 0 .. n |-> IF k = 0 THEN start ELSE Chosen(f[k - 1])]
           after == CHOOSE f : IsRun(f, CAP)
<1>1. \A r \in S : Chosen(r) \in S
  <2>1. ASSUME NEW r \in S PROVE Chosen(r) \in S
    <3>1. {Turn(q) : q \in {r}} = {Turn(r)}
      OBVIOUS
    <3>2. Chosen(r) = Turn(r)
      BY <3>1
    <3> QED
      BY <3>2
  <2> QED
    BY <2>1
<1>2. PumpLoop(start) = after[CAP]
  BY DEF PumpLoop
<1>3. CAP \in Nat
  BY CapAssumption
<1> HIDE DEF Chosen
<1>4. ASSUME NEW n \in Nat, NEW f, IsRun(f, n) PROVE \E g : IsRun(g, n + 1)
  <2> DEFINE g == [k \in 0 .. n + 1 |-> IF k <= n THEN f[k] ELSE Chosen(f[n])]
  <2>1. f[0] = start /\ \A k \in 1 .. n : f[k] = Chosen(f[k - 1])
    BY <1>4
  <2>2. ASSUME NEW k \in 0 .. n + 1
        PROVE  g[k] = IF k = 0 THEN start ELSE Chosen(g[k - 1])
    <3>1. CASE k = 0
      BY <2>1, <3>1
    <3>2. CASE k \in 1 .. n
      <4>1. g[k] = f[k] /\ g[k - 1] = f[k - 1]
        BY <3>2
      <4> QED
        BY <2>1, <3>2, <4>1
    <3>3. CASE k = n + 1
      <4>1. g[k] = Chosen(f[n]) /\ g[k - 1] = f[n]
        BY <3>3
      <4> QED
        BY <3>3, <4>1
    <3> QED
      BY <3>1, <3>2, <3>3
  <2>3. g = [k \in 0 .. n + 1 |-> g[k]]
    OBVIOUS
  <2> HIDE DEF g
  <2>4. [k \in 0 .. n + 1 |-> g[k]] = [k \in 0 .. n + 1 |-> IF k = 0 THEN start ELSE Chosen(g[k - 1])]
    BY <2>2
  <2>5. IsRun(g, n + 1)
    BY <2>3, <2>4
  <2> QED
    BY <2>5
<1>5. \E f : IsRun(f, 0)
  <2> DEFINE f == [k \in 0 .. 0 |-> start]
  <2>1. f = [k \in 0 .. 0 |-> IF k = 0 THEN start ELSE Chosen(f[k - 1])]
    OBVIOUS
  <2> QED
    BY <2>1
<1> HIDE DEF IsRun
<1>6. \E f : IsRun(f, CAP)
  <2> DEFINE Bad == {n \in Nat : ~\E f : IsRun(f, n)}
  <2>1. SUFFICES ASSUME Bad # {} PROVE FALSE
    BY <1>3
  <2>2. PICK n \in Bad : \A k \in Bad : n <= k
    BY <2>1, LeastNatural
  <2>3. n \in Nat /\ n # 0
    BY <1>5
  <2>4. n - 1 \in Nat /\ n - 1 \notin Bad
    BY <2>2, <2>3
  <2>5. \E f : IsRun(f, n - 1)
    BY <2>4
  <2>6. \E g : IsRun(g, (n - 1) + 1)
    BY <1>4, <2>4, <2>5
  <2> QED
    BY <2>3, <2>6
<1>7. IsRun(after, CAP)
  BY <1>6
<1> HIDE DEF after
<1>8. after[0] = start /\ \A k \in 1 .. CAP : after[k] = Chosen(after[k - 1])
  BY <1>3, <1>7 DEF IsRun
<1>9. \A k \in 0 .. CAP : after[k] \in S
  <2> DEFINE Bad == {k \in 0 .. CAP : after[k] \notin S}
  <2>1. SUFFICES ASSUME Bad # {} PROVE FALSE
    OBVIOUS
  <2>2. PICK n \in Bad : \A k \in Bad : n <= k
    <3>1. Bad \subseteq Nat
      BY <1>3
    <3> HIDE DEF Bad
    <3> QED
      BY <2>1, <3>1, LeastNatural
  <2>3. n \in 1 .. CAP
    BY <1>3, <1>8
  <2>4. n - 1 \in 0 .. CAP /\ n - 1 \notin Bad
    BY <1>3, <2>2, <2>3
  <2> QED
    BY <1>1, <1>8, <2>2, <2>3, <2>4
<1> QED
  BY <1>2, <1>3, <1>9

----------------------------------------------------------------------------
(* Bags of guards.                                                         *)

\* How many copies there are.
LEMMA CopiesType ==
    ASSUME NEW B, IsABag(B), NEW e
    PROVE  Copies(e, B) \in Nat /\ (BagIn(e, B) <=> Copies(e, B) > 0)
BY DEF IsABag, Copies, BagIn, BagToSet

\* One more guard ...
LEMMA BagAddOne ==
    ASSUME NEW B, IsABag(B), NEW g
    PROVE  LET C == B (+) SetToBag({g})
           IN  /\ IsABag(C) /\ BagToSet(C) = BagToSet(B) \cup {g}
               /\ \A e : Copies(e, C) = Copies(e, B) + (IF e = g THEN 1 ELSE 0)
BY DEF IsABag, Copies, BagIn, BagToSet, SetToBag, (+)

\* ... or one less.
LEMMA BagTakeOne ==
    ASSUME NEW B, IsABag(B), NEW g, BagIn(g, B)
    PROVE  LET C == B (-) SetToBag({g})
           IN  /\ IsABag(C) /\ BagToSet(C) \subseteq BagToSet(B)
               /\ \A e : Copies(e, C) = Copies(e, B) - (IF e = g THEN 1 ELSE 0)
BY DEF IsABag, Copies, BagIn, BagToSet, SetToBag, (-)

\* The guards in the application's hands.
LEMMA GuardFacts ==
    /\ \A r \in SeqNo, b \in BOOLEAN : Guard(r, b) \in ReplyGuard
    /\ \A g \in ReplyGuard : /\ g = Guard(g.reply_no, g.is_holding_lock) /\ g.tag = "Guard"
                             /\ g.reply_no \in SeqNo /\ g.is_holding_lock \in BOOLEAN
    /\ \A r, s \in SeqNo, b, c \in BOOLEAN : Guard(r, b) = Guard(s, c) <=> r = s /\ b = c
    /\ Pending \notin ReplyGuard /\ EndOfExchange \notin ReplyGuard /\ SeqExClosed \notin ReplyGuard
    /\ Pending # EndOfExchange /\ Pending # SeqExClosed /\ EndOfExchange # SeqExClosed
<1>1. /\ \A r \in SeqNo, b \in BOOLEAN : Guard(r, b) \in ReplyGuard
      /\ \A g \in ReplyGuard : /\ g = Guard(g.reply_no, g.is_holding_lock) /\ g.tag = "Guard"
                               /\ g.reply_no \in SeqNo /\ g.is_holding_lock \in BOOLEAN
      /\ \A r, s \in SeqNo, b, c \in BOOLEAN : Guard(r, b) = Guard(s, c) <=> r = s /\ b = c
  BY DEF Guard, ReplyGuard
<1>2. Pending.tag = "Pending" /\ EndOfExchange.tag = "EndOfExchange"
      /\ SeqExClosed.tag = "SeqExClosed"
  BY DEF Pending, EndOfExchange, SeqExClosed
<1>3. Pending.tag # "Guard" /\ EndOfExchange.tag # "Guard" /\ SeqExClosed.tag # "Guard"
      /\ Pending.tag # EndOfExchange.tag /\ Pending.tag # SeqExClosed.tag
      /\ EndOfExchange.tag # SeqExClosed.tag
  BY <1>2
<1> QED
  BY <1>1, <1>3

----------------------------------------------------------------------------
(* What receive_inner does to the struct, and the kinds of steps.          *)

\* The send window of v is that of s without some entries, and the timer the same.
OnlyTakes(s, v) ==
    /\ Shrunk(s.send_window, v.send_window)
    /\ v.next_service_timestamp = s.next_service_timestamp
    /\ v.next_send_seq_no = s.next_send_seq_no

\* Accept, the common tail of receive and pump.
LEMMA AcceptTakes ==
    ASSUME NEW s \in SeqExState, NEW m \in Acceptable, NEW is_next \in BOOLEAN
    PROVE  OnlyTakes(s, Accept(s, m, is_next))
<1> DEFINE u == Advance(s, m, is_next)
           lock == u.is_locked \/ m.seq_cst
           replies == Append(u.concurrent_replies, m.seq_no)
           issued == IssueReplyNo(u, m)
<1>1. m.seq_no \in SeqNo /\ m.reply_no \in OptSeqNo /\ m.seq_cst \in BOOLEAN
  BY AcceptableFacts
<1>2. u \in SeqExState
  BY AdvanceType
<1>3. SameSendSide(s, u)
  BY DEF SameSendSide, Advance, FastForward, SeqExState
<1> HIDE DEF u
<1>4. lock \in BOOLEAN /\ replies \in Seq(SeqNo)
  BY <1>1, <1>2 DEF SeqExState
<1>5. issued = [u EXCEPT !.concurrent_replies = replies, !.is_locked = lock]
  BY DEF IssueReplyNo
<1>6. issued \in SeqExState /\ SameSendSide(s, issued)
  <2> HIDE DEF replies, lock, issued
  <2> QED
    BY <1>2, <1>3, <1>4, <1>5 DEF SeqExState, SameSendSide
<1> HIDE DEF issued
<1>7. CASE m.reply_no = None
  BY <1>6, <1>7 DEF Accept, issued, u, SameSendSide, OnlyTakes, Shrunk
<1>8. CASE m.reply_no # None
  <2> DEFINE v == TakeSend(issued, m.reply_no)
  <2>1. Accept(s, m, is_next) = v /\ m.reply_no \in SeqNo
    BY <1>1, <1>8 DEF Accept, issued, u, OptSeqNo
  <2>2. /\ v \in SeqExState /\ Shrunk(issued.send_window, v.send_window)
        /\ v = [issued EXCEPT !.send_window = v.send_window]
    BY <1>6, <2>1, TakeSendFacts
  <2> HIDE DEF v
  <2>3. v.next_service_timestamp = issued.next_service_timestamp
        /\ v.next_send_seq_no = issued.next_send_seq_no
    BY <1>6, <2>2 DEF SeqExState
  <2> QED
    BY <1>6, <2>1, <2>2, <2>3 DEF SameSendSide, OnlyTakes
<1> QED
  BY <1>7, <1>8

LEMMA OnlyTakesTwice ==
    ASSUME NEW s, NEW u, NEW v, OnlyTakes(s, u), OnlyTakes(u, v)
    PROVE  OnlyTakes(s, v)
BY DEF OnlyTakes, Shrunk

LEMMA ReceiveTakes ==
    ASSUME NEW s \in SeqExState, NEW m \in DataPacket
    PROVE  OnlyTakes(s, Receive(s, m))
<1>1. CASE ReceiveOutcome(s, m) = "Deliver"
  <2>1. Receive(s, m) = Accept(s, m, IsNext(s, m.seq_no))
    BY <1>1 DEF Receive, TryError
  <2>2. m \in Acceptable /\ IsNext(s, m.seq_no) \in BOOLEAN
    BY DEF Acceptable, IsNext
  <2> QED
    BY <2>1, <2>2, AcceptTakes
<1>2. CASE ReceiveOutcome(s, m) # "Deliver"
  BY <1>2 DEF Receive, OnlyTakes, Shrunk, SeqExState
<1> QED
  BY <1>1, <1>2

LEMMA PumpTakes ==
    ASSUME NEW s \in SeqExState
    PROVE  OnlyTakes(s, Pump(s))
<1>1. CASE PumpOutcome(s) = "Deliver"
  BY <1>1, PumpEntry, AcceptTakes DEF Pump, Acceptable
<1>2. CASE PumpOutcome(s) # "Deliver"
  BY <1>2 DEF Pump, OnlyTakes, Shrunk
<1> QED
  BY <1>1, <1>2

\* ack_raw_and_direct only touches the reservations and the lock.
LEMMA AckRawKeeps ==
    ASSUME NEW s \in SeqExState, NEW r \in SeqNo, NEW unlock \in BOOLEAN
    PROVE  /\ AckRaw(s, r, unlock) \in SeqExState
           /\ SameSendSide(s, AckRaw(s, r, unlock))
           /\ AckRaw(s, r, unlock).recv_window = s.recv_window
           /\ AckRaw(s, r, unlock).next_recv_seq_no = s.next_recv_seq_no
<1>1. CASE Reserved(s, r)
  <2> DEFINE u == RemoveReservation(s, r)
             b == u.is_locked /\ ~unlock
             v == [u EXCEPT !.is_locked = b]
  <2>1. AckRaw(s, r, unlock) = v
    BY <1>1 DEF AckRaw
  <2>2. u \in SeqExState /\ u = [s EXCEPT !.concurrent_replies = u.concurrent_replies]
    BY <1>1, RemoveReservationFacts
  <2>3. b \in BOOLEAN
    OBVIOUS
  <2> HIDE DEF u, b
  <2>4. v \in SeqExState
    BY <2>2, <2>3 DEF SeqExState
  <2>5. /\ v.send_window = u.send_window /\ v.next_send_seq_no = u.next_send_seq_no
        /\ v.next_service_timestamp = u.next_service_timestamp /\ v.recv_window = u.recv_window
        /\ v.next_recv_seq_no = u.next_recv_seq_no
    BY <2>2, <2>3 DEF SeqExState
  <2>6. /\ u.send_window = s.send_window /\ u.next_send_seq_no = s.next_send_seq_no
        /\ u.next_service_timestamp = s.next_service_timestamp /\ u.recv_window = s.recv_window
        /\ u.next_recv_seq_no = s.next_recv_seq_no
    BY <2>2 DEF SeqExState
  <2> QED
    BY <2>1, <2>4, <2>5, <2>6 DEF SameSendSide
<1>2. CASE ~Reserved(s, r)
  BY <1>2 DEF AckRaw, SameSendSide
<1> QED
  BY <1>1, <1>2

\* Whose channel is stored with a packet that was sent.
LEMMA TakenDataType ==
    ASSUME NEW s \in SeqExState, NEW r \in OptSeqNo
    PROVE  /\ TakenData(s, r) \in Data \cup {None}
           /\ SentEntry(s, r) # None /\ r # None => SentEntry(s, r).data \in Data
<1>1. r # None => Idx(r) \in 0 .. CAP - 1
  BY IdxType DEF OptSeqNo
<1>2. SentEntry(s, r) # None /\ r # None => SentEntry(s, r) \in SendEntry
  BY <1>1 DEF SentEntry, SeqExState
<1>3. SentEntry(s, r) # None /\ r # None => SentEntry(s, r).data \in Data
  BY <1>2 DEF SendEntry
<1> QED
  BY <1>3 DEF TakenData

LEMMA ToldType ==
    ASSUME NEW results \in [Task -> Result], NEW u \in Data, NEW value \in Result
    PROVE  Told(results, u, value) \in [Task -> Result]
BY TaskAssumption DEF Told, Listens

LEMMA HandOverType ==
    ASSUME NEW s \in SeqExState, NEW results \in [Task -> Result], NEW m,
           m.seq_no \in SeqNo, m.seq_cst \in BOOLEAN, NEW to \in Data
    PROVE  /\ HandOver(s, results, m, to).seq \in SeqExState
           /\ OnlyTakes(s, HandOver(s, results, m, to).seq)
           /\ HandOver(s, results, m, to).result \in [Task -> Result]
<1>1. Guard(m.seq_no, m.seq_cst) \in Result
  BY GuardFacts DEF Result
<1>2. Told(results, to, Guard(m.seq_no, m.seq_cst)) \in [Task -> Result]
  BY <1>1, ToldType
<1>3. AckRaw(s, m.seq_no, m.seq_cst) \in SeqExState /\ OnlyTakes(s, AckRaw(s, m.seq_no, m.seq_cst))
  BY AckRawKeeps DEF SameSendSide, OnlyTakes, Shrunk
<1>4. OnlyTakes(s, s)
  BY DEF OnlyTakes, Shrunk
<1> QED
  BY <1>2, <1>3, <1>4 DEF HandOver

\* The states of the pump loop.
LoopStates ==
    [seq : SeqExState, result : [Task -> Result], total_recv : Nat, do_pump : BOOLEAN]

LEMMA PumpTurnType ==
    ASSUME NEW r \in LoopStates, PumpOutcome(r.seq) = "Deliver"
    PROVE  /\ PumpTurn(r) \in LoopStates /\ OnlyTakes(r.seq, PumpTurn(r).seq)
           /\ PumpTurn(r).total_recv = r.total_recv + 1
<1> DEFINE m == NextEntry(r.seq)
           s == Pump(r.seq)
           sender == TakenData(r.seq, m.reply_no)
           handed == IF sender = None THEN HandOver(s, r.result, m, m.data)
                     ELSE HandOver(s, Told(r.result, m.data, SeqExClosed), m, sender)
           saved == NextIsSaved(s)
<1>1. r.seq \in SeqExState /\ r.result \in [Task -> Result] /\ r.total_recv \in Nat
  BY DEF LoopStates
<1>2. m \in OccupiedEntry
  BY <1>1, PumpEntry
<1>3. /\ m.seq_no \in SeqNo /\ m.reply_no \in OptSeqNo /\ m.seq_cst \in BOOLEAN
      /\ m.data \in Data
  BY <1>2 DEF OccupiedEntry
<1>4. s \in SeqExState /\ OnlyTakes(r.seq, s)
  BY <1>1, PumpType, PumpTakes
<1>5. sender \in Data \cup {None}
  BY <1>1, <1>3, TakenDataType
<1>6. saved \in BOOLEAN
  BY DEF NextIsSaved
<1>7. PumpTurn(r) = [seq |-> handed.seq, result |-> handed.result,
                     total_recv |-> r.total_recv + 1, do_pump |-> saved]
  BY DEF PumpTurn
<1> HIDE DEF m, s, sender, saved
<1>8. /\ handed.seq \in SeqExState /\ OnlyTakes(s, handed.seq)
      /\ handed.result \in [Task -> Result]
  <2>1. CASE sender = None
    BY <1>1, <1>3, <1>4, <2>1, HandOverType
  <2>2. CASE sender # None
    <3>1. SeqExClosed \in Result
      BY DEF Result
    <3>2. Told(r.result, m.data, SeqExClosed) \in [Task -> Result]
      BY <1>1, <1>3, <3>1, ToldType
    <3> QED
      BY <1>3, <1>4, <1>5, <2>2, <3>2, HandOverType
  <2> QED
    BY <2>1, <2>2
<1> HIDE DEF handed
<1>9. OnlyTakes(r.seq, handed.seq)
  BY <1>4, <1>8, OnlyTakesTwice
<1> QED
  BY <1>1, <1>6, <1>7, <1>8, <1>9 DEF LoopStates

\* The whole loop.
LEMMA PumpLoopType ==
    ASSUME NEW start \in LoopStates
    PROVE  /\ PumpLoop(start) \in LoopStates
           /\ OnlyTakes(start.seq, PumpLoop(start).seq)
           /\ PumpLoop(start).total_recv >= start.total_recv
<1> DEFINE S == {r \in LoopStates : OnlyTakes(start.seq, r.seq) /\ r.total_recv >= start.total_recv}
<1>1. start \in S
  BY DEF OnlyTakes, Shrunk, LoopStates
<1>2. ASSUME NEW r \in S, r.do_pump, PumpOutcome(r.seq) = "Deliver"
      PROVE  PumpTurn(r) \in S
  <2>1. /\ PumpTurn(r) \in LoopStates /\ OnlyTakes(r.seq, PumpTurn(r).seq)
        /\ PumpTurn(r).total_recv = r.total_recv + 1
    BY <1>2, PumpTurnType
  <2>2. OnlyTakes(start.seq, PumpTurn(r).seq)
    BY <2>1, OnlyTakesTwice
  <2>3. start.total_recv \in Nat /\ r.total_recv \in Nat
    BY DEF LoopStates
  <2> QED
    BY <2>1, <2>2, <2>3
<1>3. PumpLoop(start) \in S
  <2> HIDE DEF S
  <2> QED
    BY <1>1, <1>2, PumpLoopInduction
<1> QED
  BY <1>3

\* A packet that arrives is made out to the call that receives it.
LEMMA AsReceivedType ==
    ASSUME NEW m \in Remote, NEW t \in Task
    PROVE  /\ AsReceived(m, t) \in DataPacket
           /\ AsReceived(m, t).seq_no = m.seq_no /\ AsReceived(m, t).seq_cst = m.seq_cst
           /\ AsReceived(m, t).reply_no = m.reply_no /\ AsReceived(m, t).data = t
           /\ m.seq_no \in SeqNo /\ m.reply_no \in OptSeqNo /\ m.seq_cst \in BOOLEAN
BY TaskAssumption, RemoteAssumption DEF AsReceived, DataPacket, RemotePacket

\* receive_inner hands something over, and knows how many packets left the windows.
Receives(t, n, place) ==
    /\ pc[t] = "idle" /\ n \in Nat /\ n >= 1 /\ place \in {"return", "idle"}
    /\ seq' \in SeqExState /\ OnlyTakes(seq, seq')
    /\ result' \in [Task -> Result]
    /\ WakeSenders(t, n, place)
    /\ UNCHANGED <<reply_waiters, permit, service, held, history>>

\* receive gives the packet to SEQEX, which keeps or drops it.
Refuses(t) ==
    /\ pc[t] = "idle"
    /\ seq' \in SeqExState /\ OnlyTakes(seq, seq') /\ SameReplies(seq, seq')
    /\ \E p \in {"idle", "await"} : Goto(t, p)
    /\ UNCHANGED <<recv_waiters, result, reply_waiters, permit, service, held, history>>

LEMMA ReceiveDataKind ==
    ASSUME TypeOK, NEW t \in Task, NEW m \in Remote, ReceiveData(t, m)
    PROVE  Refuses(t) \/ \E n \in Nat, place \in {"return", "idle"} : Receives(t, n, place)
<1> DEFINE q == AsReceived(m, t)
<1>1. seq \in SeqExState /\ result \in [Task -> Result] /\ t \in Data
  BY TaskAssumption DEF TypeOK
<1>2. /\ q \in DataPacket /\ q.seq_no \in SeqNo /\ q.seq_cst \in BOOLEAN /\ q.reply_no \in OptSeqNo
  BY AsReceivedType
<1>3. pc[t] = "idle" /\ UNCHANGED <<reply_waiters, permit, service, held, history>>
  BY DEF ReceiveData
<1>4. CASE ReceiveRefuses(t, q)
  <2>1. ReceiveOutcome(seq, q) # "Deliver" /\ seq' = Receive(seq, q)
    BY <1>4 DEF ReceiveRefuses
  <2>2. seq' \in SeqExState /\ OnlyTakes(seq, seq') /\ SameReplies(seq, seq')
    BY <1>1, <1>2, <2>1, ReceiveType, ReceiveTakes
  <2> QED
    BY <1>3, <1>4, <2>2 DEF ReceiveRefuses, Refuses
<1>5. CASE ReceiveDelivers(t, q)
  <2> DEFINE s == Receive(seq, q)
             sender == TakenData(seq, q.reply_no)
             closed == SavedCallClosed(seq, q, result)
             pump == IsNext(seq, q.seq_no) /\ NextIsSaved(s)
             start == [seq |-> s, result |-> closed, total_recv |-> 1, do_pump |-> pump]
             r == PumpLoop(start)
             to == IF sender = None THEN t ELSE sender
             handed == HandOver(r.seq, r.result, q, to)
             place == IF sender = None THEN "return" ELSE "idle"
  <2>1. seq' = handed.seq /\ result' = handed.result /\ WakeSenders(t, r.total_recv, place)
    BY <1>5 DEF ReceiveDelivers
  <2>2. s \in SeqExState /\ OnlyTakes(seq, s)
    BY <1>1, <1>2, ReceiveType, ReceiveTakes
  <2>3. closed \in [Task -> Result]
    <3> DEFINE e == seq.recv_window[Idx(q.seq_no)]
    <3>1. e \in RecvEntry
      BY <1>1, <1>2, IdxType DEF SeqExState
    <3>2. e.tag = "Occupied" => e.data \in Data
      BY <3>1, RecvEntryFacts DEF OccupiedEntry
    <3>3. SeqExClosed \in Result
      BY DEF Result
    <3> QED
      BY <1>1, <3>2, <3>3, ToldType DEF SavedCallClosed
  <2>4. pump \in BOOLEAN
    BY DEF IsNext, NextIsSaved
  <2>5. sender \in Data \cup {None}
    BY <1>1, <1>2, TakenDataType
  <2> HIDE DEF s, closed, pump, sender
  <2>6. start \in LoopStates /\ start.seq = s /\ start.total_recv = 1
    BY <2>2, <2>3, <2>4 DEF LoopStates
  <2> HIDE DEF start
  <2>7. /\ r \in LoopStates /\ OnlyTakes(s, r.seq) /\ r.total_recv >= 1
    BY <2>6, PumpLoopType
  <2>8. r.seq \in SeqExState /\ r.result \in [Task -> Result] /\ r.total_recv \in Nat
    BY <2>7 DEF LoopStates
  <2> HIDE DEF r
  <2>9. to \in Data
    BY <1>1, <2>5
  <2> HIDE DEF to, q
  <2>10. /\ handed.seq \in SeqExState /\ OnlyTakes(r.seq, handed.seq)
         /\ handed.result \in [Task -> Result]
    BY <1>2, <2>8, <2>9, HandOverType
  <2>11. OnlyTakes(seq, handed.seq)
    BY <2>2, <2>7, <2>10, OnlyTakesTwice
  <2>12. place \in {"return", "idle"}
    OBVIOUS
  <2> HIDE DEF handed, place
  <2>13. Receives(t, r.total_recv, place)
    BY <1>3, <2>1, <2>7, <2>8, <2>10, <2>11, <2>12 DEF Receives
  <2> QED
    BY <2>8, <2>12, <2>13
<1> QED
  BY <1>4, <1>5 DEF ReceiveData

----------------------------------------------------------------------------
(* The tasks, where they are and the notifications they have to make.      *)

\* Task t goes to p, with the notifications q and n; those it notifies wake.
Moved(t, p, q, n) ==
    /\ pc' \in [Task -> Place] /\ pc'[t] = p
    /\ resume' = [resume EXCEPT ![t] = q] /\ waking' = [waking EXCEPT ![t] = n]
    /\ \A u \in Task \ {t} :
        \/ pc'[u] = pc[u]
        \/ pc[u] = "wait_on_recv" /\ pc'[u] = "woken_on_recv"
        \/ pc[u] = "wait_on_reply" /\ pc'[u] = "woken_on_reply"

\* The calls of notify_one of one task.
LEMMA ToNotifyMoves ==
    ASSUME waking \in [Task -> Nat], NEW t \in Task, NEW n \in Nat,
           waking' = [waking EXCEPT ![t] = n]
    PROVE  /\ Cardinality(ToNotify) \in Nat /\ Cardinality(ToNotify)' \in Nat
           /\ Cardinality(ToNotify)' + waking[t] = Cardinality(ToNotify) + n
<1> DEFINE Calls(u, k) == {u} \X (1 .. k)
           rest == UNION {Calls(u, waking[u]) : u \in Task \ {t}}
<1>1. \A u : \A k \in Nat : IsFiniteSet(Calls(u, k)) /\ Cardinality(Calls(u, k)) = k
  <2> SUFFICES ASSUME NEW u, NEW k \in Nat
               PROVE  IsFiniteSet(Calls(u, k)) /\ Cardinality(Calls(u, k)) = k
    OBVIOUS
  <2>1. IsFiniteSet({u}) /\ Cardinality({u}) = 1
    BY FS_Singleton
  <2>2. IsFiniteSet(1 .. k) /\ Cardinality(1 .. k) = k
    <3>1. 1 \in Int /\ k \in Int /\ k >= 0
      OBVIOUS
    <3>2. IsFiniteSet(1 .. k) /\ Cardinality(1 .. k) = IF 1 > k THEN 0 ELSE k - 1 + 1
      BY <3>1, FS_Interval
    <3> QED
      BY <3>2
  <2>3. IsFiniteSet({u} \X (1 .. k)) /\ Cardinality({u} \X (1 .. k)) = 1 * k
    BY <2>1, <2>2, FS_Product
  <2> QED
    BY <2>3
<1>2. IsFiniteSet(rest)
  <2> DEFINE others == Task \ {t}
             f == [u \in others |-> Calls(u, waking[u])]
             T == {Calls(u, waking[u]) : u \in others}
  <2>1. IsFiniteSet(others)
    <3>1. others \in SUBSET Task
      OBVIOUS
    <3> QED
      BY <3>1, TaskAssumption, FS_Subset
  <2>2. \A x \in T : IsFiniteSet(x)
    <3>1. SUFFICES ASSUME NEW u \in others PROVE IsFiniteSet(Calls(u, waking[u]))
      OBVIOUS
    <3>2. waking[u] \in Nat
      OBVIOUS
    <3> HIDE DEF Calls
    <3> QED
      BY <1>1, <3>2
  <2>3. f \in Surjection(others, T)
    <3> HIDE DEF Calls
    <3> QED
      BY DEF Surjection
  <2> HIDE DEF others, f, T
  <2>4. IsFiniteSet(T)
    BY <2>1, <2>3, FS_Surjection
  <2>5. IsFiniteSet(UNION T)
    BY <2>2, <2>4, FS_UNION
  <2> QED
    BY <2>5 DEF T, others
<1>3. ToNotify = rest \cup Calls(t, waking[t])
  BY DEF ToNotify
<1>4. ToNotify' = rest \cup Calls(t, n)
  <2>1. /\ waking'[t] = n
        /\ \A u \in Task \ {t} : waking'[u] = waking[u]
    OBVIOUS
  <2>2. ToNotify' = UNION {Calls(u, waking'[u]) : u \in Task}
    BY DEF ToNotify
  <2> HIDE DEF Calls
  <2>3. \A x : x \in ToNotify' <=> \E u \in Task : x \in Calls(u, waking'[u])
    BY <2>2
  <2>4. \A x : x \in rest <=> \E u \in Task \ {t} : x \in Calls(u, waking[u])
    OBVIOUS
  <2> HIDE DEF rest
  <2>5. \A x : x \in ToNotify' <=> x \in rest \/ x \in Calls(t, n)
    BY <2>1, <2>3, <2>4
  <2> QED
    BY <2>5
<1>5. \A k : rest \cap Calls(t, k) = {}
  OBVIOUS
<1> HIDE DEF rest, Calls
<1>6. \A k \in Nat : Cardinality(rest \cup Calls(t, k)) = Cardinality(rest) + k
  <2> SUFFICES ASSUME NEW k \in Nat
               PROVE  Cardinality(rest \cup Calls(t, k)) = Cardinality(rest) + k
    OBVIOUS
  <2>1. IsFiniteSet(Calls(t, k)) /\ Cardinality(Calls(t, k)) = k
    BY <1>1
  <2>2. Cardinality(rest \cup Calls(t, k))
          = Cardinality(rest) + Cardinality(Calls(t, k)) - Cardinality(rest \cap Calls(t, k))
    BY <1>2, <2>1, FS_Union
  <2>3. Cardinality(rest \cap Calls(t, k)) = 0
    BY <1>5, FS_EmptySet
  <2>4. Cardinality(rest) \in Nat
    BY <1>2, FS_CardinalityType
  <2> QED
    BY <2>1, <2>2, <2>3, <2>4
<1>7. Cardinality(rest) \in Nat /\ waking[t] \in Nat
  BY <1>2, FS_CardinalityType
<1>8. Cardinality(ToNotify) = Cardinality(rest) + waking[t]
  BY <1>3, <1>6, <1>7
<1>9. Cardinality(ToNotify)' = Cardinality(rest) + n
  BY <1>4, <1>6
<1> QED
  BY <1>7, <1>8, <1>9

\* The tasks whose futures await, or are about to await, wait_on_recv, and those who have
\* an update to queue.
OnRecv   == {"gap_recv", "wait_on_recv"}
Queueing == {t \in Task : "queue" \in {pc[t], resume[t]}}

\* Subsets of the tasks are finite.
LEMMA TasksFinite ==
    ASSUME NEW S, S \subseteq Task
    PROVE  /\ IsFiniteSet(S) /\ Cardinality(S) \in Nat /\ (Cardinality(S) = 0 <=> S = {})
           /\ \A x \in S : Cardinality(S \ {x}) = Cardinality(S) - 1 /\ Cardinality(S) >= 1
           /\ \A x : x \notin S => Cardinality(S \cup {x}) = Cardinality(S) + 1
           /\ \A R : R \subseteq S => Cardinality(R) <= Cardinality(S) /\ Cardinality(R) \in Nat
<1>1. S \in SUBSET Task
  OBVIOUS
<1>2. IsFiniteSet(S)
  BY <1>1, TaskAssumption, FS_Subset
<1>3. Cardinality(S) \in Nat /\ (Cardinality(S) = 0 <=> S = {})
  BY <1>2, FS_CardinalityType, FS_EmptySet
<1>4. ASSUME NEW x \in S PROVE Cardinality(S \ {x}) = Cardinality(S) - 1 /\ Cardinality(S) >= 1
  <2>1. Cardinality(S \ {x}) = Cardinality(S) - 1
    BY <1>2, FS_RemoveElement
  <2>2. S # {}
    OBVIOUS
  <2> QED
    BY <1>3, <2>1, <2>2
<1>5. ASSUME NEW x, x \notin S PROVE Cardinality(S \cup {x}) = Cardinality(S) + 1
  BY <1>2, <1>5, FS_AddElement
<1>6. ASSUME NEW R, R \subseteq S PROVE Cardinality(R) <= Cardinality(S) /\ Cardinality(R) \in Nat
  <2>1. R \in SUBSET S
    BY <1>6
  <2> QED
    BY <1>2, <2>1, FS_Subset, FS_CardinalityType
<1> QED
  BY <1>2, <1>3, <1>4, <1>5, <1>6

LEMMA QueueingMoves ==
    ASSUME resume \in [Task -> Place], NEW t \in Task, NEW p, NEW q, NEW n, Moved(t, p, q, n)
    PROVE  Cardinality(Queueing)' = (Cardinality(Queueing) - (IF t \in Queueing THEN 1 ELSE 0))
                                        + (IF "queue" \in {p, q} THEN 1 ELSE 0)
<1> DEFINE rest == Queueing \ {t}
<1>1. /\ resume'[t] = q /\ pc'[t] = p
      /\ \A u \in Task \ {t} : resume'[u] = resume[u] /\ (pc'[u] = "queue" <=> pc[u] = "queue")
  BY DEF Moved
<1>2. Queueing' = IF "queue" \in {p, q} THEN rest \cup {t} ELSE rest
  BY <1>1 DEF Queueing
<1>3. rest \subseteq Task /\ Queueing \subseteq Task /\ t \notin rest
  BY DEF Queueing
<1>4. Cardinality(rest) = Cardinality(Queueing) - (IF t \in Queueing THEN 1 ELSE 0)
  <2>1. CASE t \in Queueing
    BY <1>3, <2>1, TasksFinite
  <2>2. CASE t \notin Queueing
    <3>1. rest = Queueing
      BY <2>2
    <3>2. Cardinality(Queueing) \in Nat
      BY <1>3, TasksFinite
    <3> HIDE DEF rest
    <3> QED
      BY <2>2, <3>1, <3>2
  <2> QED
    BY <2>1, <2>2
<1>5. Cardinality(rest \cup {t}) = Cardinality(rest) + 1 /\ Cardinality(rest) \in Nat
  BY <1>3, TasksFinite
<1> HIDE DEF rest
<1> QED
  BY <1>2, <1>4, <1>5

\* At most the task that moves comes to wait_on_recv.
LEMMA OnRecvMoves ==
    ASSUME pc \in [Task -> Place], NEW t \in Task, NEW p, NEW q, NEW n, Moved(t, p, q, n)
    PROVE  /\ At(OnRecv) \subseteq Task
           /\ At(OnRecv)' \subseteq (At(OnRecv) \ {t}) \cup (IF p \in OnRecv THEN {t} ELSE {})
           /\ Cardinality(At(OnRecv)) \in Nat /\ Cardinality(At(OnRecv)') \in Nat
           /\ Cardinality(At(OnRecv)') <=
                (Cardinality(At(OnRecv)) - (IF pc[t] \in OnRecv THEN 1 ELSE 0))
                    + (IF p \in OnRecv THEN 1 ELSE 0)
<1> DEFINE W == At(OnRecv)
           rest == W \ {t}
<1>1. W \subseteq Task /\ rest \subseteq Task /\ t \notin rest /\ At(OnRecv)' \subseteq Task
      /\ (t \in W <=> pc[t] \in OnRecv)
  BY DEF At
<1>2. \A u \in Task \ {t} : pc'[u] \in OnRecv => pc[u] \in OnRecv
  BY DEF Moved, OnRecv
<1>3. At(OnRecv)' \subseteq rest \cup (IF p \in OnRecv THEN {t} ELSE {})
  BY <1>2 DEF At, Moved
<1> HIDE DEF W
<1>4. Cardinality(rest) = Cardinality(W) - (IF pc[t] \in OnRecv THEN 1 ELSE 0)
  <2>1. CASE t \in W
    BY <1>1, <2>1, TasksFinite
  <2>2. CASE t \notin W
    <3>1. rest = W /\ pc[t] \notin OnRecv
      BY <1>1, <2>2
    <3>2. Cardinality(W) \in Nat
      BY <1>1, TasksFinite
    <3> HIDE DEF rest
    <3> QED
      BY <3>1, <3>2
  <2> QED
    BY <2>1, <2>2
<1>5. Cardinality(W) \in Nat /\ Cardinality(rest) \in Nat
      /\ Cardinality(rest \cup {t}) = Cardinality(rest) + 1 /\ Cardinality(At(OnRecv)') \in Nat
  BY <1>1, TasksFinite
<1>6. CASE p \in OnRecv
  <2>1. At(OnRecv)' \subseteq rest \cup {t} /\ rest \cup {t} \subseteq Task
    BY <1>1, <1>3, <1>6
  <2>2. Cardinality(At(OnRecv)') <= Cardinality(rest \cup {t})
    BY <2>1, TasksFinite
  <2> HIDE DEF rest
  <2> QED
    BY <1>1, <1>3, <1>4, <1>5, <1>6, <2>2 DEF W, rest
<1>7. CASE p \notin OnRecv
  <2>1. At(OnRecv)' \subseteq rest
    BY <1>3, <1>7
  <2>2. Cardinality(At(OnRecv)') <= Cardinality(rest)
    BY <1>1, <2>1, TasksFinite
  <2> HIDE DEF rest
  <2> QED
    BY <1>1, <1>3, <1>4, <1>5, <1>7, <2>2 DEF W, rest
<1> QED
  BY <1>6, <1>7

----------------------------------------------------------------------------
(***************************************************************************)
(* The inductive invariant.  A task has calls of notify_one to make exactly*)
(* while it makes them, and goes on after its notifications, only then, to *)
(* an await or a return.  All packets are due one resend interval after    *)
(* time 0, so SEQEX has no deadline or this one; the service task has the  *)
(* same, or a single update that will tell it is queued or about to be.    *)
(***************************************************************************)
Flow == \A t \in Task :
    /\ waking[t] > 0 <=> pc[t] = "notify_recv"
    /\ resume[t] # "idle" => pc[t] \in {"notify_recv", "notify_reply"}
    /\ resume[t] \in {"idle", "return", "queue", "await"}

\* How many updates are under way.
Updates == Len(updates) + Cardinality(Queueing)

Timers ==
    /\ \A i \in 0 .. CAP - 1 : seq.send_window[i] # None
                               => seq.send_window[i].next_resend_time = ResendInterval
    /\ seq.next_service_timestamp \in {MaxTime, ResendInterval}
    /\ \A i \in 1 .. Len(updates) : updates[i] = ResendInterval
    /\ Updates \in {0, 1}
    /\ Updates = 1 => seq.next_service_timestamp = ResendInterval /\ service_ts = MaxTime
    /\ service_ts \in {MaxTime, seq.next_service_timestamp}
    /\ ~forgotten /\ Updates = 0 => service_ts <= seq.next_service_timestamp

IInv == TypeOK /\ Flow /\ Timers /\ RecvWakeUpDue

One(b) == IF b THEN 1 ELSE 0

\* What RecvWakeUpDue says, in numbers.
LEMMA WakeUpNumbers ==
    RecvWakeUpDue <=> (~collapsed => Cardinality(At(OnRecv))
                            <= recv_waiters + Cardinality(ToNotify) + One(permit))
BY DEF RecvWakeUpDue, OnRecv, One

LEMMA FlowMoves ==
    ASSUME Flow, waking \in [Task -> Nat], resume \in [Task -> Place],
           NEW t \in Task, NEW p, NEW q, NEW n \in Nat, Moved(t, p, q, n),
           n > 0 <=> p = "notify_recv",
           q # "idle" => p \in {"notify_recv", "notify_reply"},
           q \in {"idle", "return", "queue", "await"}
    PROVE  Flow'
<1> SUFFICES ASSUME NEW u \in Task
             PROVE  /\ waking'[u] > 0 <=> pc'[u] = "notify_recv"
                    /\ resume'[u] # "idle" => pc'[u] \in {"notify_recv", "notify_reply"}
                    /\ resume'[u] \in {"idle", "return", "queue", "await"}
  BY DEF Flow
<1>1. CASE u = t
  <2>1. pc'[u] = p /\ resume'[u] = q /\ waking'[u] = n
    BY <1>1 DEF Moved
  <2> QED
    BY <2>1
<1>2. CASE u # t
  <2>1. resume'[u] = resume[u] /\ waking'[u] = waking[u]
    BY <1>2 DEF Moved
  <2>2. \/ pc'[u] = pc[u]
        \/ pc[u] = "wait_on_recv" /\ pc'[u] = "woken_on_recv"
        \/ pc[u] = "wait_on_reply" /\ pc'[u] = "woken_on_reply"
    BY <1>2 DEF Moved
  <2> QED
    BY <2>1, <2>2 DEF Flow
<1> QED
  BY <1>1, <1>2

\* A task that goes somewhere else.
LEMMA GotoMoves ==
    ASSUME TypeOK, Flow, NEW t \in Task, NEW p \in Place, pc' = [pc EXCEPT ![t] = p],
           NEW q \in Place, resume' = [resume EXCEPT ![t] = q],
           NEW n \in Nat, waking' = [waking EXCEPT ![t] = n]
    PROVE  Moved(t, p, q, n) /\ resume' \in [Task -> Place] /\ waking' \in [Task -> Nat]
BY DEF TypeOK, Moved

\* It has no notification to make before or after.
LEMMA GotoPlain ==
    ASSUME TypeOK, Flow, NEW t \in Task, NEW p \in Place, Goto(t, p),
           pc[t] \notin {"notify_recv", "notify_reply"}
    PROVE  /\ Moved(t, p, "idle", 0) /\ waking[t] = 0 /\ resume[t] = "idle"
           /\ resume' \in [Task -> Place] /\ waking' \in [Task -> Nat]
<1>1. waking[t] = 0 /\ resume[t] = "idle" /\ waking \in [Task -> Nat] /\ resume \in [Task -> Place]
  BY DEF TypeOK, Flow
<1>2. waking' = [waking EXCEPT ![t] = 0] /\ resume' = [resume EXCEPT ![t] = "idle"]
  BY <1>1 DEF Goto
<1>3. "idle" \in Place /\ 0 \in Nat
  BY DEF Place
<1> QED
  BY <1>1, <1>2, <1>3, GotoMoves DEF Goto

\* notify_one wakes a sender or leaves a permit.
LEMMA NotifyOneOfFacts ==
    ASSUME TypeOK, NEW t \in Task, NEW p \in Place, p \notin OnRecv,
           NotifyOneOf([pc EXCEPT ![t] = p])
    PROVE  /\ pc' \in [Task -> Place] /\ pc'[t] = p
           /\ \A u \in Task \ {t} : pc'[u] = pc[u] \/ (pc[u] = "wait_on_recv" /\ pc'[u] = "woken_on_recv")
           /\ permit' \in BOOLEAN /\ collapsed' \in BOOLEAN /\ (collapsed => collapsed')
           /\ ~collapsed' => Cardinality(At(OnRecv)') + 1
                    <= (Cardinality(At(OnRecv)) - One(pc[t] \in OnRecv)) + (One(permit') - One(permit))
<1> DEFINE now == [pc EXCEPT ![t] = p]
           waiting == {u \in Task : now[u] = "wait_on_recv"}
           W == At(OnRecv)
           rest == W \ {t}
<1>1. /\ pc \in [Task -> Place] /\ permit \in BOOLEAN /\ collapsed \in BOOLEAN
      /\ now \in [Task -> Place] /\ now[t] = p /\ \A u \in Task \ {t} : now[u] = pc[u]
  BY DEF TypeOK
<1>2. W \subseteq Task /\ rest \subseteq Task /\ rest = {u \in Task : now[u] \in OnRecv}
  BY <1>1 DEF At
<1>3. Cardinality(rest) = Cardinality(W) - One(pc[t] \in OnRecv) /\ Cardinality(rest) \in Nat
  <2>1. t \in W <=> pc[t] \in OnRecv
    BY DEF At
  <2>2. CASE t \in W
    <3>1. Cardinality(rest) = Cardinality(W) - 1 /\ Cardinality(rest) \in Nat
      BY <1>2, <2>2, TasksFinite
    <3> QED
      BY <2>1, <2>2, <3>1 DEF One
  <2>3. CASE t \notin W
    <3>1. rest = W
      BY <2>3
    <3>2. Cardinality(W) \in Nat
      BY <1>2, TasksFinite
    <3> HIDE DEF rest, W
    <3>3. One(pc[t] \in OnRecv) = 0
      BY <2>1, <2>3 DEF One
    <3> QED
      BY <3>1, <3>2, <3>3
  <2> QED
    BY <2>2, <2>3
<1>4. CASE waiting = {}
  <2>1. pc' = now /\ permit' = TRUE /\ collapsed' = (collapsed \/ permit)
    BY <1>4 DEF NotifyOneOf
  <2>2. At(OnRecv)' = rest
    BY <1>2, <2>1 DEF At
  <2>3. ASSUME ~collapsed' PROVE One(permit') - One(permit) = 1
    BY <1>1, <2>1, <2>3 DEF One
  <2>4. Cardinality(At(OnRecv)') = Cardinality(rest)
    BY <2>2
  <2> HIDE DEF rest, W
  <2>5. ~collapsed' => Cardinality(At(OnRecv)') + 1
                <= (Cardinality(W) - One(pc[t] \in OnRecv)) + (One(permit') - One(permit))
    BY <1>3, <2>3, <2>4
  <2> QED
    BY <1>1, <2>1, <2>5 DEF W
<1>5. CASE waiting # {}
  <2>1. PICK w \in waiting : pc' = [now EXCEPT ![w] = "woken_on_recv"]
    BY <1>5 DEF NotifyOneOf
  <2>2. permit' = permit /\ collapsed' = collapsed
    BY <1>5 DEF NotifyOneOf
  <2>3. w \in Task /\ now[w] = "wait_on_recv" /\ w # t /\ pc[w] = "wait_on_recv"
    BY <1>1, <2>1 DEF OnRecv
  <2>4. pc' \in [Task -> Place] /\ pc'[t] = p
        /\ \A u \in Task \ {t} : pc'[u] = pc[u] \/ (pc[u] = "wait_on_recv" /\ pc'[u] = "woken_on_recv")
    BY <1>1, <2>1, <2>3 DEF Place, Awaits
  <2>5. At(OnRecv)' = rest \ {w} /\ w \in rest
    BY <1>1, <1>2, <2>1, <2>3 DEF At, OnRecv
  <2>6. Cardinality(At(OnRecv)') = Cardinality(rest) - 1
    BY <1>2, <2>5, TasksFinite
  <2>7. One(permit') - One(permit) = 0
    BY <2>2 DEF One
  <2> HIDE DEF rest, W
  <2>8. Cardinality(At(OnRecv)') + 1
                <= (Cardinality(W) - One(pc[t] \in OnRecv)) + (One(permit') - One(permit))
    BY <1>3, <2>6, <2>7
  <2> QED
    BY <1>1, <2>2, <2>4, <2>8 DEF W
<1> QED
  BY <1>4, <1>5

\* RecvWakeUpDue survives a step that adds as many waiters as it makes somebody wake.
LEMMA WakeUpMoves ==
    ASSUME TypeOK, RecvWakeUpDue, NEW t \in Task, NEW p, NEW q, NEW n \in Nat, Moved(t, p, q, n),
           UNCHANGED <<permit, collapsed>>, recv_waiters' \in Nat,
           recv_waiters' + n + One(pc[t] \in OnRecv) >= recv_waiters + waking[t] + One(p \in OnRecv)
    PROVE  RecvWakeUpDue'
<1> DEFINE a == Cardinality(At(OnRecv))
           k == Cardinality(ToNotify)
           from == One(pc[t] \in OnRecv)
           to == One(p \in OnRecv)
           w == waking[t]
           m == One(permit)
<1>1. /\ waking \in [Task -> Nat] /\ pc \in [Task -> Place] /\ recv_waiters \in Nat
      /\ waking' = [waking EXCEPT ![t] = n]
  BY DEF TypeOK, Moved
<1>2. k \in Nat /\ k' \in Nat /\ k' + w = k + n /\ w \in Nat
  BY <1>1, ToNotifyMoves
<1>3. /\ a \in Nat /\ Cardinality(At(OnRecv)') \in Nat
      /\ Cardinality(At(OnRecv)') <= (a - from) + to
  BY <1>1, OnRecvMoves DEF One
<1>4. from \in {0, 1} /\ to \in {0, 1} /\ m \in {0, 1} /\ One(permit') = m
  BY DEF One
<1>5. /\ ~collapsed => a <= recv_waiters + k + m
      /\ RecvWakeUpDue' <=> (~collapsed' => Cardinality(At(OnRecv)')
                                <= recv_waiters' + Cardinality(ToNotify)' + One(permit'))
  BY WakeUpNumbers DEF RecvWakeUpDue, OnRecv, One
<1>6. recv_waiters' + n + from >= recv_waiters + w + to
  OBVIOUS
<1> DEFINE c == Cardinality(At(OnRecv)')
           l == Cardinality(ToNotify)'
           rw == recv_waiters'
           One2 == One(permit')
<1>7. l \in Nat /\ l + w = k + n /\ k \in Nat /\ w \in Nat
  BY <1>2
<1>8. a \in Nat /\ c \in Nat /\ c <= (a - from) + to /\ rw \in Nat
  BY <1>3
<1>9. RecvWakeUpDue' <=> (~collapsed => c <= rw + l + One2)
  BY <1>5
<1>10. ~collapsed => a <= recv_waiters + k + m
  BY <1>5
<1>11. rw + n + from >= recv_waiters + w + to /\ One2 = m
  BY <1>4, <1>6
<1> HIDE DEF a, k, from, to, w, m, c, l, rw, One2
<1>12. ~collapsed => c <= rw + l + One2
  BY <1>1, <1>4, <1>7, <1>8, <1>10, <1>11
<1> QED
  BY <1>9, <1>12

\* The timers survive a step that only takes packets out of the send window.
LEMMA TimersKept ==
    ASSUME Timers, seq \in SeqExState, OnlyTakes(seq, seq'),
           Cardinality(Queueing)' = Cardinality(Queueing),
           UNCHANGED <<updates, service_ts, forgotten>>
    PROVE  Timers'
<1>1. Updates' = Updates
  BY DEF Updates
<1>2. /\ seq'.next_service_timestamp = seq.next_service_timestamp
      /\ \A i \in 0 .. CAP - 1 : seq'.send_window[i] # None
                                 => seq'.send_window[i] = seq.send_window[i]
  BY DEF OnlyTakes, Shrunk
<1> QED
  BY <1>1, <1>2 DEF Timers

\* A packet is sent: the deadline comes nearer if there was none.
Inserts(s, v) ==
    /\ \A i \in 0 .. CAP - 1 : \/ v.send_window[i] = s.send_window[i]
                               \/ v.send_window[i].next_resend_time = ResendInterval
    /\ v.next_service_timestamp =
            IF s.next_service_timestamp > ResendInterval THEN ResendInterval
            ELSE s.next_service_timestamp

LEMMA InsertSendInserts ==
    ASSUME NEW s \in SeqExState, NEW e \in SendEntry, e.seq_no = s.next_send_seq_no,
           e.next_resend_time = ResendInterval
    PROVE  InsertSend(s, e) \in SeqExState /\ Inserts(s, InsertSend(s, e))
<1> DEFINE v == InsertSend(s, e)
<1>1. /\ v \in SeqExState /\ v.send_window = [s.send_window EXCEPT ![Idx(e.seq_no)] = e]
      /\ v.next_service_timestamp =
            IF s.next_service_timestamp > ResendInterval THEN ResendInterval
            ELSE s.next_service_timestamp
  BY InsertSendFacts
<1>2. s.send_window \in [0 .. CAP - 1 -> SendEntry \cup {None}]
  BY DEF SeqExState
<1> HIDE DEF v
<1>3. \A i \in 0 .. CAP - 1 : v.send_window[i] = s.send_window[i] \/ v.send_window[i] = e
  BY <1>1, <1>2
<1> QED
  BY <1>1, <1>3 DEF Inserts, v

LEMMA TrySendInserts ==
    ASSUME NEW s \in SeqExState, NEW c \in BOOLEAN, NEW d \in Data
    PROVE  TrySend(s, 0, c, d) \in SeqExState /\ Inserts(s, TrySend(s, 0, c, d))
<1> DEFINE e == NewEntry(s, 0, None, c, d)
<1>1. None \in OptSeqNo /\ 0 \in Nat /\ ResendInterval \in Nat
  BY TimeAssumption DEF OptSeqNo
<1>2. e \in SendEntry /\ e.seq_no = s.next_send_seq_no /\ e.next_resend_time = 0 + ResendInterval
  BY <1>1, NewEntryFacts
<1>3. TrySend(s, 0, c, d) = InsertSend(s, e)
  BY DEF TrySend
<1> HIDE DEF e
<1> QED
  BY <1>1, <1>2, <1>3, InsertSendInserts

LEMMA ReplyRawInserts ==
    ASSUME NEW s \in SeqExState, NEW r \in SeqNo, NEW u \in BOOLEAN, NEW c \in BOOLEAN, NEW d \in Data
    PROVE  LET v == ReplyRaw(s, 0, r, u, c, d)
           IN  v \in SeqExState /\ (Inserts(s, v) \/ v = s)
<1>1. CASE Reserved(s, r)
  <2> DEFINE w == RemoveReservation(s, r)
             e == NewEntry(s, 0, r, c, d)
             x == InsertSend(w, e)
             b == x.is_locked /\ ~u
             v == [x EXCEPT !.is_locked = b]
  <2>1. r \in OptSeqNo /\ 0 \in Nat /\ ResendInterval \in Nat
    BY TimeAssumption DEF OptSeqNo
  <2>2. /\ w \in SeqExState
        /\ w = [s EXCEPT !.concurrent_replies = w.concurrent_replies]
    BY <1>1, RemoveReservationFacts
  <2>3. e \in SendEntry /\ e.seq_no = s.next_send_seq_no /\ e.next_resend_time = 0 + ResendInterval
    BY <2>1, NewEntryFacts
  <2>4. ReplyRaw(s, 0, r, u, c, d) = v
    BY <1>1 DEF ReplyRaw
  <2> HIDE DEF w, e
  <2>5. SameSendSide(s, w)
    BY <2>2 DEF SeqExState, SameSendSide
  <2>6. x \in SeqExState /\ Inserts(w, x)
    BY <2>1, <2>2, <2>3, <2>5, InsertSendInserts DEF SameSendSide
  <2>7. b \in BOOLEAN
    OBVIOUS
  <2> HIDE DEF x, b
  <2>8. /\ v \in SeqExState /\ v.send_window = x.send_window
        /\ v.next_service_timestamp = x.next_service_timestamp
    BY <2>6, <2>7 DEF SeqExState
  <2> HIDE DEF v
  <2> QED
    BY <2>4, <2>5, <2>6, <2>8 DEF Inserts, SameSendSide
<1>2. CASE ~Reserved(s, r)
  BY <1>2 DEF ReplyRaw
<1> QED
  BY <1>1, <1>2

\* The task that sends the packet queues an update if the deadline has changed.
LEMMA TimersInserted ==
    ASSUME Timers, seq \in SeqExState, seq' \in SeqExState, Inserts(seq, seq') \/ seq' = seq,
           Cardinality(Queueing)' = Cardinality(Queueing)
                + One(seq'.next_service_timestamp # seq.next_service_timestamp),
           UNCHANGED <<updates, service_ts, forgotten>>, Len(updates) \in Nat,
           Cardinality(Queueing) \in Nat
    PROVE  Timers'
<1> DEFINE a == seq.next_service_timestamp
           b == seq'.next_service_timestamp
<1>1. a \in Nat /\ b \in Nat /\ ResendInterval \in Nat /\ MaxTime \in Nat
  BY TimeAssumption DEF SeqExState
<1>2. \A i \in 0 .. CAP - 1 : seq'.send_window[i] # None
                              => seq'.send_window[i].next_resend_time = ResendInterval
  BY DEF Timers, Inserts
<1>3. Updates' = Updates + One(b # a) /\ Updates \in {0, 1}
  <2> DEFINE c == Cardinality(Queueing)
             d == Cardinality(Queueing)'
             l == Len(updates)
             o == One(b # a)
  <2>1. d = c + o /\ c \in Nat /\ l \in Nat /\ o \in {0, 1}
    BY DEF One
  <2>2. Updates = l + c /\ Updates' = l + d
    BY DEF Updates
  <2> HIDE DEF c, d, l, o
  <2>3. Updates' = Updates + o
    BY <2>1, <2>2
  <2> QED
    BY <2>3 DEF Timers, o
<1>4. b = a \/ b = ResendInterval
  BY DEF Inserts
<1>5. a \in {MaxTime, ResendInterval} /\ b \in {MaxTime, ResendInterval}
  BY <1>4 DEF Timers
<1>6. CASE b = a
  <2>1. Updates' = Updates
    BY <1>3, <1>6 DEF One
  <2> QED
    BY <1>2, <1>6, <2>1 DEF Timers
<1>7. CASE b # a
  <2>1. a = MaxTime /\ b = ResendInterval
    BY <1>4, <1>5, <1>7
  <2>2. Updates = 0
    BY <1>3, <1>7, <2>1 DEF Timers
  <2>3. Updates' = 1
    BY <1>3, <1>7, <2>2 DEF One
  <2>4. service_ts = MaxTime
    BY <2>1 DEF Timers
  <2> QED
    BY <1>2, <2>1, <2>3, <2>4 DEF Timers
<1> QED
  BY <1>6, <1>7

LEMMA ReceiveAckKind ==
    ASSUME TypeOK, NEW t \in Task, NEW r \in SeqNo, ReceiveAck(t, r)
    PROVE  Receives(t, 1, "idle")
<1> DEFINE d == SentEntry(seq, r).data
           v == TakeSend(seq, r)
           told == Told(result, d, EndOfExchange)
<1>1. seq \in SeqExState /\ result \in [Task -> Result]
  BY DEF TypeOK
<1>2. r # None /\ r \in OptSeqNo /\ SentEntry(seq, r) # None
  BY NoneAssumption DEF OptSeqNo, ReceiveAck
<1>3. d \in Data
  BY <1>1, <1>2, TakenDataType
<1>4. EndOfExchange \in Result
  BY DEF Result
<1>5. told \in [Task -> Result]
  <2> HIDE DEF d
  <2> QED
    BY <1>1, <1>3, <1>4, ToldType
<1>6. /\ v \in SeqExState /\ Shrunk(seq.send_window, v.send_window)
      /\ v = [seq EXCEPT !.send_window = v.send_window]
  BY <1>1, TakeSendFacts
<1>7. /\ pc[t] = "idle" /\ seq' = v /\ result' = told /\ WakeSenders(t, 1, "idle")
      /\ UNCHANGED <<reply_waiters, permit, service, held, history>>
  BY DEF ReceiveAck
<1> HIDE DEF v, told
<1>8. OnlyTakes(seq, v)
  BY <1>1, <1>6 DEF OnlyTakes, SeqExState
<1> QED
  BY <1>5, <1>6, <1>7, <1>8 DEF Receives

\* Whose channel it is does not change what is in the windows otherwise.
LEMMA AbandonFacts ==
    ASSUME NEW s \in SeqExState, NEW t \in Task
    PROVE  LET v == Abandon(s, t)
           IN  /\ v \in SeqExState /\ SameReplies(s, v)
               /\ v.next_send_seq_no = s.next_send_seq_no
               /\ v.next_service_timestamp = s.next_service_timestamp
               /\ \A i \in 0 .. CAP - 1 : v.send_window[i] # None =>
                    /\ s.send_window[i] # None
                    /\ v.send_window[i].next_resend_time = s.send_window[i].next_resend_time
<1> DEFINE sw == [i \in 0 .. CAP - 1 |->
                    IF s.send_window[i] = None THEN None
                    ELSE Abandoned(t, s.send_window[i])]
           rw == [i \in 0 .. CAP - 1 |->
                    IF s.recv_window[i].tag = "Occupied"
                    THEN Abandoned(t, s.recv_window[i])
                    ELSE s.recv_window[i]]
           v == [s EXCEPT !.send_window = sw, !.recv_window = rw]
<1>1. Abandon(s, t) = v
  BY DEF Abandon
<1>2. Nobody \in Data
  BY TaskAssumption
<1>3. /\ s.send_window \in [0 .. CAP - 1 -> SendEntry \cup {None}]
      /\ s.recv_window \in [0 .. CAP - 1 -> RecvEntry]
  BY DEF SeqExState
<1>4. ASSUME NEW i \in 0 .. CAP - 1
      PROVE  /\ sw[i] \in SendEntry \cup {None}
             /\ sw[i] # None => /\ s.send_window[i] # None
                                /\ sw[i].next_resend_time = s.send_window[i].next_resend_time
  <2>1. CASE s.send_window[i] = None
    BY <2>1
  <2>2. CASE s.send_window[i] # None
    <3> DEFINE e == s.send_window[i]
               f == [e EXCEPT !.data = Nobody]
    <3>1. e \in SendEntry /\ sw[i] = Abandoned(t, e)
      BY <1>3, <2>2
    <3> HIDE DEF e
    <3>2. f \in SendEntry /\ f.next_resend_time = e.next_resend_time
      BY <1>2, <3>1 DEF SendEntry
    <3> QED
      BY <2>2, <3>1, <3>2 DEF Abandoned, e
  <2> QED
    BY <2>1, <2>2
<1>5. ASSUME NEW i \in 0 .. CAP - 1
      PROVE  rw[i] \in RecvEntry
  <2>1. CASE s.recv_window[i].tag # "Occupied"
    BY <1>3, <2>1
  <2>2. CASE s.recv_window[i].tag = "Occupied"
    <3> DEFINE e == s.recv_window[i]
               f == [e EXCEPT !.data = Nobody]
    <3>1. e \in OccupiedEntry /\ rw[i] = Abandoned(t, e)
      BY <1>3, <2>2, RecvEntryFacts
    <3> HIDE DEF e
    <3>2. f \in OccupiedEntry
      BY <1>2, <3>1 DEF OccupiedEntry
    <3> QED
      BY <3>1, <3>2 DEF RecvEntry, Abandoned
  <2> QED
    BY <2>1, <2>2
<1>6. sw \in [0 .. CAP - 1 -> SendEntry \cup {None}] /\ rw \in [0 .. CAP - 1 -> RecvEntry]
  BY <1>4, <1>5
<1> HIDE DEF sw, rw
<1>7. v \in SeqExState /\ v.send_window = sw /\ SameReplies(s, v)
      /\ v.next_send_seq_no = s.next_send_seq_no
      /\ v.next_service_timestamp = s.next_service_timestamp
  BY <1>6 DEF SeqExState, SameReplies
<1> HIDE DEF v
<1> QED
  BY <1>1, <1>4, <1>7

----------------------------------------------------------------------------
(* Each kind of step preserves the invariant.                              *)

LEMMA MinOfTwo ==
    ASSUME NEW a \in Nat, NEW b \in Nat
    PROVE  Min({a, b}) = IF a <= b THEN a ELSE b
BY DEF Min

\* A task at "idle" has no notification to make and is on no list of waiters.
LEMMA IdleFacts ==
    ASSUME TypeOK, Flow, NEW t \in Task, pc[t] \notin {"notify_recv", "notify_reply"}
    PROVE  waking[t] = 0 /\ resume[t] = "idle" /\ (t \in Queueing <=> pc[t] = "queue")
BY DEF TypeOK, Flow, Queueing

\* How the number of tasks with an update to queue changes.
LEMMA QueueingNumbers ==
    ASSUME TypeOK, NEW t \in Task, NEW p, NEW q, NEW n, Moved(t, p, q, n)
    PROVE  /\ Cardinality(Queueing) \in Nat
           /\ (t \in Queueing <=> "queue" \in {p, q}) => Cardinality(Queueing)' = Cardinality(Queueing)
           /\ t \notin Queueing /\ "queue" \in {p, q}
                => Cardinality(Queueing)' = Cardinality(Queueing) + 1
           /\ t \in Queueing /\ "queue" \notin {p, q}
                => Cardinality(Queueing)' = Cardinality(Queueing) - 1
<1> DEFINE k == Cardinality(Queueing)
           l == Cardinality(Queueing)'
<1>1. k \in Nat
  <2>1. Queueing \subseteq Task
    BY DEF Queueing
  <2> QED
    BY <2>1, TasksFinite
<1>2. l = (k - (IF t \in Queueing THEN 1 ELSE 0)) + (IF "queue" \in {p, q} THEN 1 ELSE 0)
  BY QueueingMoves DEF TypeOK
<1> HIDE DEF k, l
<1>3. (t \in Queueing <=> "queue" \in {p, q}) => l = k
  BY <1>1, <1>2
<1>4. t \notin Queueing /\ "queue" \in {p, q} => l = k + 1
  BY <1>1, <1>2
<1>5. t \in Queueing /\ "queue" \notin {p, q} => l = k - 1
  BY <1>1, <1>2
<1> QED
  BY <1>1, <1>3, <1>4, <1>5 DEF k, l

\* receive_inner hands something over.
LEMMA ReceivesKeeps ==
    ASSUME IInv, NEW t \in Task, NEW n \in Nat, NEW place \in {"return", "idle"},
           Receives(t, n, place)
    PROVE  IInv'
<1> DEFINE k == Min({recv_waiters, n})
           p == IF k > 0 THEN "notify_recv" ELSE place
           q == IF k > 0 THEN place ELSE "idle"
<1> USE DEF IInv
<1>1. pc[t] = "idle" /\ recv_waiters \in Nat /\ waking[t] = 0 /\ resume[t] = "idle" /\ t \notin Queueing
  BY IdleFacts DEF Receives, TypeOK
<1>2. k \in Nat /\ k <= recv_waiters
  BY <1>1, MinOfTwo
<1>3. /\ recv_waiters' = recv_waiters - k /\ waking' = [waking EXCEPT ![t] = k]
      /\ pc' = [pc EXCEPT ![t] = p] /\ resume' = [resume EXCEPT ![t] = q]
  BY DEF Receives, WakeSenders
<1> HIDE DEF k
<1>4. p \in Place /\ q \in Place /\ p \notin OnRecv /\ "queue" \notin {p, q}
  BY DEF Place, OnRecv
<1>5. k > 0 <=> p = "notify_recv"
  BY <1>2
<1>6. q # "idle" => p \in {"notify_recv", "notify_reply"}
  BY <1>2
<1>7. q \in {"idle", "return", "queue", "await"}
  OBVIOUS
<1> HIDE DEF p, q
<1>8. Moved(t, p, q, k) /\ resume' \in [Task -> Place] /\ waking' \in [Task -> Nat]
  BY <1>2, <1>3, <1>4, GotoMoves
<1>9. /\ seq' \in SeqExState /\ OnlyTakes(seq, seq') /\ result' \in [Task -> Result]
      /\ UNCHANGED <<reply_waiters, permit, updates, service_ts, guards, lock_guards, leaked,
                     sent_as, missed, collapsed, forgotten>>
  BY DEF Receives, service, held, history
<1>10. TypeOK'
  <2>1. recv_waiters' \in Nat
    BY <1>1, <1>2, <1>3
  <2>2. pc' \in [Task -> Place]
    BY <1>8 DEF Moved
  <2> QED
    BY <1>8, <1>9, <2>1, <2>2 DEF TypeOK
<1>11. Flow'
  BY <1>2, <1>5, <1>6, <1>7, <1>8, FlowMoves DEF TypeOK
<1>12. Timers'
  <2>1. Cardinality(Queueing)' = Cardinality(Queueing)
    BY <1>1, <1>4, <1>8, QueueingNumbers
  <2> QED
    BY <1>9, <2>1, TimersKept DEF TypeOK
<1>13. RecvWakeUpDue'
  <2>1. recv_waiters' + k + One(pc[t] \in OnRecv) >= recv_waiters + waking[t] + One(p \in OnRecv)
    <3>1. One(pc[t] \in OnRecv) = 0 /\ One(p \in OnRecv) = 0
      BY <1>1, <1>4 DEF One, OnRecv
    <3> QED
      BY <1>1, <1>2, <1>3, <3>1
  <2>2. recv_waiters' \in Nat
    BY <1>1, <1>2, <1>3
  <2> QED
    BY <1>2, <1>8, <1>9, <2>1, <2>2, WakeUpMoves
<1> QED
  BY <1>10, <1>11, <1>12, <1>13

\* receive keeps or drops the packet.
LEMMA RefusesKeeps ==
    ASSUME IInv, NEW t \in Task, Refuses(t)
    PROVE  IInv'
<1> USE DEF IInv
<1>1. PICK p \in {"idle", "await"} : Goto(t, p)
  BY DEF Refuses
<1>2. pc[t] = "idle" /\ t \notin Queueing
  BY IdleFacts DEF Refuses
<1>3. p \in Place /\ p \notin OnRecv /\ "queue" \notin {p, "idle"}
  BY DEF Place, Awaits, OnRecv
<1>4. /\ Moved(t, p, "idle", 0) /\ waking[t] = 0
      /\ resume' \in [Task -> Place] /\ waking' \in [Task -> Nat]
  BY <1>1, <1>2, <1>3, GotoPlain
<1>5. /\ seq' \in SeqExState /\ OnlyTakes(seq, seq')
      /\ UNCHANGED <<recv_waiters, result, reply_waiters, permit, updates, service_ts, guards,
                     lock_guards, leaked, sent_as, missed, collapsed, forgotten>>
  BY DEF Refuses, service, held, history
<1>6. TypeOK'
  BY <1>4, <1>5 DEF TypeOK, Moved
<1>7. Flow'
  <2>1. 0 \in Nat /\ (0 > 0 <=> p = "notify_recv")
    OBVIOUS
  <2> QED
    BY <1>4, <2>1, FlowMoves DEF TypeOK
<1>8. Timers'
  <2>1. Cardinality(Queueing)' = Cardinality(Queueing)
    BY <1>2, <1>3, <1>4, QueueingNumbers
  <2> QED
    BY <1>5, <2>1, TimersKept DEF TypeOK
<1>9. RecvWakeUpDue'
  <2>1. One(pc[t] \in OnRecv) = 0 /\ One(p \in OnRecv) = 0
    BY <1>2, <1>3 DEF One, OnRecv
  <2>2. recv_waiters \in Nat /\ recv_waiters' = recv_waiters
    BY <1>5 DEF TypeOK
  <2>3. recv_waiters' + 0 + One(pc[t] \in OnRecv) >= recv_waiters + waking[t] + One(p \in OnRecv)
    BY <1>4, <2>1, <2>2
  <2> QED
    BY <1>4, <1>5, <2>2, <2>3, WakeUpMoves
<1> QED
  BY <1>6, <1>7, <1>8, <1>9

\* What NotifyReply does to the tasks.
LEMMA NotifyReplyMoves ==
    ASSUME TypeOK, Flow, NEW t \in Task, NEW place \in {"idle", "queue", "await"},
           pc[t] = "idle", NotifyReply(t, place)
    PROVE  \E p \in Place, q \in Place :
             /\ Moved(t, p, q, 0) /\ waking[t] = 0
             /\ ("queue" \in {p, q} <=> place = "queue")
             /\ p \notin OnRecv /\ p # "notify_recv"
             /\ q # "idle" => p \in {"notify_recv", "notify_reply"}
             /\ q \in {"idle", "return", "queue", "await"}
             /\ resume' \in [Task -> Place] /\ waking' \in [Task -> Nat]
             /\ reply_waiters' \in BOOLEAN
<1> DEFINE p == IF reply_waiters THEN "notify_reply" ELSE place
           q == IF reply_waiters THEN place ELSE "idle"
<1>1. waking[t] = 0 /\ waking \in [Task -> Nat]
  BY IdleFacts DEF TypeOK
<1>2. /\ pc' = [pc EXCEPT ![t] = p] /\ resume' = [resume EXCEPT ![t] = q]
      /\ waking' = [waking EXCEPT ![t] = 0] /\ reply_waiters' = FALSE
  BY <1>1 DEF NotifyReply
<1>3. /\ p \in Place /\ q \in Place /\ p \notin OnRecv /\ p # "notify_recv"
      /\ ("queue" \in {p, q} <=> place = "queue")
      /\ q # "idle" => p \in {"notify_recv", "notify_reply"}
      /\ q \in {"idle", "return", "queue", "await"}
  BY DEF Place, Awaits, OnRecv
<1> HIDE DEF p, q
<1>4. Moved(t, p, q, 0) /\ resume' \in [Task -> Place] /\ waking' \in [Task -> Nat]
  BY <1>2, <1>3, GotoMoves
<1> QED
  BY <1>1, <1>2, <1>3, <1>4

\* A guard is consumed, without a packet that awaits an answer.
Consumes(t) ==
    /\ pc[t] = "idle"
    /\ seq' \in SeqExState /\ OnlyTakes(seq, seq')
    /\ IsABag(guards') /\ BagToSet(guards') \subseteq ReplyGuard /\ lock_guards' \in Nat
    /\ NotifyReply(t, "idle") \/ UNCHANGED <<flow, reply_waiters>>
    /\ UNCHANGED <<recv_waiters, permit, service, result, leaked, history>>

LEMMA ConsumesKeeps ==
    ASSUME IInv, NEW t \in Task, Consumes(t)
    PROVE  IInv'
<1> USE DEF IInv
<1>1. /\ pc[t] = "idle" /\ t \notin Queueing
      /\ waking[t] = 0 /\ resume[t] = "idle"
  BY IdleFacts DEF Consumes
<1>2. /\ seq' \in SeqExState /\ OnlyTakes(seq, seq')
      /\ IsABag(guards') /\ BagToSet(guards') \subseteq ReplyGuard /\ lock_guards' \in Nat
      /\ UNCHANGED <<recv_waiters, permit, updates, service_ts, result, leaked, sent_as, missed,
                     collapsed, forgotten>>
  BY DEF Consumes, service, history
<1>3. \E p \in Place, q \in Place :
             /\ Moved(t, p, q, 0) /\ "queue" \notin {p, q}
             /\ p \notin OnRecv /\ p # "notify_recv"
             /\ q # "idle" => p \in {"notify_recv", "notify_reply"}
             /\ q \in {"idle", "return", "queue", "await"}
             /\ resume' \in [Task -> Place] /\ waking' \in [Task -> Nat]
             /\ reply_waiters' \in BOOLEAN
  <2>1. CASE NotifyReply(t, "idle")
    BY <1>1, <2>1, NotifyReplyMoves
  <2>2. CASE UNCHANGED <<flow, reply_waiters>>
    <3>1. /\ Moved(t, "idle", "idle", 0) /\ resume' \in [Task -> Place]
          /\ waking' \in [Task -> Nat] /\ reply_waiters' \in BOOLEAN
      BY <1>1, <2>2 DEF Moved, flow, TypeOK
    <3>2. "idle" \in Place /\ "idle" \notin OnRecv
      BY DEF Place, OnRecv
    <3> QED
      BY <3>1, <3>2
  <2> QED
    BY <2>1, <2>2 DEF Consumes
<1>4. PICK p \in Place, q \in Place :
             /\ Moved(t, p, q, 0) /\ "queue" \notin {p, q}
             /\ p \notin OnRecv /\ p # "notify_recv"
             /\ q # "idle" => p \in {"notify_recv", "notify_reply"}
             /\ q \in {"idle", "return", "queue", "await"}
             /\ resume' \in [Task -> Place] /\ waking' \in [Task -> Nat]
             /\ reply_waiters' \in BOOLEAN
  BY <1>3
<1>5. TypeOK'
  <2>1. pc' \in [Task -> Place]
    BY <1>4 DEF Moved
  <2> QED
    BY <1>2, <1>4, <2>1 DEF TypeOK
<1>6. Flow'
  <2>1. 0 \in Nat /\ (0 > 0 <=> p = "notify_recv")
    BY <1>4
  <2> QED
    BY <1>4, <2>1, FlowMoves DEF TypeOK
<1>7. Timers'
  <2>1. Cardinality(Queueing)' = Cardinality(Queueing)
    BY <1>1, <1>4, QueueingNumbers
  <2> QED
    BY <1>2, <2>1, TimersKept DEF TypeOK
<1>8. RecvWakeUpDue'
  <2>1. One(pc[t] \in OnRecv) = 0 /\ One(p \in OnRecv) = 0
    BY <1>1, <1>4 DEF One, OnRecv
  <2>2. recv_waiters \in Nat /\ recv_waiters' = recv_waiters
    BY <1>2 DEF TypeOK
  <2>3. recv_waiters' + 0 + One(pc[t] \in OnRecv) >= recv_waiters + waking[t] + One(p \in OnRecv)
    BY <1>1, <2>1, <2>2
  <2> QED
    BY <1>2, <1>4, <2>2, <2>3, WakeUpMoves
<1> QED
  BY <1>5, <1>6, <1>7, <1>8

\* The actions that are such a step.
LEMMA GuardInHand ==
    ASSUME TypeOK, NEW g \in BagToSet(guards)
    PROVE  /\ g \in ReplyGuard /\ g.reply_no \in SeqNo /\ g.is_holding_lock \in BOOLEAN
           /\ BagIn(g, guards)
           /\ IsABag(guards (-) SetToBag({g})) /\ BagToSet(guards (-) SetToBag({g})) \subseteq ReplyGuard
<1>1. IsABag(guards) /\ BagToSet(guards) \subseteq ReplyGuard /\ BagIn(g, guards)
  BY DEF TypeOK, BagIn
<1> QED
  BY <1>1, BagTakeOne, GuardFacts

LEMMA HandlerConsumes ==
    ASSUME TypeOK, NEW t \in Task, NEW g \in BagToSet(guards),
           AckGuard(t, g) \/ DropGuard(t, g) \/ UnlockGuard(t, g)
    PROVE  Consumes(t)
<1> DEFINE rest == guards (-) SetToBag({g})
           unlocked == Guard(g.reply_no, FALSE)
<1>1. /\ g.reply_no \in SeqNo /\ g.is_holding_lock \in BOOLEAN /\ BagIn(g, guards)
      /\ IsABag(rest) /\ BagToSet(rest) \subseteq ReplyGuard
  BY GuardInHand
<1>2. seq \in SeqExState /\ lock_guards \in Nat
  BY DEF TypeOK
<1> HIDE DEF rest
<1>3. CASE AckGuard(t, g)
  <2>1. /\ pc[t] = "idle" /\ guards' = rest /\ seq' = AckRaw(seq, g.reply_no, FALSE)
        /\ UNCHANGED <<recv_waiters, permit, service, leaked, missed, collapsed, forgotten>>
        /\ UNCHANGED <<result, sent_as>>
    BY <1>3 DEF AckGuard, Consume, rest
  <2>2. seq' \in SeqExState /\ OnlyTakes(seq, seq')
    BY <1>1, <1>2, <2>1, AckRawKeeps DEF SameSendSide, OnlyTakes, Shrunk
  <2>3. lock_guards' \in Nat /\ (NotifyReply(t, "idle") \/ UNCHANGED <<flow, reply_waiters>>)
    BY <1>2, <1>3 DEF AckGuard
  <2> QED
    BY <1>1, <2>1, <2>2, <2>3 DEF Consumes, history
<1>4. CASE DropGuard(t, g)
  <2>1. /\ pc[t] = "idle" /\ guards' = rest
        /\ seq' = AckRaw(seq, g.reply_no, g.is_holding_lock)
        /\ UNCHANGED <<recv_waiters, permit, service, leaked, missed, collapsed, forgotten>>
        /\ UNCHANGED <<result, sent_as, lock_guards>> /\ NotifyReply(t, "idle")
    BY <1>4 DEF DropGuard, Consume, rest
  <2>2. seq' \in SeqExState /\ OnlyTakes(seq, seq')
    BY <1>1, <1>2, <2>1, AckRawKeeps DEF SameSendSide, OnlyTakes, Shrunk
  <2> QED
    BY <1>1, <1>2, <2>1, <2>2 DEF Consumes, history
<1>5. CASE UnlockGuard(t, g)
  <2>1. /\ pc[t] = "idle" /\ guards' = rest (+) SetToBag({unlocked}) /\ seq' = UnlockRaw(seq)
        /\ UNCHANGED <<recv_waiters, permit, service, result, lock_guards, leaked, history>>
        /\ NotifyReply(t, "idle")
    BY <1>5 DEF UnlockGuard, rest
  <2>2. seq' \in SeqExState /\ OnlyTakes(seq, seq')
    <3>1. SameSendSide(seq, seq')
      BY <1>2, <2>1 DEF UnlockRaw, SeqExState, SameSendSide
    <3> QED
      BY <1>2, <2>1, <3>1, UnlockRawType DEF SameSendSide, OnlyTakes, Shrunk
  <2>3. unlocked \in ReplyGuard
    BY <1>1, GuardFacts
  <2> HIDE DEF unlocked
  <2>4. IsABag(guards') /\ BagToSet(guards') \subseteq ReplyGuard
    <3>1. IsABag(rest (+) SetToBag({unlocked}))
          /\ BagToSet(rest (+) SetToBag({unlocked})) = BagToSet(rest) \cup {unlocked}
      BY <1>1, BagAddOne
    <3> QED
      BY <1>1, <2>1, <2>3, <3>1
  <2> QED
    BY <1>2, <2>1, <2>2, <2>4 DEF Consumes
<1> QED
  BY <1>3, <1>4, <1>5

LEMMA DropLockConsumes ==
    ASSUME TypeOK, NEW t \in Task, DropLockGuard(t)
    PROVE  Consumes(t)
<1>1. seq \in SeqExState /\ lock_guards \in Nat /\ IsABag(guards) /\ BagToSet(guards) \subseteq ReplyGuard
  BY DEF TypeOK
<1>2. /\ pc[t] = "idle" /\ lock_guards > 0 /\ lock_guards' = lock_guards - 1
      /\ seq' = UnlockRaw(seq) /\ NotifyReply(t, "idle") /\ guards' = guards
      /\ UNCHANGED <<recv_waiters, permit, service, result, leaked, history>>
  BY DEF DropLockGuard
<1>3. SameSendSide(seq, seq')
  BY <1>1, <1>2 DEF UnlockRaw, SeqExState, SameSendSide
<1>4. seq' \in SeqExState /\ OnlyTakes(seq, seq')
  BY <1>1, <1>2, <1>3, UnlockRawType DEF SameSendSide, OnlyTakes, Shrunk
<1>5. lock_guards' \in Nat
  BY <1>1, <1>2
<1> QED
  BY <1>1, <1>2, <1>4, <1>5 DEF Consumes

\* A reply is sent, and those who waited for the guard to go are notified.
LEMMA ReplyKeeps ==
    ASSUME IInv, NEW t \in Task, NEW g \in BagToSet(guards), NEW c \in BOOLEAN, Reply(t, g, c)
    PROVE  IInv'
<1> USE DEF IInv
<1> DEFINE rest == guards (-) SetToBag({g})
           a == seq.next_service_timestamp
           b == seq'.next_service_timestamp
<1>1. /\ g.reply_no \in SeqNo /\ g.is_holding_lock \in BOOLEAN /\ BagIn(g, guards)
      /\ IsABag(rest) /\ BagToSet(rest) \subseteq ReplyGuard
  BY GuardInHand
<1> HIDE DEF rest
<1>2. /\ pc[t] = "idle" /\ guards' = rest /\ NotifyReply(t, AfterSend(seq'))
      /\ seq' = ReplyRaw(seq, 0, g.reply_no, g.is_holding_lock, c, t)
      /\ UNCHANGED <<recv_waiters, permit, updates, service_ts, leaked, missed, collapsed,
                     forgotten, result, lock_guards>>
      /\ sent_as' = [sent_as EXCEPT ![t] = seq.next_send_seq_no]
  BY DEF Reply, Consume, rest, service
<1>3. seq \in SeqExState /\ t \in Data
  BY TaskAssumption DEF TypeOK
<1>4. seq' \in SeqExState /\ (Inserts(seq, seq') \/ seq' = seq)
  BY <1>1, <1>2, <1>3, ReplyRawInserts
<1>5. PICK place \in {"queue", "await"} :
        NotifyReply(t, place) /\ (place = "queue" <=> b # a)
  BY <1>2 DEF AfterSend
<1>6. t \notin Queueing /\ waking[t] = 0
  BY <1>2, IdleFacts
<1>7. place \in {"idle", "queue", "await"}
  OBVIOUS
<1>8. PICK p \in Place, q \in Place :
             /\ Moved(t, p, q, 0)
             /\ ("queue" \in {p, q} <=> place = "queue")
             /\ p \notin OnRecv /\ p # "notify_recv"
             /\ q # "idle" => p \in {"notify_recv", "notify_reply"}
             /\ q \in {"idle", "return", "queue", "await"}
             /\ resume' \in [Task -> Place] /\ waking' \in [Task -> Nat]
             /\ reply_waiters' \in BOOLEAN
  BY <1>2, <1>5, <1>7, NotifyReplyMoves
<1>9. TypeOK'
  <2>1. pc' \in [Task -> Place]
    BY <1>8 DEF Moved
  <2>2. sent_as' \in [Task -> OptSeqNo]
    BY <1>2, <1>3 DEF TypeOK, SeqExState, OptSeqNo
  <2> QED
    BY <1>1, <1>2, <1>4, <1>8, <2>1, <2>2 DEF TypeOK
<1>10. Flow'
  <2>1. 0 \in Nat /\ (0 > 0 <=> p = "notify_recv")
    BY <1>8
  <2> QED
    BY <1>8, <2>1, FlowMoves DEF TypeOK
<1>11. Timers'
  <2>1. Cardinality(Queueing)' = Cardinality(Queueing) + One(b # a) /\ Cardinality(Queueing) \in Nat
    <3>1. CASE b # a
      <4>1. One(b # a) = 1
        BY <3>1 DEF One
      <4>2. "queue" \in {p, q}
        BY <1>5, <1>8, <3>1
      <4>3. /\ Cardinality(Queueing)' = Cardinality(Queueing) + 1
            /\ Cardinality(Queueing) \in Nat
        BY <1>6, <1>8, <4>2, QueueingNumbers
      <4> QED
        BY <4>1, <4>3
    <3>2. CASE b = a
      <4>1. One(b # a) = 0
        BY <3>2 DEF One
      <4>2. "queue" \notin {p, q}
        BY <1>5, <1>8, <3>2
      <4>3. /\ Cardinality(Queueing)' = Cardinality(Queueing)
            /\ Cardinality(Queueing) \in Nat
        BY <1>6, <1>8, <4>2, QueueingNumbers
      <4> QED
        BY <4>1, <4>3
    <3> QED
      BY <3>1, <3>2
  <2>2. Len(updates) \in Nat
    BY DEF TypeOK
  <2> QED
    BY <1>2, <1>3, <1>4, <2>1, <2>2, TimersInserted
<1>12. RecvWakeUpDue'
  <2>1. One(pc[t] \in OnRecv) = 0 /\ One(p \in OnRecv) = 0
    BY <1>2, <1>8 DEF One, OnRecv
  <2>2. recv_waiters \in Nat /\ recv_waiters' = recv_waiters
    BY <1>2 DEF TypeOK
  <2>3. recv_waiters' + 0 + One(pc[t] \in OnRecv) >= recv_waiters + waking[t] + One(p \in OnRecv)
    BY <1>6, <2>1, <2>2
  <2> QED
    BY <1>2, <1>8, <2>2, <2>3, WakeUpMoves
<1> QED
  BY <1>9, <1>10, <1>11, <1>12

\* send_with: a turn of its loop sends the packet or registers a waiter.
LEMMA SendOrWaitKeeps ==
    ASSUME IInv, NEW t \in Task, pc[t] \in {"idle", "woken_on_recv", "woken_on_reply"}, SendOrWait(t)
    PROVE  IInv'
<1> USE DEF IInv
<1> DEFINE full == IsFullInner(seq, None)
           a == seq.next_service_timestamp
           b == seq'.next_service_timestamp
<1>1. full \in {"Ok", "WaitingForRecv", "WaitingForReply"} /\ seq \in SeqExState
  BY IsFullFacts DEF TypeOK, TryError
<1>2. t \notin Queueing /\ waking[t] = 0 /\ pc[t] \notin OnRecv
      /\ pc[t] \notin {"notify_recv", "notify_reply"}
  BY IdleFacts DEF OnRecv
<1>3. /\ \E c \in SeqCstModes : seq' = IF full = "Ok" THEN TrySend(seq, 0, c, t) ELSE seq
      /\ recv_waiters' = IF full = "WaitingForRecv" THEN recv_waiters + 1 ELSE recv_waiters
      /\ reply_waiters' = (reply_waiters \/ full = "WaitingForReply")
      /\ Goto(t, CASE full = "Ok" -> AfterSend(seq')
                   [] full = "WaitingForRecv" -> "gap_recv"
                   [] full = "WaitingForReply" -> "gap_reply")
      /\ sent_as' = [sent_as EXCEPT ![t] = IF full = "Ok" THEN seq.next_send_seq_no ELSE @]
      /\ UNCHANGED <<permit, updates, service_ts, result, guards, lock_guards, leaked, missed,
                     collapsed, forgotten>>
  BY DEF SendOrWait, service, held
<1> HIDE DEF full
<1>4. \E p \in {"queue", "await", "gap_recv", "gap_reply"} :
        /\ Goto(t, p) /\ (p = "queue" <=> b # a)
        /\ p = "gap_recv" => recv_waiters' = recv_waiters + 1
        /\ p # "gap_recv" => recv_waiters' = recv_waiters
        /\ seq' \in SeqExState /\ (Inserts(seq, seq') \/ seq' = seq)
  <2>1. CASE full = "Ok"
    <3>1. PICK c \in SeqCstModes : seq' = TrySend(seq, 0, c, t)
      BY <1>3, <2>1
    <3>2. seq' \in SeqExState /\ Inserts(seq, seq')
      BY <1>1, <3>1, TrySendInserts, TaskAssumption, RemoteAssumption
    <3>3. Goto(t, AfterSend(seq'))
      BY <1>3, <2>1
    <3>4. AfterSend(seq') \in {"queue", "await"} /\ (AfterSend(seq') = "queue" <=> b # a)
      BY DEF AfterSend
    <3>5. recv_waiters' = recv_waiters
      BY <1>3, <2>1
    <3> QED
      BY <3>2, <3>3, <3>4, <3>5
  <2>2. CASE full = "WaitingForRecv"
    <3>1. Goto(t, "gap_recv") /\ seq' = seq /\ recv_waiters' = recv_waiters + 1
      BY <1>3, <2>2
    <3> QED
      BY <1>1, <3>1
  <2>3. CASE full = "WaitingForReply"
    <3>1. Goto(t, "gap_reply") /\ seq' = seq /\ recv_waiters' = recv_waiters
      BY <1>3, <2>3
    <3> QED
      BY <1>1, <3>1
  <2> QED
    BY <1>1, <2>1, <2>2, <2>3
<1>5. PICK p \in {"queue", "await", "gap_recv", "gap_reply"} :
        /\ Goto(t, p) /\ (p = "queue" <=> b # a)
        /\ p = "gap_recv" => recv_waiters' = recv_waiters + 1
        /\ p # "gap_recv" => recv_waiters' = recv_waiters
        /\ seq' \in SeqExState /\ (Inserts(seq, seq') \/ seq' = seq)
  BY <1>4
<1>6. p \in Place /\ recv_waiters \in Nat
  BY DEF Place, Awaits, TypeOK
<1>7. Moved(t, p, "idle", 0) /\ resume' \in [Task -> Place] /\ waking' \in [Task -> Nat]
  BY <1>2, <1>5, <1>6, GotoPlain
<1>8. TypeOK'
  <2>1. pc' \in [Task -> Place]
    BY <1>7 DEF Moved
  <2>2. sent_as' \in [Task -> OptSeqNo]
    BY <1>1, <1>3 DEF TypeOK, SeqExState, OptSeqNo
  <2>3. recv_waiters' \in Nat /\ reply_waiters' \in BOOLEAN
    BY <1>3, <1>5, <1>6 DEF TypeOK
  <2> QED
    BY <1>3, <1>5, <1>7, <2>1, <2>2, <2>3 DEF TypeOK
<1>9. Flow'
  <2>1. 0 \in Nat /\ (0 > 0 <=> p = "notify_recv")
    OBVIOUS
  <2> QED
    BY <1>7, <2>1, FlowMoves DEF TypeOK
<1>10. Timers'
  <2>1. Cardinality(Queueing)' = Cardinality(Queueing) + One(b # a) /\ Cardinality(Queueing) \in Nat
    <3>1. CASE b # a
      <4>1. One(b # a) = 1
        BY <3>1 DEF One
      <4>2. "queue" \in {p, "idle"}
        BY <1>5, <3>1
      <4>3. /\ Cardinality(Queueing)' = Cardinality(Queueing) + 1
            /\ Cardinality(Queueing) \in Nat
        BY <1>2, <1>7, <4>2, QueueingNumbers
      <4> QED
        BY <4>1, <4>3
    <3>2. CASE b = a
      <4>1. One(b # a) = 0
        BY <3>2 DEF One
      <4>2. "queue" \notin {p, "idle"}
        BY <1>5, <3>2
      <4>3. /\ Cardinality(Queueing)' = Cardinality(Queueing)
            /\ Cardinality(Queueing) \in Nat
        BY <1>2, <1>7, <4>2, QueueingNumbers
      <4> QED
        BY <4>1, <4>3
    <3> QED
      BY <3>1, <3>2
  <2>2. Len(updates) \in Nat
    BY DEF TypeOK
  <2> QED
    BY <1>1, <1>3, <1>5, <2>1, <2>2, TimersInserted
<1>11. RecvWakeUpDue'
  <2>1. recv_waiters' \in Nat
    BY <1>5, <1>6
  <2>2. recv_waiters' + 0 + One(pc[t] \in OnRecv) >= recv_waiters + waking[t] + One(p \in OnRecv)
    <3>1. One(pc[t] \in OnRecv) = 0
      BY <1>2 DEF One
    <3>2. CASE p = "gap_recv"
      <4>1. One(p \in OnRecv) = 1
        BY <3>2 DEF One, OnRecv
      <4> QED
        BY <1>2, <1>5, <1>6, <3>1, <3>2, <4>1
    <3>3. CASE p # "gap_recv"
      <4>1. One(p \in OnRecv) = 0
        BY <3>3 DEF One, OnRecv
      <4> QED
        BY <1>2, <1>5, <1>6, <3>1, <3>3, <4>1
    <3> QED
      BY <3>2, <3>3
  <2> QED
    BY <1>3, <1>7, <2>1, <2>2, WakeUpMoves
<1> QED
  BY <1>8, <1>9, <1>10, <1>11

\* RecvWakeUpDue survives a step that does not add more waiters than it makes somebody wake.
LEMMA WakeUpSum ==
    ASSUME TypeOK, RecvWakeUpDue, collapsed => collapsed',
           Cardinality(At(OnRecv)) \in Nat, Cardinality(At(OnRecv)') \in Nat,
           Cardinality(ToNotify) \in Nat, Cardinality(ToNotify)' \in Nat,
           recv_waiters' = recv_waiters,
           ~collapsed' => Cardinality(At(OnRecv)') + Cardinality(ToNotify) + One(permit)
                             <= Cardinality(At(OnRecv)) + Cardinality(ToNotify)' + One(permit')
    PROVE  RecvWakeUpDue'
<1> DEFINE a == Cardinality(At(OnRecv))
           c == Cardinality(At(OnRecv)')
           k == Cardinality(ToNotify)
           l == Cardinality(ToNotify)'
           m == One(permit)
           o == One(permit')
<1>1. a \in Nat /\ c \in Nat /\ k \in Nat /\ l \in Nat /\ m \in {0, 1} /\ o \in {0, 1}
      /\ recv_waiters \in Nat
  BY DEF One, TypeOK
<1>2. ~collapsed' => c + k + m <= a + l + o
  OBVIOUS
<1>3. ~collapsed => a <= recv_waiters + k + m
  BY WakeUpNumbers
<1>4. RecvWakeUpDue' <=> (~collapsed' => c <= recv_waiters + l + o)
  BY DEF RecvWakeUpDue, OnRecv, One
<1> HIDE DEF a, c, k, l, m, o
<1>5. ~collapsed' => c <= recv_waiters + l + o
  BY <1>1, <1>2, <1>3
<1> QED
  BY <1>4, <1>5

\* send_with comes to await its notification, or finds the permit.
LEMMA WaitKeeps ==
    ASSUME IInv, NEW t \in Task, Wait(t)
    PROVE  IInv'
<1> USE DEF IInv
<1>1. /\ UNCHANGED <<seq, recv_waiters, reply_waiters, updates, service_ts, result, guards,
                     lock_guards, leaked, sent_as, missed, collapsed, forgotten>>
      /\ permit' = (permit /\ pc[t] # "gap_recv") /\ permit \in BOOLEAN
  BY DEF Wait, inner, service, held, history, TypeOK
<1>2. PICK p \in {"woken_on_recv", "wait_on_recv", "wait_on_reply"} :
        /\ Goto(t, p)
        /\ \/ pc[t] = "gap_recv" /\ p = "woken_on_recv" /\ permit
           \/ pc[t] = "gap_recv" /\ p = "wait_on_recv" /\ ~permit
           \/ pc[t] = "gap_reply" /\ p = "wait_on_reply"
  BY DEF Wait
<1>3. p \in Place /\ pc[t] \in {"gap_recv", "gap_reply"} /\ t \notin Queueing
  <2>1. p \in Place /\ pc[t] \in {"gap_recv", "gap_reply"}
    BY <1>2 DEF Place, Awaits
  <2> QED
    BY <2>1, IdleFacts
<1>4. /\ Moved(t, p, "idle", 0) /\ waking[t] = 0 /\ 0 \in Nat
      /\ resume' \in [Task -> Place] /\ waking' \in [Task -> Nat]
  BY <1>2, <1>3, GotoPlain
<1>5. TypeOK'
  <2>1. pc' \in [Task -> Place]
    BY <1>4 DEF Moved
  <2>2. permit' \in BOOLEAN
    BY <1>1
  <2> QED
    BY <1>1, <1>4, <2>1, <2>2 DEF TypeOK
<1>6. Flow'
  <2>1. 0 > 0 <=> p = "notify_recv"
    OBVIOUS
  <2> QED
    BY <1>4, <2>1, FlowMoves DEF TypeOK
<1>7. Timers'
  <2>1. Cardinality(Queueing)' = Cardinality(Queueing)
    BY <1>3, <1>4, QueueingNumbers
  <2>2. OnlyTakes(seq, seq')
    BY <1>1 DEF OnlyTakes, Shrunk
  <2> QED
    BY <1>1, <2>1, <2>2, TimersKept DEF TypeOK
<1>8. RecvWakeUpDue'
  <2> DEFINE a == Cardinality(At(OnRecv))
             c == Cardinality(At(OnRecv)')
             k == Cardinality(ToNotify)
             l == Cardinality(ToNotify)'
             m == One(permit)
             o == One(permit')
             from == IF pc[t] \in OnRecv THEN 1 ELSE 0
             to == IF p \in OnRecv THEN 1 ELSE 0
  <2>1. a \in Nat /\ c \in Nat /\ c <= (a - from) + to
    BY <1>4, OnRecvMoves DEF TypeOK
  <2>2. k \in Nat /\ l \in Nat /\ l = k
    <3>1. waking' = [waking EXCEPT ![t] = 0] /\ waking \in [Task -> Nat]
      BY <1>4 DEF Moved, TypeOK
    <3>2. k \in Nat /\ l \in Nat /\ l + waking[t] = k + 0
      BY <1>4, <3>1, ToNotifyMoves
    <3> HIDE DEF k, l
    <3> QED
      BY <1>4, <3>2
  <2>3. from - to = m - o /\ from \in {0, 1} /\ to \in {0, 1} /\ m \in {0, 1} /\ o \in {0, 1}
    <3>1. CASE pc[t] = "gap_recv" /\ p = "woken_on_recv" /\ permit
      <4>1. from = 1 /\ to = 0
        BY <3>1 DEF OnRecv
      <4>2. m = 1 /\ o = 0
        BY <1>1, <3>1 DEF One
      <4> QED
        BY <4>1, <4>2
    <3>2. CASE pc[t] = "gap_recv" /\ p = "wait_on_recv" /\ ~permit
      <4>1. from = 1 /\ to = 1
        BY <3>2 DEF OnRecv
      <4>2. m = 0 /\ o = 0
        BY <1>1, <3>2 DEF One
      <4> QED
        BY <4>1, <4>2
    <3>3. CASE pc[t] = "gap_reply" /\ p = "wait_on_reply"
      <4>1. from = 0 /\ to = 0
        BY <3>3 DEF OnRecv
      <4>2. m = o /\ m \in {0, 1}
        BY <1>1, <3>3 DEF One
      <4> QED
        BY <4>1, <4>2
    <3> QED
      BY <1>2, <3>1, <3>2, <3>3
  <2>4. recv_waiters' = recv_waiters /\ collapsed' = collapsed
    BY <1>1
  <2> HIDE DEF a, c, k, l, m, o, from, to
  <2>5. c + k + m <= a + l + o
    BY <2>1, <2>2, <2>3
  <2> QED
    BY <2>1, <2>2, <2>4, <2>5, WakeUpSum DEF a, c, k, l, m, o
<1> QED
  BY <1>5, <1>6, <1>7, <1>8

\* One of the calls of notify_one.
LEMMA NotifyOneKeeps ==
    ASSUME IInv, NEW t \in Task, NotifyOne(t)
    PROVE  IInv'
<1> USE DEF IInv
<1> DEFINE p == IF waking[t] = 1 THEN resume[t] ELSE "notify_recv"
           q == IF waking[t] = 1 THEN "idle" ELSE resume[t]
           n == waking[t] - 1
<1>1. /\ waking[t] \in Nat /\ waking[t] > 0 /\ pc[t] = "notify_recv"
      /\ resume[t] \in {"idle", "return", "queue", "await"}
      /\ waking \in [Task -> Nat] /\ resume \in [Task -> Place] /\ pc \in [Task -> Place]
  BY DEF NotifyOne, Flow, TypeOK
<1>2. /\ NotifyOneOf([pc EXCEPT ![t] = p]) /\ waking' = [waking EXCEPT ![t] = n]
      /\ resume' = [resume EXCEPT ![t] = q]
      /\ UNCHANGED <<seq, recv_waiters, reply_waiters, updates, service_ts, result, guards,
                     lock_guards, leaked, sent_as, missed, forgotten>>
  BY <1>1 DEF NotifyOne, inner, service, held
<1>3. /\ p \in Place /\ q \in Place /\ p \notin OnRecv /\ n \in Nat
      /\ (n > 0 <=> p = "notify_recv")
      /\ q # "idle" => p \in {"notify_recv", "notify_reply"}
      /\ q \in {"idle", "return", "queue", "await"}
      /\ ("queue" \in {p, q} <=> "queue" = resume[t])
  BY <1>1 DEF Place, Awaits, OnRecv
<1> HIDE DEF p, q, n
<1>4. /\ pc' \in [Task -> Place] /\ pc'[t] = p
      /\ \A u \in Task \ {t} : pc'[u] = pc[u] \/ (pc[u] = "wait_on_recv" /\ pc'[u] = "woken_on_recv")
      /\ permit' \in BOOLEAN /\ collapsed' \in BOOLEAN /\ (collapsed => collapsed')
      /\ ~collapsed' => Cardinality(At(OnRecv)') + 1
               <= (Cardinality(At(OnRecv)) - One(pc[t] \in OnRecv)) + (One(permit') - One(permit))
  BY <1>2, <1>3, NotifyOneOfFacts
<1>5. /\ Moved(t, p, q, n) /\ resume' \in [Task -> Place] /\ waking' \in [Task -> Nat]
  BY <1>1, <1>2, <1>3, <1>4 DEF Moved
<1>6. TypeOK'
  BY <1>2, <1>4, <1>5 DEF TypeOK
<1>7. Flow'
  BY <1>1, <1>3, <1>5, FlowMoves
<1>8. Timers'
  <2>1. t \in Queueing <=> "queue" \in {p, q}
    BY <1>1, <1>3 DEF Queueing
  <2>2. Cardinality(Queueing)' = Cardinality(Queueing)
    BY <1>5, <2>1, QueueingNumbers
  <2>3. OnlyTakes(seq, seq')
    BY <1>2 DEF OnlyTakes, Shrunk
  <2> QED
    BY <1>2, <2>2, <2>3, TimersKept DEF TypeOK
<1>9. RecvWakeUpDue'
  <2> DEFINE a == Cardinality(At(OnRecv))
             c == Cardinality(At(OnRecv)')
             k == Cardinality(ToNotify)
             l == Cardinality(ToNotify)'
             m == One(permit)
             o == One(permit')
             from == One(pc[t] \in OnRecv)
  <2>1. a \in Nat /\ c \in Nat
    BY <1>1, <1>5, OnRecvMoves
  <2>2. k \in Nat /\ l \in Nat /\ l + waking[t] = k + n
    BY <1>1, <1>2, <1>3, ToNotifyMoves
  <2>3. from = 0 /\ m \in {0, 1} /\ o \in {0, 1}
    <3>1. pc[t] \notin OnRecv
      BY <1>1 DEF OnRecv
    <3> QED
      BY <3>1 DEF One
  <2>4. ~collapsed' => c + 1 <= (a - from) + (o - m)
    BY <1>4
  <2>5. n = waking[t] - 1
    BY DEF n
  <2>6. recv_waiters' = recv_waiters /\ (collapsed => collapsed')
    BY <1>2, <1>4
  <2> HIDE DEF a, c, k, l, m, o, from
  <2>7. ~collapsed' => c + k + m <= a + l + o
    BY <1>1, <2>1, <2>2, <2>3, <2>4, <2>5
  <2> QED
    BY <2>1, <2>2, <2>6, <2>7, WakeUpSum DEF a, c, k, l, m, o
<1> QED
  BY <1>6, <1>7, <1>8, <1>9

\* notify_waiters
LEMMA NotifyWaitersKeeps ==
    ASSUME IInv, NEW t \in Task, NotifyWaiters(t)
    PROVE  IInv'
<1> USE DEF IInv
<1> DEFINE p == resume[t]
<1>1. /\ waking[t] = 0 /\ pc[t] = "notify_reply"
      /\ p \in {"idle", "return", "queue", "await"}
      /\ waking \in [Task -> Nat] /\ resume \in [Task -> Place] /\ pc \in [Task -> Place]
  BY DEF NotifyWaiters, Flow, TypeOK
<1>2. /\ pc' = [u \in Task |-> IF u = t THEN p
                               ELSE IF pc[u] = "wait_on_reply" THEN "woken_on_reply" ELSE pc[u]]
      /\ resume' = [resume EXCEPT ![t] = "idle"] /\ waking' = waking
      /\ missed' \in BOOLEAN
      /\ UNCHANGED <<seq, recv_waiters, reply_waiters, permit, updates, service_ts, result, guards,
                     lock_guards, leaked, sent_as, collapsed, forgotten>>
  BY DEF NotifyWaiters, inner, service, held, TypeOK
<1>3. /\ p \in Place /\ p \notin OnRecv /\ p # "notify_recv"
      /\ "woken_on_reply" \in Place /\ "idle" \in Place
  BY <1>1 DEF Place, Awaits, OnRecv
<1>4. t \in Queueing <=> "queue" \in {p, "idle"}
  BY <1>1 DEF Queueing
<1> HIDE DEF p
<1>5. pc' \in [Task -> Place] /\ pc'[t] = p
  BY <1>1, <1>2, <1>3
<1>6. /\ Moved(t, p, "idle", 0) /\ resume' \in [Task -> Place] /\ waking' \in [Task -> Nat]
      /\ 0 \in Nat
  BY <1>1, <1>2, <1>3, <1>5 DEF Moved
<1>7. TypeOK'
  BY <1>2, <1>5, <1>6 DEF TypeOK
<1>8. Flow'
  <2>1. 0 > 0 <=> p = "notify_recv"
    BY <1>3
  <2> QED
    BY <1>1, <1>6, <2>1, FlowMoves
<1>9. Timers'
  <2>1. Cardinality(Queueing)' = Cardinality(Queueing)
    BY <1>4, <1>6, QueueingNumbers
  <2>2. OnlyTakes(seq, seq')
    BY <1>2 DEF OnlyTakes, Shrunk
  <2> QED
    BY <1>2, <2>1, <2>2, TimersKept DEF TypeOK
<1>10. RecvWakeUpDue'
  <2>1. One(pc[t] \in OnRecv) = 0 /\ One(p \in OnRecv) = 0
    BY <1>1, <1>3 DEF One, OnRecv
  <2>2. recv_waiters \in Nat /\ recv_waiters' = recv_waiters
    BY <1>2 DEF TypeOK
  <2>3. recv_waiters' + 0 + One(pc[t] \in OnRecv) >= recv_waiters + waking[t] + One(p \in OnRecv)
    BY <1>1, <2>1, <2>2
  <2> QED
    BY <1>2, <1>6, <2>2, <2>3, WakeUpMoves
<1> QED
  BY <1>7, <1>8, <1>9, <1>10

\* The update is queued for the service task.
LEMMA QueueKeeps ==
    ASSUME IInv, NEW t \in Task, Queue(t)
    PROVE  IInv'
<1> USE DEF IInv
<1>1. /\ pc[t] = "queue" /\ updates' = Append(updates, ResendInterval) /\ Goto(t, "await")
      /\ UNCHANGED <<seq, recv_waiters, reply_waiters, permit, service_ts, result, guards,
                     lock_guards, leaked, sent_as, missed, collapsed, forgotten>>
  BY DEF Queue, inner, held, history
<1>2. t \in Queueing
  BY <1>1, IdleFacts
<1>3. /\ Moved(t, "await", "idle", 0) /\ waking[t] = 0 /\ 0 \in Nat
      /\ resume' \in [Task -> Place] /\ waking' \in [Task -> Nat]
  <2>1. "await" \in Place
    BY DEF Place, Awaits
  <2> QED
    BY <1>1, <2>1, GotoPlain
<1>4. ResendInterval \in Nat /\ updates \in Seq(Nat)
  BY TimeAssumption DEF TypeOK
<1>5. /\ updates' \in Seq(Nat) /\ Len(updates') = Len(updates) + 1 /\ Len(updates) \in Nat
      /\ \A i \in 1 .. Len(updates) : updates'[i] = updates[i]
      /\ updates'[Len(updates) + 1] = ResendInterval
  BY <1>1, <1>4, AppendProperties
<1>6. TypeOK'
  <2>1. pc' \in [Task -> Place]
    BY <1>3 DEF Moved
  <2> QED
    BY <1>1, <1>3, <1>5, <2>1 DEF TypeOK
<1>7. Flow'
  <2>1. 0 > 0 <=> "await" = "notify_recv"
    OBVIOUS
  <2> QED
    BY <1>3, <2>1, FlowMoves DEF TypeOK
<1>8. Timers'
  <2>1. /\ Cardinality(Queueing)' = Cardinality(Queueing) - 1
        /\ Cardinality(Queueing) \in Nat
    BY <1>2, <1>3, QueueingNumbers
  <2>2. Updates' = Updates
    BY <1>5, <2>1 DEF Updates
  <2>3. \A i \in 1 .. Len(updates') : updates'[i] = ResendInterval
    BY <1>5 DEF Timers
  <2> QED
    BY <1>1, <2>2, <2>3 DEF Timers
<1>9. RecvWakeUpDue'
  <2>1. One(pc[t] \in OnRecv) = 0 /\ One("await" \in OnRecv) = 0
    BY <1>1 DEF One, OnRecv
  <2>2. recv_waiters \in Nat /\ recv_waiters' = recv_waiters
    BY <1>1 DEF TypeOK
  <2>3. recv_waiters' + 0 + One(pc[t] \in OnRecv) >= recv_waiters + waking[t] + One("await" \in OnRecv)
    BY <1>3, <2>1, <2>2
  <2> QED
    BY <1>1, <1>3, <2>2, <2>3, WakeUpMoves
<1> QED
  BY <1>6, <1>7, <1>8, <1>9

\* A call returns.
LEMMA ReturnKeeps ==
    ASSUME IInv, NEW t \in Task, Return(t)
    PROVE  IInv'
<1> USE DEF IInv
<1>1. /\ pc[t] \in {"await", "return"} /\ Goto(t, "idle")
      /\ guards' = IF result[t] \in ReplyGuard THEN guards (+) SetToBag({result[t]}) ELSE guards
      /\ result' = [result EXCEPT ![t] = Pending] /\ sent_as' = [sent_as EXCEPT ![t] = None]
      /\ UNCHANGED <<seq, recv_waiters, reply_waiters, permit, updates, service_ts,
                     lock_guards, leaked, missed, collapsed, forgotten>>
  BY DEF Return, inner, service
<1>2. t \notin Queueing
  BY <1>1, IdleFacts
<1>3. /\ Moved(t, "idle", "idle", 0) /\ waking[t] = 0 /\ 0 \in Nat
      /\ resume' \in [Task -> Place] /\ waking' \in [Task -> Nat]
  <2>1. "idle" \in Place
    BY DEF Place
  <2> QED
    BY <1>1, <2>1, GotoPlain
<1>4. IsABag(guards') /\ BagToSet(guards') \subseteq ReplyGuard
  <2>1. IsABag(guards) /\ BagToSet(guards) \subseteq ReplyGuard
    BY DEF TypeOK
  <2>2. IsABag(guards (+) SetToBag({result[t]}))
        /\ BagToSet(guards (+) SetToBag({result[t]})) = BagToSet(guards) \cup {result[t]}
    BY <2>1, BagAddOne
  <2> QED
    BY <1>1, <2>1, <2>2
<1>5. TypeOK'
  <2>1. pc' \in [Task -> Place]
    BY <1>3 DEF Moved
  <2>2. result' \in [Task -> Result] /\ sent_as' \in [Task -> OptSeqNo]
    BY <1>1 DEF TypeOK, Result, OptSeqNo
  <2> QED
    BY <1>1, <1>3, <1>4, <2>1, <2>2 DEF TypeOK
<1>6. Flow'
  <2>1. 0 > 0 <=> "idle" = "notify_recv"
    OBVIOUS
  <2> QED
    BY <1>3, <2>1, FlowMoves DEF TypeOK
<1>7. Timers'
  <2>1. Cardinality(Queueing)' = Cardinality(Queueing)
    BY <1>2, <1>3, QueueingNumbers
  <2>2. OnlyTakes(seq, seq')
    BY <1>1 DEF OnlyTakes, Shrunk
  <2> QED
    BY <1>1, <2>1, <2>2, TimersKept DEF TypeOK
<1>8. RecvWakeUpDue'
  <2>1. One(pc[t] \in OnRecv) = 0 /\ One("idle" \in OnRecv) = 0
    BY <1>1 DEF One, OnRecv
  <2>2. recv_waiters \in Nat /\ recv_waiters' = recv_waiters
    BY <1>1 DEF TypeOK
  <2>3. recv_waiters' + 0 + One(pc[t] \in OnRecv) >= recv_waiters + waking[t] + One("idle" \in OnRecv)
    BY <1>3, <2>1, <2>2
  <2> QED
    BY <1>1, <1>3, <2>2, <2>3, WakeUpMoves
<1> QED
  BY <1>5, <1>6, <1>7, <1>8

\* A future is dropped: a notification that it had been given is passed on.
LEMMA CancelKeeps ==
    ASSUME IInv, NEW t \in Task, Cancel(t)
    PROVE  IInv'
<1> USE DEF IInv
<1> DEFINE gone == [pc EXCEPT ![t] = "idle"]
<1>1. /\ pc[t] \in Awaits
      /\ IF pc[t] = "woken_on_recv" THEN NotifyOneOf(gone)
         ELSE pc' = gone /\ UNCHANGED <<permit, collapsed>>
      /\ seq' = Abandon(seq, t)
      /\ leaked' = IF result[t] \in ReplyGuard THEN leaked (+) SetToBag({result[t]}) ELSE leaked
      /\ result' = [result EXCEPT ![t] = Pending] /\ sent_as' = [sent_as EXCEPT ![t] = None]
      /\ forgotten' = (forgotten \/ pc[t] = "queue")
      /\ UNCHANGED <<recv_waiters, reply_waiters, updates, service_ts, resume, waking, guards,
                     lock_guards, missed>>
  BY DEF Cancel, service
<1>2. /\ pc[t] \notin {"notify_recv", "notify_reply"}
      /\ waking[t] = 0 /\ resume[t] = "idle" /\ (t \in Queueing <=> pc[t] = "queue")
  <2>1. pc[t] \notin {"notify_recv", "notify_reply"}
    BY <1>1 DEF Awaits
  <2> QED
    BY <2>1, IdleFacts
<1>3. /\ waking \in [Task -> Nat] /\ resume \in [Task -> Place] /\ pc \in [Task -> Place]
      /\ permit \in BOOLEAN /\ collapsed \in BOOLEAN /\ forgotten \in BOOLEAN
      /\ seq \in SeqExState /\ recv_waiters \in Nat
      /\ result \in [Task -> Result] /\ sent_as \in [Task -> OptSeqNo]
      /\ IsABag(leaked) /\ BagToSet(leaked) \subseteq ReplyGuard
      /\ "idle" \in Place /\ "idle" \notin OnRecv /\ 0 \in Nat
  BY DEF TypeOK, Place, OnRecv
<1>4. /\ resume' = [resume EXCEPT ![t] = "idle"] /\ waking' = [waking EXCEPT ![t] = 0]
      /\ resume' \in [Task -> Place] /\ waking' \in [Task -> Nat]
  BY <1>1, <1>2, <1>3
<1>5. /\ pc' \in [Task -> Place] /\ pc'[t] = "idle"
      /\ \A u \in Task \ {t} : pc'[u] = pc[u] \/ (pc[u] = "wait_on_recv" /\ pc'[u] = "woken_on_recv")
      /\ permit' \in BOOLEAN /\ collapsed' \in BOOLEAN /\ (collapsed => collapsed')
  <2>1. CASE pc[t] = "woken_on_recv"
    BY <1>1, <1>3, <2>1, NotifyOneOfFacts
  <2>2. CASE pc[t] # "woken_on_recv"
    BY <1>1, <1>3, <2>2
  <2> QED
    BY <2>1, <2>2
<1>6. Moved(t, "idle", "idle", 0)
  BY <1>4, <1>5 DEF Moved
<1>7. /\ seq' \in SeqExState
      /\ seq'.next_service_timestamp = seq.next_service_timestamp
      /\ \A i \in 0 .. CAP - 1 : seq'.send_window[i] # None =>
            /\ seq.send_window[i] # None
            /\ seq'.send_window[i].next_resend_time = seq.send_window[i].next_resend_time
  BY <1>1, <1>3, AbandonFacts
<1>8. TypeOK'
  <2>1. result' \in [Task -> Result] /\ sent_as' \in [Task -> OptSeqNo]
    BY <1>1, <1>3 DEF Result, OptSeqNo
  <2>2. IsABag(leaked') /\ BagToSet(leaked') \subseteq ReplyGuard
    <3>1. IsABag(leaked (+) SetToBag({result[t]}))
          /\ BagToSet(leaked (+) SetToBag({result[t]})) = BagToSet(leaked) \cup {result[t]}
      BY <1>3, BagAddOne
    <3> QED
      BY <1>1, <1>3, <3>1
  <2>3. forgotten' \in BOOLEAN
    BY <1>1
  <2> QED
    BY <1>1, <1>4, <1>5, <1>7, <2>1, <2>2, <2>3 DEF TypeOK
<1>9. Flow'
  <2>1. 0 > 0 <=> "idle" = "notify_recv"
    OBVIOUS
  <2> QED
    BY <1>3, <1>6, <2>1, FlowMoves
<1>10. Timers'
  <2>1. \A i \in 0 .. CAP - 1 : seq'.send_window[i] # None
                                => seq'.send_window[i].next_resend_time = ResendInterval
    BY <1>7 DEF Timers
  <2>2. Len(updates) \in Nat /\ updates' = updates /\ service_ts' = service_ts
    BY <1>1 DEF TypeOK
  <2>3. CASE pc[t] = "queue"
    <3>1. Cardinality(Queueing)' = Cardinality(Queueing) - 1 /\ Cardinality(Queueing) \in Nat
      BY <1>2, <1>6, <2>3, QueueingNumbers
    <3>2. Updates' = Updates - 1
      BY <2>2, <3>1 DEF Updates
    <3>3. Updates' \in Nat
      <4>1. Queueing' \subseteq Task
        BY DEF Queueing
      <4>2. Cardinality(Queueing') \in Nat
        BY <4>1, TasksFinite
      <4> QED
        BY <2>2, <4>2 DEF Updates
    <3>4. Updates = 1 /\ Updates' = 0
      BY <3>2, <3>3 DEF Timers
    <3>5. forgotten'
      BY <1>1, <2>3
    <3> QED
      BY <1>7, <2>1, <2>2, <3>4, <3>5 DEF Timers
  <2>4. CASE pc[t] # "queue"
    <3>1. Cardinality(Queueing)' = Cardinality(Queueing)
      BY <1>2, <1>6, <2>4, QueueingNumbers
    <3>2. Updates' = Updates
      BY <2>2, <3>1 DEF Updates
    <3>3. forgotten' = forgotten
      BY <1>1, <1>3, <2>4
    <3> QED
      BY <1>7, <2>1, <2>2, <3>2, <3>3 DEF Timers
  <2> QED
    BY <2>3, <2>4
<1>11. RecvWakeUpDue'
  <2>1. CASE pc[t] = "woken_on_recv"
    <3> DEFINE a == Cardinality(At(OnRecv))
               c == Cardinality(At(OnRecv)')
               k == Cardinality(ToNotify)
               l == Cardinality(ToNotify)'
               m == One(permit)
               o == One(permit')
               from == One(pc[t] \in OnRecv)
    <3>1. a \in Nat /\ c \in Nat
      BY <1>3, <1>6, OnRecvMoves
    <3>2. k \in Nat /\ l \in Nat /\ l = k
      <4>1. k \in Nat /\ l \in Nat /\ l + waking[t] = k + 0
        BY <1>3, <1>4, ToNotifyMoves
      <4> HIDE DEF k, l
      <4> QED
        BY <1>2, <4>1
    <3>3. from = 0 /\ m \in {0, 1} /\ o \in {0, 1}
      <4>1. pc[t] \notin OnRecv
        BY <2>1 DEF OnRecv
      <4> QED
        BY <4>1 DEF One
    <3>4. ~collapsed' => c + 1 <= (a - from) + (o - m)
      BY <1>1, <1>3, <2>1, NotifyOneOfFacts
    <3>5. recv_waiters' = recv_waiters
      BY <1>1
    <3> HIDE DEF a, c, k, l, m, o, from
    <3>6. ~collapsed' => c + k + m <= a + l + o
      BY <3>1, <3>2, <3>3, <3>4
    <3> QED
      BY <1>5, <3>1, <3>2, <3>5, <3>6, WakeUpSum DEF a, c, k, l, m, o
  <2>2. CASE pc[t] # "woken_on_recv"
    <3>1. One("idle" \in OnRecv) = 0 /\ One(pc[t] \in OnRecv) \in {0, 1}
      BY <1>3 DEF One
    <3>2. recv_waiters' = recv_waiters /\ UNCHANGED <<permit, collapsed>>
      BY <1>1, <2>2
    <3>3. recv_waiters' + 0 + One(pc[t] \in OnRecv)
            >= recv_waiters + waking[t] + One("idle" \in OnRecv)
      BY <1>2, <1>3, <3>1, <3>2
    <3> QED
      BY <1>3, <1>6, <3>2, <3>3, WakeUpMoves
  <2> QED
    BY <2>1, <2>2
<1> QED
  BY <1>8, <1>9, <1>10, <1>11

\* service gives every packet it resends the same new deadline, and SEQEX this one or none.
LEMMA ServiceTimes ==
    ASSUME NEW s \in SeqExState, s.next_service_timestamp \in {MaxTime, ResendInterval},
           \A i \in 0 .. CAP - 1 : s.send_window[i] # None
                                   => s.send_window[i].next_resend_time = ResendInterval
    PROVE  LET v == Service(s, 0)
           IN  /\ v \in SeqExState
               /\ v.next_service_timestamp \in {MaxTime, ResendInterval}
               /\ \A i \in 0 .. CAP - 1 : v.send_window[i] # None
                                          => v.send_window[i].next_resend_time = ResendInterval
<1> DEFINE v == Service(s, 0)
<1>1. v \in SeqExState
  BY ServiceType
<1>2. CASE ~IsServiceTime(s, 0)
  BY <1>1, <1>2 DEF Service
<1>3. CASE IsServiceTime(s, 0)
  <2> DEFINE w == Rescheduled(s, 0)
             times == {w[i].next_resend_time : i \in {j \in Visited(s) : w[j] # None}}
             all == times \cup {MaxTime}
             m == Min(all)
  <2>1. v = [s EXCEPT !.send_window = w, !.next_service_timestamp = m]
    BY <1>3 DEF Service
  <2>2. ASSUME NEW i \in 0 .. CAP - 1, w[i] # None
        PROVE  w[i].next_resend_time = ResendInterval
    <3>1. s.send_window[i] \in SendEntry \cup {None} /\ ResendInterval \in Nat
      BY TimeAssumption DEF SeqExState
    <3>2. CASE i \in Due(s, 0)
      <4>1. w[i] = [s.send_window[i] EXCEPT !.next_resend_time = 0 + ResendInterval]
        BY <3>2 DEF Rescheduled
      <4>2. s.send_window[i] \in SendEntry
        BY <3>1, <3>2 DEF Due
      <4> QED
        BY <3>1, <4>1, <4>2 DEF SendEntry
    <3>3. CASE i \notin Due(s, 0)
      BY <2>2, <3>3 DEF Rescheduled
    <3> QED
      BY <3>2, <3>3
  <2>3. Visited(s) \subseteq 0 .. CAP - 1
    BY VisitedType
  <2> HIDE DEF w
  <2>4. all \subseteq {MaxTime, ResendInterval} /\ all # {} /\ all \subseteq Nat
    BY <2>2, <2>3, TimeAssumption
  <2> HIDE DEF times, all
  <2>5. m \in {MaxTime, ResendInterval}
    <3>1. \E x \in all : \A y \in all : x <= y
      BY <2>4, LeastNatural
    <3> QED
      BY <2>4, <3>1 DEF Min
  <2> HIDE DEF m, v
  <2>6. v.send_window = w /\ v.next_service_timestamp = m
    BY <2>1 DEF SeqExState
  <2> QED
    BY <1>1, <2>2, <2>5, <2>6 DEF v
<1> QED
  BY <1>2, <1>3

\* The service task is told, or its deadline comes.
LEMMA ServiceKeeps ==
    ASSUME IInv, ServiceUpdate \/ ServiceTimeout
    PROVE  IInv'
<1> USE DEF IInv
<1>1. /\ UNCHANGED <<recv_waiters, reply_waiters, permit, pc, resume, waking, result, guards,
                     lock_guards, leaked, sent_as, missed, collapsed, forgotten>>
  BY DEF ServiceUpdate, ServiceTimeout, inner, flow, held, history
<1>2. Flow' /\ RecvWakeUpDue'
  BY <1>1 DEF Flow, RecvWakeUpDue, At, ToNotify
<1>3. /\ seq \in SeqExState /\ updates \in Seq(Nat) /\ Len(updates) \in Nat /\ service_ts \in Nat
      /\ MaxTime \in Nat /\ ResendInterval \in Nat
  BY TimeAssumption DEF TypeOK
<1>4. Cardinality(Queueing) \in Nat /\ Cardinality(Queueing)' = Cardinality(Queueing)
  <2>1. Queueing \subseteq Task /\ Queueing' = Queueing
    BY <1>1 DEF Queueing
  <2> QED
    BY <2>1, TasksFinite
<1>5. CASE ServiceUpdate
  <2>1. /\ updates # << >> /\ service_ts' = Min({service_ts, Head(updates)})
        /\ updates' = Tail(updates) /\ seq' = seq
    BY <1>5 DEF ServiceUpdate, inner
  <2>2. /\ Head(updates) = updates[1] /\ Tail(updates) \in Seq(Nat)
        /\ Len(Tail(updates)) = Len(updates) - 1 /\ Len(updates) >= 1
    BY <1>3, <2>1
  <2>3. Updates = 1 /\ Len(updates) = 1 /\ Cardinality(Queueing) = 0
    BY <1>3, <1>4, <2>2 DEF Timers, Updates
  <2>4. Updates' = 0 /\ Len(updates') = 0
    BY <1>4, <2>1, <2>2, <2>3 DEF Updates
  <2>5. Head(updates) = ResendInterval /\ service_ts = MaxTime
        /\ seq.next_service_timestamp = ResendInterval
    BY <2>2, <2>3 DEF Timers
  <2>6. service_ts' = IF MaxTime <= ResendInterval THEN MaxTime ELSE ResendInterval
    BY <1>3, <2>1, <2>5, MinOfTwo
  <2>7. TypeOK'
    BY <1>1, <1>3, <2>1, <2>2, <2>6 DEF TypeOK
  <2>8. Timers'
    BY <1>1, <1>3, <2>1, <2>4, <2>5, <2>6 DEF Timers
  <2> QED
    BY <1>2, <2>7, <2>8
<1>6. CASE ServiceTimeout
  <2>1. /\ service_ts < MaxTime /\ seq' = Service(seq, 0)
        /\ service_ts' = seq'.next_service_timestamp /\ updates' = updates
    BY <1>6 DEF ServiceTimeout
  <2>2. /\ seq' \in SeqExState
        /\ seq'.next_service_timestamp \in {MaxTime, ResendInterval}
        /\ \A i \in 0 .. CAP - 1 : seq'.send_window[i] # None
                                   => seq'.send_window[i].next_resend_time = ResendInterval
    BY <1>3, <2>1, ServiceTimes DEF Timers
  <2>3. Updates = 0 /\ Updates' = Updates
    BY <1>3, <1>4, <2>1 DEF Timers, Updates
  <2>4. TypeOK'
    BY <1>1, <1>3, <2>1, <2>2 DEF TypeOK
  <2>5. Timers'
    BY <1>3, <2>1, <2>2, <2>3 DEF Timers
  <2> QED
    BY <1>2, <2>4, <2>5
<1> QED
  BY <1>5, <1>6

----------------------------------------------------------------------------
(* The invariant holds throughout.                                         *)

LEMMA InitHolds == Init => IInv
<1> SUFFICES ASSUME Init PROVE IInv
  OBVIOUS
<1>1. /\ recv_waiters = 0 /\ reply_waiters = FALSE /\ permit = FALSE /\ updates = << >>
      /\ service_ts = MaxTime /\ pc = [t \in Task |-> "idle"] /\ resume = [t \in Task |-> "idle"]
      /\ waking = [t \in Task |-> 0] /\ result = [t \in Task |-> Pending]
      /\ guards = EmptyBag /\ lock_guards = 0 /\ leaked = EmptyBag
      /\ sent_as = [t \in Task |-> None] /\ missed = FALSE /\ collapsed = FALSE
      /\ forgotten = FALSE /\ seq = NewSeqEx
  BY DEF Init
<1>2. MaxTime \in Nat /\ ResendInterval \in Nat
  BY TimeAssumption
<1>3. /\ seq \in SeqExState /\ seq.next_service_timestamp = MaxTime
      /\ seq.send_window = [i \in 0 .. CAP - 1 |-> None]
  <2>1. seq \in SeqExState
    BY <1>1, NewSeqExType
  <2> QED
    BY <1>1, <2>1 DEF NewSeqEx
<1>4. IsABag(EmptyBag) /\ BagToSet(EmptyBag) = {}
  BY DEF EmptyBag, SetToBag, IsABag, BagToSet
<1>5. /\ pc \in [Task -> Place] /\ resume \in [Task -> Place] /\ waking \in [Task -> Nat]
      /\ result \in [Task -> Result] /\ sent_as \in [Task -> OptSeqNo] /\ updates \in Seq(Nat)
  BY <1>1 DEF Place, Result, OptSeqNo
<1>6. TypeOK
  BY <1>1, <1>2, <1>3, <1>4, <1>5 DEF TypeOK
<1>7. Flow
  BY <1>1 DEF Flow
<1>8. Timers
  <2>1. Queueing = {}
    BY <1>1 DEF Queueing
  <2>2. Cardinality(Queueing) = 0
    BY <2>1, FS_EmptySet
  <2>3. Len(updates) = 0
    BY <1>1
  <2>4. Updates = 0
    BY <2>2, <2>3 DEF Updates
  <2> QED
    BY <1>1, <1>2, <1>3, <2>3, <2>4 DEF Timers
<1>9. RecvWakeUpDue
  <2>1. At({"gap_recv", "wait_on_recv"}) = {}
    BY <1>1 DEF At
  <2>2. Cardinality(At({"gap_recv", "wait_on_recv"})) = 0
    BY <2>1, FS_EmptySet
  <2>3. ToNotify = {}
    <3>1. \A t \in Task : {t} \X (1 .. waking[t]) = {}
      BY <1>1
    <3> QED
      BY <3>1 DEF ToNotify
  <2>4. Cardinality(ToNotify) = 0
    BY <2>3, FS_EmptySet
  <2> QED
    BY <1>1, <2>2, <2>4 DEF RecvWakeUpDue
<1> QED
  BY <1>6, <1>7, <1>8, <1>9 DEF IInv

LEMMA NextKeeps == IInv /\ [Next]_vars => IInv'
<1> SUFFICES ASSUME IInv, [Next]_vars PROVE IInv'
  OBVIOUS
<1>1. TypeOK
  BY DEF IInv
<1>2. CASE SendCalls
  <2>1. PICK t \in Senders : \/ Send(t)
                             \/ \E g \in BagToSet(guards), c \in SeqCstModes : Reply(t, g, c)
    BY <1>2 DEF SendCalls
  <2>2. t \in Task /\ SeqCstModes \subseteq BOOLEAN
    BY RemoteAssumption DEF Task
  <2>3. CASE Send(t)
    BY <2>2, <2>3, SendOrWaitKeeps DEF Send
  <2>4. ASSUME NEW g \in BagToSet(guards), NEW c \in SeqCstModes, Reply(t, g, c)
        PROVE  IInv'
    BY <2>2, <2>4, ReplyKeeps
  <2> QED
    BY <2>1, <2>3, <2>4
<1>3. CASE ReceiveCalls
  <2>1. PICK t \in Receivers : \/ \E m \in Remote : ReceiveData(t, m)
                               \/ \E r \in SeqNo : ReceiveAck(t, r)
    BY <1>3 DEF ReceiveCalls
  <2>2. t \in Task
    BY DEF Task
  <2>3. ASSUME NEW m \in Remote, ReceiveData(t, m)
        PROVE  IInv'
    <3>1. Refuses(t) \/ \E n \in Nat, place \in {"return", "idle"} : Receives(t, n, place)
      BY <1>1, <2>2, <2>3, ReceiveDataKind
    <3> QED
      BY <2>2, <3>1, RefusesKeeps, ReceivesKeeps
  <2>4. ASSUME NEW r \in SeqNo, ReceiveAck(t, r)
        PROVE  IInv'
    <3>1. Receives(t, 1, "idle")
      BY <1>1, <2>2, <2>4, ReceiveAckKind
    <3>2. 1 \in Nat /\ "idle" \in {"return", "idle"}
      OBVIOUS
    <3> QED
      BY <2>2, <3>1, <3>2, ReceivesKeeps
  <2> QED
    BY <2>1, <2>3, <2>4
<1>4. CASE HandlerCalls
  <2>1. PICK t \in Handlers :
            \/ \E g \in BagToSet(guards) : AckGuard(t, g) \/ DropGuard(t, g) \/ UnlockGuard(t, g)
            \/ DropLockGuard(t)
    BY <1>4 DEF HandlerCalls
  <2>2. t \in Task
    BY DEF Task
  <2>3. Consumes(t)
    BY <1>1, <2>1, <2>2, HandlerConsumes, DropLockConsumes
  <2> QED
    BY <2>2, <2>3, ConsumesKeeps
<1>5. CASE \E t \in Task : Step(t) \/ Cancel(t)
  <2>1. PICK t \in Task : Step(t) \/ Cancel(t)
    BY <1>5
  <2>2. CASE Retry(t)
    BY <2>2, SendOrWaitKeeps DEF Retry
  <2> QED
    BY <2>1, <2>2, NotifyOneKeeps, NotifyWaitersKeeps, WaitKeeps, QueueKeeps, ReturnKeeps,
       CancelKeeps DEF Step
<1>6. CASE ServiceUpdate \/ ServiceTimeout
  BY <1>6, ServiceKeeps
<1>7. CASE UNCHANGED vars
  BY <1>7 DEF vars, inner, service, flow, held, history, IInv, TypeOK, Flow, Timers, Updates,
     Queueing, RecvWakeUpDue, At, ToNotify
<1> QED
  BY <1>2, <1>3, <1>4, <1>5, <1>6, <1>7 DEF Next

LEMMA InvariantHolds == Spec => []IInv
BY InitHolds, NextKeeps, PTL DEF Spec

\* A set of numbers has no smaller element than its Min.
LEMMA MinIsLeast ==
    ASSUME NEW S, S \subseteq Nat, NEW x \in S
    PROVE  Min(S) <= x
<1>1. \E y \in S : \A z \in S : y <= z
  BY LeastNatural
<1> QED
  BY <1>1 DEF Min

\* The timers are what ServiceScheduled and OneUpdate speak of.
LEMMA TimersImply == TypeOK /\ Timers => ServiceScheduled /\ OneUpdate
<1> SUFFICES ASSUME TypeOK, Timers PROVE ServiceScheduled /\ OneUpdate
  OBVIOUS
<1>1. /\ Updates = Len(updates) + Cardinality(Queueing) /\ Updates \in {0, 1}
      /\ Len(updates) \in Nat /\ Cardinality(Queueing) \in Nat
      /\ DOMAIN updates = 1 .. Len(updates) /\ updates \in Seq(Nat) /\ service_ts \in Nat
      /\ ResendInterval \in Nat
  <2>1. Queueing \subseteq Task
    BY DEF Queueing
  <2>2. Cardinality(Queueing) \in Nat
    BY <2>1, TasksFinite
  <2> QED
    BY <2>2, TimeAssumption DEF TypeOK, Timers, Updates
<1>2. OneUpdate
  BY <1>1 DEF OneUpdate, Queueing
<1>3. ASSUME ~forgotten PROVE ServiceScheduled
  <2> DEFINE due == {service_ts} \cup {updates[i] : i \in DOMAIN updates}
                        \cup {ResendInterval : t \in Queueing}
  <2>1. due \subseteq Nat /\ service_ts \in due
    BY <1>1
  <2>2. Min(due) <= seq.next_service_timestamp
    <3>1. CASE Updates = 0
      <4>1. service_ts <= seq.next_service_timestamp
        BY <1>3, <3>1 DEF Timers
      <4>2. Min(due) <= service_ts /\ Min(due) \in Nat
        <5>1. \E y \in due : \A z \in due : y <= z
          BY <2>1, LeastNatural
        <5>2. Min(due) \in due
          BY <5>1 DEF Min
        <5> QED
          BY <2>1, <5>2, MinIsLeast
      <4>3. seq.next_service_timestamp \in Nat
        BY DEF TypeOK, SeqExState
      <4> HIDE DEF due
      <4> QED
        BY <1>1, <4>1, <4>2, <4>3
    <3>2. CASE Updates = 1
      <4>1. seq.next_service_timestamp = ResendInterval
        BY <3>2 DEF Timers
      <4>2. ResendInterval \in due
        <5>1. CASE Len(updates) = 0
          <6>1. Cardinality(Queueing) # 0
            BY <1>1, <3>2, <5>1
          <6>2. Queueing # {}
            BY <6>1, FS_EmptySet
          <6> QED
            BY <6>2
        <5>2. CASE Len(updates) # 0
          <6>1. 1 \in 1 .. Len(updates)
            BY <1>1, <5>2
          <6>2. updates[1] = ResendInterval
            BY <6>1 DEF Timers
          <6> QED
            BY <1>1, <6>1, <6>2
        <5> QED
          BY <5>1, <5>2
      <4> HIDE DEF due
      <4> QED
        BY <2>1, <4>1, <4>2, MinIsLeast
    <3> QED
      BY <1>1, <3>1, <3>2
  <2> QED
    BY <2>2 DEF ServiceScheduled, Queueing
<1>4. ASSUME forgotten PROVE ServiceScheduled
  BY <1>4 DEF ServiceScheduled
<1> QED
  BY <1>2, <1>3, <1>4

----------------------------------------------------------------------------
(***************************************************************************)
(* The channels of the calls.  A packet in a window names the task whose   *)
(* call has stored its channel with it: SentBy in the send window, SavedBy *)
(* in the receive window, Nobody when there is none.                       *)
(***************************************************************************)
Slots == 0 .. CAP - 1
SentBy(s, i)  == IF s.send_window[i] = None THEN Nobody ELSE s.send_window[i].data
SavedBy(s, i) == IF s.recv_window[i].tag = "Occupied" THEN s.recv_window[i].data ELSE Nobody

\* No channel of task t is stored.
Free(s, t) == \A i \in Slots : SentBy(s, i) # t /\ SavedBy(s, i) # t

\* The remote peer has sent this packet.
FromRemote(e) == \E m \in Remote : m.seq_no = e.seq_no /\ m.reply_no = e.reply_no

\* What a call that has sent packet n may be told.
Answers(value, n) ==
    /\ value \in ReplyGuard => \E m \in Remote : m.seq_no = value.reply_no /\ m.reply_no = n
    /\ value = EndOfExchange => \A m \in Remote : m.reply_no # n
    /\ value # SeqExClosed

(***************************************************************************)
(* Whose channel is stored has been told nothing yet.  The call whose      *)
(* channel is in the send window has sent that packet, the one whose       *)
(* channel is in the receive window has sent none, and each channel is     *)
(* stored once.  Here sent is sent_as, and results is result, of a state   *)
(* in the middle of an action perhaps.                                     *)
(***************************************************************************)
Sending(s, results, sent) == \A i \in Slots : SentBy(s, i) # Nobody =>
    /\ results[SentBy(s, i)] = Pending /\ sent[SentBy(s, i)] = s.send_window[i].seq_no
    /\ \A j \in Slots : SentBy(s, j) = SentBy(s, i) => j = i
Saving(s, results, sent) == \A i \in Slots : SavedBy(s, i) # Nobody =>
    /\ results[SavedBy(s, i)] = Pending /\ sent[SavedBy(s, i)] = None
    /\ \A j \in Slots : SavedBy(s, j) = SavedBy(s, i) => j = i
Saved(s) == \A i \in Slots : s.recv_window[i].tag = "Occupied" => FromRemote(s.recv_window[i])
Right(results, sent) == \A t \in Task : sent[t] # None => Answers(results[t], sent[t])

Calls(s, results, sent) ==
    Sending(s, results, sent) /\ Saving(s, results, sent) /\ Saved(s) /\ Right(results, sent)

\* v stores some of the channels of s, where s does.
Fewer(s, v) == \A i \in Slots :
    /\ v.send_window[i] # None =>
        /\ s.send_window[i] # None /\ v.send_window[i].seq_no = s.send_window[i].seq_no
        /\ v.send_window[i].data \in {s.send_window[i].data, Nobody}
    /\ v.recv_window[i].tag = "Occupied" =>
        /\ s.recv_window[i].tag = "Occupied"
        /\ v.recv_window[i].seq_no = s.recv_window[i].seq_no
        /\ v.recv_window[i].reply_no = s.recv_window[i].reply_no
        /\ v.recv_window[i].data \in {s.recv_window[i].data, Nobody}

LEMMA FewerTwice ==
    ASSUME NEW s, NEW u, NEW v, Fewer(s, u), Fewer(u, v)
    PROVE  Fewer(s, v)
<1>1. SUFFICES ASSUME NEW i \in Slots
               PROVE  /\ v.send_window[i] # None =>
                        /\ s.send_window[i] # None
                        /\ v.send_window[i].seq_no = s.send_window[i].seq_no
                        /\ v.send_window[i].data \in {s.send_window[i].data, Nobody}
                      /\ v.recv_window[i].tag = "Occupied" =>
                        /\ s.recv_window[i].tag = "Occupied"
                        /\ v.recv_window[i].seq_no = s.recv_window[i].seq_no
                        /\ v.recv_window[i].reply_no = s.recv_window[i].reply_no
                        /\ v.recv_window[i].data \in {s.recv_window[i].data, Nobody}
  BY DEF Fewer
<1> QED
  BY DEF Fewer

\* Windows that are the same.
LEMMA SameFewer ==
    ASSUME NEW s, NEW v, v.send_window = s.send_window, v.recv_window = s.recv_window
    PROVE  Fewer(s, v)
BY DEF Fewer

\* Where v stores a channel, s stores it.
LEMMA FewerStored ==
    ASSUME NEW s, NEW v, Fewer(s, v), NEW i \in Slots
    PROVE  /\ SentBy(v, i) # Nobody =>
                /\ SentBy(v, i) = SentBy(s, i)
                /\ v.send_window[i].seq_no = s.send_window[i].seq_no
           /\ SavedBy(v, i) # Nobody => SavedBy(v, i) = SavedBy(s, i)
BY DEF Fewer, SentBy, SavedBy

LEMMA FewerFree ==
    ASSUME NEW s, NEW v, Fewer(s, v), NEW t \in Task, Free(s, t)
    PROVE  Free(v, t)
<1>1. t # Nobody
  BY TaskAssumption
<1> QED
  BY <1>1, FewerStored DEF Free

LEMMA CallsFewer ==
    ASSUME NEW s, NEW v, Fewer(s, v), NEW results, NEW sent, Calls(s, results, sent)
    PROVE  Calls(v, results, sent)
<1>1. Sending(v, results, sent)
  BY FewerStored DEF Calls, Sending
<1>2. Saving(v, results, sent)
  BY FewerStored DEF Calls, Saving
<1>3. Saved(v)
  BY DEF Calls, Saved, Fewer, FromRemote
<1> QED
  BY <1>1, <1>2, <1>3 DEF Calls

\* Whose channel is stored is a task.
LEMMA StoredType ==
    ASSUME NEW s \in SeqExState, NEW i \in Slots
    PROVE  /\ SentBy(s, i) \in Data /\ SavedBy(s, i) \in Data
           /\ s.send_window[i] # None => s.send_window[i].seq_no \in SeqNo
<1>1. /\ s.send_window[i] \in SendEntry \cup {None}
      /\ s.recv_window[i] \in RecvEntry
  BY DEF SeqExState, Slots
<1>2. s.recv_window[i].tag = "Occupied" => s.recv_window[i].data \in Data
  BY <1>1, RecvEntryFacts DEF OccupiedEntry
<1>3. s.send_window[i] # None => s.send_window[i].data \in Data /\ s.send_window[i].seq_no \in SeqNo
  BY <1>1 DEF SendEntry
<1> QED
  BY <1>2, <1>3, TaskAssumption DEF SentBy, SavedBy

\* Whose channel leaves its slot has none left.
LEMMA SenderFreed ==
    ASSUME NEW s \in SeqExState, NEW v, Fewer(s, v), NEW results, NEW sent,
           Calls(s, results, sent), NEW i \in Slots, SentBy(s, i) # Nobody,
           v.send_window[i] = None
    PROVE  Free(v, SentBy(s, i))
<1> DEFINE u == SentBy(s, i)
<1>1. u # Nobody /\ sent[u] # None /\ \A j \in Slots : SentBy(s, j) = u => j = i
  BY StoredType, NoneAssumption DEF Calls, Sending, SentBy
<1>2. SentBy(v, i) = Nobody
  BY DEF SentBy
<1> HIDE DEF u
<1>3. \A j \in Slots : SavedBy(s, j) # u
  BY <1>1 DEF Calls, Saving
<1>4. \A j \in Slots : SentBy(v, j) # u /\ SavedBy(v, j) # u
  BY <1>1, <1>2, <1>3, FewerStored
<1>5. Free(v, u)
  BY <1>4 DEF Free
<1> QED
  BY <1>5 DEF u

LEMMA SaverFreed ==
    ASSUME NEW s \in SeqExState, NEW v, Fewer(s, v), NEW results, NEW sent,
           Calls(s, results, sent), NEW i \in Slots, SavedBy(s, i) # Nobody,
           v.recv_window[i].tag # "Occupied"
    PROVE  Free(v, SavedBy(s, i))
<1> DEFINE u == SavedBy(s, i)
<1>1. u # Nobody /\ sent[u] = None /\ \A j \in Slots : SavedBy(s, j) = u => j = i
  BY DEF Calls, Saving
<1>2. SavedBy(v, i) = Nobody
  BY DEF SavedBy
<1> HIDE DEF u
<1>3. ASSUME NEW j \in Slots, SentBy(s, j) = u PROVE FALSE
  <2>1. s.send_window[j] # None
    BY <1>1, <1>3 DEF SentBy
  <2>2. sent[u] = s.send_window[j].seq_no
    BY <1>1, <1>3 DEF Calls, Sending
  <2> QED
    BY <1>1, <2>1, <2>2, StoredType, NoneAssumption
<1>4. \A j \in Slots : SentBy(v, j) # u /\ SavedBy(v, j) # u
  BY <1>1, <1>2, <1>3, FewerStored
<1>5. Free(v, u)
  BY <1>4 DEF Free
<1> QED
  BY <1>5 DEF u

\* A call is told something once its channel has left the windows.
LEMMA CallsTold ==
    ASSUME NEW s \in SeqExState, NEW results \in [Task -> Result], NEW sent, Calls(s, results, sent),
           NEW u \in Data, NEW value,
           u \in Task => Free(s, u) /\ (sent[u] # None => Answers(value, sent[u]))
    PROVE  Calls(s, Told(results, u, value), sent)
<1> DEFINE told == Told(results, u, value)
<1>1. CASE u = Nobody
  BY <1>1 DEF Told, Listens
<1>2. CASE u # Nobody
  <2>1. u \in Task /\ told = [results EXCEPT ![u] = value]
    BY <1>2, TaskAssumption DEF Told, Listens
  <2>2. \A t \in Task : told[t] = IF t = u THEN value ELSE results[t]
    BY <2>1
  <2> HIDE DEF told
  <2>3. \A i \in Slots : /\ SentBy(s, i) # u /\ SavedBy(s, i) # u
                         /\ SentBy(s, i) # Nobody => SentBy(s, i) \in Task
                         /\ SavedBy(s, i) # Nobody => SavedBy(s, i) \in Task
    BY <2>1, StoredType, TaskAssumption DEF Free
  <2>4. Sending(s, told, sent)
    BY <2>2, <2>3 DEF Calls, Sending
  <2>5. Saving(s, told, sent)
    BY <2>2, <2>3 DEF Calls, Saving
  <2>6. Right(told, sent)
    BY <2>1, <2>2 DEF Calls, Right
  <2>7. Calls(s, told, sent)
    BY <2>4, <2>5, <2>6 DEF Calls
  <2> QED
    BY <2>7 DEF told
<1> QED
  BY <1>1, <1>2

----------------------------------------------------------------------------
(* What a packet that is handed over does to the windows.                  *)

\* v is s after packet m, which was to be in slot k of the receive window, was issued.
Accepted(s, v, m, k) ==
    /\ v \in SeqExState /\ Fewer(s, v) /\ Issues(s, v, m.seq_no, m.seq_cst)
    /\ m.seq_cst => ~s.is_locked
    /\ v.recv_window[k].tag # "Occupied"
    /\ m.reply_no # None => SentEntry(v, m.reply_no) = None

\* A slot of the receive window only loses its packet, and so does the one of m.
LEMMA AdvanceWindows ==
    ASSUME NEW s \in SeqExState, NEW m \in Acceptable, NEW is_next \in BOOLEAN
    PROVE  LET v == Advance(s, m, is_next)
           IN  /\ v.send_window = s.send_window
               /\ \A i \in Slots : v.recv_window[i] = s.recv_window[i]
                                   \/ v.recv_window[i].tag # "Occupied"
               /\ v.recv_window[IF is_next THEN Idx(s.next_recv_seq_no) ELSE Idx(m.seq_no)].tag
                    # "Occupied"
<1> DEFINE k == IF is_next THEN Idx(s.next_recv_seq_no) ELSE Idx(m.seq_no)
           v == Advance(s, m, is_next)
<1>1. k \in Slots /\ m.seq_no \in SeqNo /\ s.next_recv_seq_no \in SeqNo
  BY AcceptableFacts, IdxType DEF SeqExState, Slots
<1>2. s.recv_window \in [Slots -> RecvEntry]
  BY DEF SeqExState, Slots
<1>3. Empty.tag # "Occupied" /\ Unlocked(m.seq_no).tag # "Occupied"
  BY DEF Empty, Unlocked
<1>4. CASE is_next
  <2> DEFINE w == [s.recv_window EXCEPT ![k] = Empty]
             n == Wrap(s.next_recv_seq_no + 1)
             u == [s EXCEPT !.recv_window[Idx(s.next_recv_seq_no)] = Empty, !.next_recv_seq_no = n]
  <2>1. v = FastForward(u)
    BY <1>4 DEF Advance
  <2>2. u.recv_window = w /\ u.send_window = s.send_window
    BY <1>4 DEF SeqExState
  <2>3. u = [u EXCEPT !.recv_window = w]
    BY <2>2 DEF SeqExState
  <2>4. \A i \in Slots : w[i] = IF i = k THEN Empty ELSE s.recv_window[i]
    BY <1>2
  <2>5. /\ FastForward(u).send_window = u.send_window
        /\ \A i \in Slots : FastForward(u).recv_window[i] \in {u.recv_window[i], Empty}
    <3>1. "recv_window" \in DOMAIN u /\ "next_recv_seq_no" \in DOMAIN u /\ "send_window" \in DOMAIN u
      BY DEF SeqExState
    <3> HIDE DEF u
    <3> DEFINE ff == FastForward(u)
    <3>2. ff.send_window = u.send_window
      BY <3>1 DEF FastForward
    <3>3. \A i \in Slots : ff.recv_window[i] \in {u.recv_window[i], Empty}
      BY <3>1 DEF FastForward, Slots
    <3> QED
      BY <3>2, <3>3
  <2> HIDE DEF u, w, k
  <2>6. v.send_window = s.send_window
        /\ \A i \in Slots : v.recv_window[i] \in {w[i], Empty}
    BY <2>1, <2>2, <2>5
  <2> HIDE DEF v
  <2>7. \A i \in Slots : v.recv_window[i] = s.recv_window[i] \/ v.recv_window[i].tag # "Occupied"
    BY <1>3, <2>4, <2>6
  <2>8. v.recv_window[k].tag # "Occupied"
    BY <1>1, <1>3, <2>4, <2>6
  <2> QED
    BY <2>6, <2>7, <2>8 DEF k, v
<1>5. CASE ~is_next
  <2>1. v = [s EXCEPT !.recv_window[Idx(m.seq_no)] = Unlocked(m.seq_no)] /\ k = Idx(m.seq_no)
    BY <1>5 DEF Advance
  <2>2. v.send_window = s.send_window
        /\ v.recv_window = [s.recv_window EXCEPT ![k] = Unlocked(m.seq_no)]
    BY <2>1 DEF SeqExState
  <2> HIDE DEF v, k
  <2>3. \A i \in Slots : v.recv_window[i] = IF i = k THEN Unlocked(m.seq_no) ELSE s.recv_window[i]
    BY <1>2, <2>2
  <2>4. \A i \in Slots : v.recv_window[i] = s.recv_window[i] \/ v.recv_window[i].tag # "Occupied"
    BY <1>3, <2>3
  <2>5. v.recv_window[k].tag # "Occupied"
    BY <1>1, <1>3, <2>3
  <2> QED
    BY <2>2, <2>4, <2>5 DEF k, v
<1> QED
  BY <1>4, <1>5

\* take_send takes the entry, and leaves the rest.
LEMMA TakeSendTakes ==
    ASSUME NEW s \in SeqExState, NEW r \in SeqNo
    PROVE  /\ Fewer(s, TakeSend(s, r)) /\ SentEntry(TakeSend(s, r), r) = None
           /\ TakeSend(s, r).recv_window = s.recv_window
           /\ SentEntry(s, r) # None => TakeSend(s, r).send_window[Idx(r)] = None
<1> DEFINE v == TakeSend(s, r)
<1>1. v \in SeqExState /\ Shrunk(s.send_window, v.send_window)
      /\ v = [s EXCEPT !.send_window = v.send_window]
  BY TakeSendFacts
<1>2. Idx(r) \in Slots /\ DOMAIN s.send_window = Slots
  BY IdxType DEF Slots, SeqExState
<1>3. SentEntry(s, r) # None => v.send_window[Idx(r)] = None
  BY <1>2 DEF TakeSend, SeqExState
<1>4. SentEntry(s, r) = None => v = s
  BY DEF TakeSend
<1> HIDE DEF v
<1>5. v.recv_window = s.recv_window
  BY <1>1 DEF SeqExState
<1>6. Fewer(s, v)
  BY <1>1, <1>5 DEF Fewer, Shrunk, Slots
<1>7. SentEntry(v, r) = None
  BY <1>3, <1>4 DEF SentEntry
<1> QED
  BY <1>3, <1>5, <1>6, <1>7 DEF v

LEMMA AcceptAccepted ==
    ASSUME NEW s \in SeqExState, NEW m \in Acceptable, NEW is_next \in BOOLEAN,
           m.seq_cst => ~s.is_locked
    PROVE  Accepted(s, Accept(s, m, is_next), m,
                    IF is_next THEN Idx(s.next_recv_seq_no) ELSE Idx(m.seq_no))
<1> DEFINE k == IF is_next THEN Idx(s.next_recv_seq_no) ELSE Idx(m.seq_no)
           u == Advance(s, m, is_next)
           lock == u.is_locked \/ m.seq_cst
           replies == Append(u.concurrent_replies, m.seq_no)
           w == IssueReplyNo(u, m)
           v == Accept(s, m, is_next)
<1>1. v \in SeqExState /\ Issues(s, v, m.seq_no, m.seq_cst)
  BY AcceptType
<1>2. m.seq_no \in SeqNo /\ m.reply_no \in OptSeqNo /\ m.seq_cst \in BOOLEAN
  BY AcceptableFacts
<1>3. /\ u.send_window = s.send_window
      /\ \A i \in Slots : u.recv_window[i] = s.recv_window[i] \/ u.recv_window[i].tag # "Occupied"
      /\ u.recv_window[k].tag # "Occupied"
  BY AdvanceWindows
<1>4. u \in SeqExState
  BY AdvanceType
<1> HIDE DEF u, k
<1>5. Fewer(s, u)
  BY <1>3 DEF Fewer
<1>6. lock \in BOOLEAN /\ replies \in Seq(SeqNo)
  BY <1>2, <1>4 DEF SeqExState
<1>7. w = [u EXCEPT !.concurrent_replies = replies, !.is_locked = lock]
  BY DEF IssueReplyNo
<1>8. w \in SeqExState /\ w.send_window = u.send_window /\ w.recv_window = u.recv_window
  <2> HIDE DEF replies, lock, w
  <2> QED
    BY <1>4, <1>6, <1>7 DEF SeqExState
<1> HIDE DEF w
<1>9. Fewer(s, w)
  BY <1>5, <1>8, SameFewer, FewerTwice
<1>10. v = IF m.reply_no = None THEN w ELSE TakeSend(w, m.reply_no)
  BY DEF Accept, w, u
<1> HIDE DEF v
<1>11. CASE m.reply_no = None
  <2>1. v = w
    BY <1>10, <1>11
  <2>2. w.recv_window[k].tag # "Occupied"
    BY <1>3, <1>8
  <2>3. Accepted(s, v, m, k)
    BY <1>1, <1>9, <1>11, <2>1, <2>2 DEF Accepted
  <2> QED
    BY <2>3 DEF v, k
<1>12. CASE m.reply_no # None
  <2>1. m.reply_no \in SeqNo /\ v = TakeSend(w, m.reply_no)
    BY <1>2, <1>10, <1>12 DEF OptSeqNo
  <2>2. Fewer(w, v) /\ SentEntry(v, m.reply_no) = None /\ v.recv_window = w.recv_window
    BY <1>8, <2>1, TakeSendTakes
  <2>3. Fewer(s, v)
    BY <1>9, <2>2, FewerTwice
  <2>4. v.recv_window[k].tag # "Occupied"
    BY <1>3, <1>8, <2>2
  <2>5. Accepted(s, v, m, k)
    BY <1>1, <2>2, <2>3, <2>4 DEF Accepted
  <2> QED
    BY <2>5 DEF v, k
<1> QED
  BY <1>11, <1>12

\* try_receive_raw_and_direct
LEMMA ReceiveAccepted ==
    ASSUME NEW s \in SeqExState, NEW m \in DataPacket, ReceiveOutcome(s, m) = "Deliver"
    PROVE  Accepted(s, Receive(s, m), m, Idx(m.seq_no))
<1> DEFINE is_next == IsNext(s, m.seq_no)
<1>1. Receive(s, m) = Accept(s, m, is_next)
  BY DEF Receive, TryError
<1>2. m \in Acceptable /\ is_next \in BOOLEAN
  BY DEF Acceptable, IsNext
<1>3. m.seq_cst => ~s.is_locked
  BY ReceiveType
<1>4. is_next => s.next_recv_seq_no = m.seq_no
  <2>1. s.next_recv_seq_no \in SeqNo /\ m.seq_no \in SeqNo
    BY <1>2, AcceptableFacts DEF SeqExState
  <2>2. m.seq_no = Wrap(s.next_recv_seq_no + Wrap(m.seq_no - s.next_recv_seq_no))
    BY <2>1, Ahead
  <2>3. is_next => m.seq_no = Wrap(s.next_recv_seq_no + 0)
    BY <2>2 DEF IsNext, Normalized
  <2>4. Wrap(s.next_recv_seq_no + 0) = s.next_recv_seq_no
    <3>1. s.next_recv_seq_no \in 0 .. SeqNoMod - 1 /\ SeqNoMod \in Nat
      BY <2>1, SeqNoAssumption DEF SeqNo
    <3> QED
      BY <3>1 DEF Wrap
  <2> QED
    BY <2>3, <2>4
<1> HIDE DEF is_next
<1> DEFINE k == IF is_next THEN Idx(s.next_recv_seq_no) ELSE Idx(m.seq_no)
<1>5. k = Idx(m.seq_no)
  BY <1>4
<1>6. Accepted(s, Accept(s, m, is_next), m, k)
  BY <1>2, <1>3, AcceptAccepted
<1> QED
  BY <1>1, <1>5, <1>6

\* try_pump_raw
LEMMA PumpAccepted ==
    ASSUME NEW s \in SeqExState, PumpOutcome(s) = "Deliver"
    PROVE  Accepted(s, Pump(s), NextEntry(s), Idx(s.next_recv_seq_no))
<1>1. Pump(s) = Accept(s, NextEntry(s), TRUE)
  BY DEF Pump
<1>2. NextEntry(s) \in Acceptable /\ (NextEntry(s).seq_cst => ~s.is_locked)
  BY PumpEntry DEF Acceptable
<1> DEFINE m == NextEntry(s)
<1> HIDE DEF m
<1>3. \A b \in BOOLEAN : b = TRUE =>
        Accepted(s, Accept(s, m, b), m, Idx(s.next_recv_seq_no))
  <2>1. SUFFICES ASSUME NEW b \in BOOLEAN, b = TRUE
                 PROVE  Accepted(s, Accept(s, m, b), m, Idx(s.next_recv_seq_no))
    OBVIOUS
  <2> DEFINE k == IF b THEN Idx(s.next_recv_seq_no) ELSE Idx(m.seq_no)
  <2>2. Accepted(s, Accept(s, m, b), m, k)
    BY <1>2, AcceptAccepted DEF m
  <2>3. k = Idx(s.next_recv_seq_no)
    BY <2>1
  <2> QED
    BY <2>2, <2>3
<1> QED
  BY <1>1, <1>3 DEF m

----------------------------------------------------------------------------
(***************************************************************************)
(* Who owns the reply numbers.  h counts for each number the owners that   *)
(* hold the lock, f the others, and l the SeqCstGuards.                    *)
(***************************************************************************)
Matches(h, f, l, s) ==
    /\ h \in [SeqNo -> Nat] /\ f \in [SeqNo -> Nat]
    /\ \A r \in SeqNo : h[r] + f[r] = Reservations(s, r)
    /\ \/ ~s.is_locked /\ l = 0 /\ \A r \in SeqNo : h[r] = 0
       \/ s.is_locked /\ l = 1 /\ \A r \in SeqNo : h[r] = 0
       \/ /\ s.is_locked /\ l = 0
          /\ \E q \in SeqNo : h[q] = 1 /\ \A r \in SeqNo \ {q} : h[r] = 0

\* k more owners of number n.
Plus(x, n, k) == [r \in SeqNo |-> x[r] + (IF r = n THEN k ELSE 0)]

LEMMA PlusFacts ==
    ASSUME NEW x \in [SeqNo -> Nat], NEW n \in SeqNo, NEW k \in Nat
    PROVE  /\ Plus(x, n, k) \in [SeqNo -> Nat] /\ Plus(x, n, k)[n] = x[n] + k
           /\ \A r \in SeqNo \ {n} : Plus(x, n, k)[r] = x[r]
           /\ k = 0 => Plus(x, n, k) = x
<1>1. \A r \in SeqNo : Plus(x, n, k)[r] = x[r] + (IF r = n THEN k ELSE 0)
  BY DEF Plus
<1>2. \A r \in SeqNo : x[r] + (IF r = n THEN k ELSE 0) \in Nat
  OBVIOUS
<1>3. Plus(x, n, k) \in [SeqNo -> Nat]
  BY <1>2 DEF Plus
<1>4. \A r \in SeqNo : x[r] \in Nat
  OBVIOUS
<1>5. k = 0 => \A r \in SeqNo : Plus(x, n, k)[r] = x[r]
  BY <1>1, <1>4
<1>6. k = 0 => Plus(x, n, k) = x
  <2>1. \A y, z \in [SeqNo -> Nat] : (\A r \in SeqNo : y[r] = z[r]) => y = z
    OBVIOUS
  <2> QED
    BY <1>3, <1>5, <2>1
<1> QED
  BY <1>1, <1>3, <1>4, <1>6

\* A number is issued, to an owner that holds the lock if i = 1 ...
LEMMA MatchesIssued ==
    ASSUME NEW h, NEW f, NEW l, NEW s \in SeqExState, Matches(h, f, l, s),
           NEW v \in SeqExState, NEW n \in SeqNo, NEW i \in {0, 1}, NEW j \in {0, 1}, i + j = 1,
           \A r \in SeqNo : Reservations(v, r) = Reservations(s, r) + (IF r = n THEN 1 ELSE 0),
           i = 1 => ~s.is_locked, v.is_locked = (s.is_locked \/ i = 1)
    PROVE  Matches(Plus(h, n, i), Plus(f, n, j), l, v)
<1> DEFINE hi == Plus(h, n, i)
           fj == Plus(f, n, j)
<1>1. h \in [SeqNo -> Nat] /\ f \in [SeqNo -> Nat] /\ i \in Nat /\ j \in Nat
  BY DEF Matches
<1>2. /\ hi \in [SeqNo -> Nat] /\ fj \in [SeqNo -> Nat]
      /\ hi[n] = h[n] + i /\ fj[n] = f[n] + j
      /\ \A r \in SeqNo \ {n} : hi[r] = h[r] /\ fj[r] = f[r]
      /\ i = 0 => hi = h
  <2>1. /\ hi \in [SeqNo -> Nat] /\ hi[n] = h[n] + i
        /\ \A r \in SeqNo \ {n} : hi[r] = h[r]
        /\ i = 0 => hi = h
    BY <1>1, PlusFacts
  <2>2. /\ fj \in [SeqNo -> Nat] /\ fj[n] = f[n] + j
        /\ \A r \in SeqNo \ {n} : fj[r] = f[r]
    BY <1>1, PlusFacts
  <2> QED
    BY <2>1, <2>2
<1> HIDE DEF hi, fj
<1>3. ASSUME NEW r \in SeqNo PROVE hi[r] + fj[r] = Reservations(v, r)
  <2>1. h[r] \in Nat /\ f[r] \in Nat /\ h[r] + f[r] = Reservations(s, r)
    BY <1>1 DEF Matches
  <2>2. CASE r = n
    BY <1>1, <1>2, <2>1, <2>2
  <2>3. CASE r # n
    BY <1>1, <1>2, <2>1, <2>3
  <2> QED
    BY <2>2, <2>3
<1>4. CASE i = 0
  <2>1. v.is_locked = s.is_locked
    BY <1>4 DEF SeqExState
  <2>2. Matches(hi, fj, l, v)
    BY <1>2, <1>3, <1>4, <2>1 DEF Matches
  <2> QED
    BY <2>2 DEF hi, fj
<1>5. CASE i = 1
  <2>1. v.is_locked /\ l = 0 /\ \A r \in SeqNo : h[r] = 0
    BY <1>5 DEF Matches
  <2>2. hi[n] = 1 /\ \A r \in SeqNo \ {n} : hi[r] = 0
    BY <1>2, <1>5, <2>1
  <2>3. Matches(hi, fj, l, v)
    BY <1>2, <1>3, <2>1, <2>2 DEF Matches
  <2> QED
    BY <2>3 DEF hi, fj
<1> QED
  BY <1>4, <1>5

\* ... and given back by its owner, with the lock ...
LEMMA MatchesRemoved ==
    ASSUME NEW h \in [SeqNo -> Nat], NEW f \in [SeqNo -> Nat], NEW l, NEW s \in SeqExState,
           NEW v \in SeqExState, NEW n \in SeqNo, NEW i \in {0, 1}, NEW j \in {0, 1}, i + j = 1,
           Matches(Plus(h, n, i), Plus(f, n, j), l, s),
           \A r \in SeqNo : Reservations(v, r) = Reservations(s, r) - (IF r = n THEN 1 ELSE 0),
           v.is_locked = (s.is_locked /\ i # 1)
    PROVE  Matches(h, f, l, v)
<1> DEFINE hi == Plus(h, n, i)
           fj == Plus(f, n, j)
<1>1. i \in Nat /\ j \in Nat
  OBVIOUS
<1>2. /\ hi \in [SeqNo -> Nat] /\ fj \in [SeqNo -> Nat]
      /\ hi[n] = h[n] + i /\ fj[n] = f[n] + j
      /\ \A r \in SeqNo \ {n} : hi[r] = h[r] /\ fj[r] = f[r]
      /\ i = 0 => hi = h
  <2>1. /\ hi \in [SeqNo -> Nat] /\ hi[n] = h[n] + i
        /\ \A r \in SeqNo \ {n} : hi[r] = h[r]
        /\ i = 0 => hi = h
    BY <1>1, PlusFacts
  <2>2. /\ fj \in [SeqNo -> Nat] /\ fj[n] = f[n] + j
        /\ \A r \in SeqNo \ {n} : fj[r] = f[r]
    BY <1>1, PlusFacts
  <2> QED
    BY <2>1, <2>2
<1> HIDE DEF hi, fj
<1>3. Matches(hi, fj, l, s)
  BY DEF hi, fj
<1>4. ASSUME NEW r \in SeqNo PROVE h[r] + f[r] = Reservations(v, r)
  <2>1. /\ h[r] \in Nat /\ f[r] \in Nat /\ hi[r] + fj[r] = Reservations(s, r)
    BY <1>3 DEF Matches
  <2>2. CASE r = n
    BY <1>1, <1>2, <2>1, <2>2
  <2>3. CASE r # n
    BY <1>1, <1>2, <2>1, <2>3
  <2> QED
    BY <2>2, <2>3
<1>5. CASE i = 0
  <2>1. v.is_locked = s.is_locked
    BY <1>5 DEF SeqExState
  <2> QED
    BY <1>2, <1>3, <1>4, <1>5, <2>1 DEF Matches
<1>6. CASE i = 1
  <2>1. h[n] \in Nat /\ hi[n] = h[n] + 1
    BY <1>2, <1>6
  <2>2. hi[n] # 0
    BY <2>1
  <2>3. l = 0 /\ \E q \in SeqNo : hi[q] = 1 /\ \A r \in SeqNo \ {q} : hi[r] = 0
    BY <1>3, <2>2 DEF Matches
  <2>4. hi[n] = 1 /\ \A r \in SeqNo \ {n} : hi[r] = 0
    BY <2>2, <2>3
  <2>5. \A r \in SeqNo : h[r] = 0
    BY <1>2, <2>1, <2>4
  <2> QED
    BY <1>4, <1>6, <2>3, <2>5 DEF Matches
<1> QED
  BY <1>5, <1>6

\* ... or but for the lock, which a SeqCstGuard keeps.
LEMMA MatchesKeepsLock ==
    ASSUME NEW h \in [SeqNo -> Nat], NEW f \in [SeqNo -> Nat], NEW l, NEW s \in SeqExState,
           NEW v \in SeqExState, NEW n \in SeqNo, Matches(Plus(h, n, 1), f, l, s),
           \A r \in SeqNo : Reservations(v, r) = Reservations(s, r) - (IF r = n THEN 1 ELSE 0),
           v.is_locked = s.is_locked
    PROVE  Matches(h, f, l + 1, v)
<1> DEFINE hi == Plus(h, n, 1)
<1>1. /\ hi \in [SeqNo -> Nat] /\ hi[n] = h[n] + 1
      /\ \A r \in SeqNo \ {n} : hi[r] = h[r]
  <2>1. 1 \in Nat /\ h \in [SeqNo -> Nat] /\ n \in SeqNo
    OBVIOUS
  <2> QED
    BY ONLY <2>1, PlusFacts
<1> HIDE DEF hi
<1>2. Matches(hi, f, l, s)
  BY DEF hi
<1>3. ASSUME NEW r \in SeqNo PROVE h[r] + f[r] = Reservations(v, r)
  <2>1. h[r] \in Nat /\ f[r] \in Nat /\ hi[r] + f[r] = Reservations(s, r)
    BY <1>2 DEF Matches
  <2>2. CASE r = n
    BY <1>1, <2>1, <2>2
  <2>3. CASE r # n
    BY <1>1, <2>1, <2>3
  <2> QED
    BY <2>2, <2>3
<1>4. h[n] \in Nat /\ hi[n] # 0
  BY <1>1
<1>5. s.is_locked /\ l = 0 /\ \E q \in SeqNo : hi[q] = 1 /\ \A r \in SeqNo \ {q} : hi[r] = 0
  BY <1>2, <1>4 DEF Matches
<1>6. hi[n] = 1 /\ \A r \in SeqNo \ {n} : hi[r] = 0
  BY <1>4, <1>5
<1>7. \A r \in SeqNo : h[r] = 0
  BY <1>1, <1>4, <1>6
<1> QED
  BY <1>3, <1>5, <1>7 DEF Matches

\* An owner gives the lock back, but not the number ...
LEMMA MatchesUnlocked ==
    ASSUME NEW h \in [SeqNo -> Nat], NEW f \in [SeqNo -> Nat], NEW l, NEW s \in SeqExState,
           NEW v \in SeqExState, NEW n \in SeqNo, Matches(Plus(h, n, 1), f, l, s),
           \A r \in SeqNo : Reservations(v, r) = Reservations(s, r), ~v.is_locked
    PROVE  Matches(h, Plus(f, n, 1), l, v)
<1> DEFINE hi == Plus(h, n, 1)
           fj == Plus(f, n, 1)
<1>1. /\ hi \in [SeqNo -> Nat] /\ hi[n] = h[n] + 1 /\ fj \in [SeqNo -> Nat] /\ fj[n] = f[n] + 1
      /\ \A r \in SeqNo \ {n} : hi[r] = h[r] /\ fj[r] = f[r]
  <2>1. 1 \in Nat
    OBVIOUS
  <2>2. /\ hi \in [SeqNo -> Nat] /\ hi[n] = h[n] + 1
        /\ \A r \in SeqNo \ {n} : hi[r] = h[r]
    BY <2>1, PlusFacts
  <2>3. /\ fj \in [SeqNo -> Nat] /\ fj[n] = f[n] + 1
        /\ \A r \in SeqNo \ {n} : fj[r] = f[r]
    BY <2>1, PlusFacts
  <2> QED
    BY <2>2, <2>3
<1> HIDE DEF hi, fj
<1>2. Matches(hi, f, l, s)
  BY DEF hi
<1>3. ASSUME NEW r \in SeqNo PROVE h[r] + fj[r] = Reservations(v, r)
  <2>1. h[r] \in Nat /\ f[r] \in Nat /\ hi[r] + f[r] = Reservations(s, r)
    BY <1>2 DEF Matches
  <2>2. CASE r = n
    BY <1>1, <2>1, <2>2
  <2>3. CASE r # n
    BY <1>1, <2>1, <2>3
  <2> QED
    BY <2>2, <2>3
<1>4. h[n] \in Nat /\ hi[n] # 0
  BY <1>1
<1>5. l = 0 /\ \E q \in SeqNo : hi[q] = 1 /\ \A r \in SeqNo \ {q} : hi[r] = 0
  BY <1>2, <1>4 DEF Matches
<1>6. hi[n] = 1 /\ \A r \in SeqNo \ {n} : hi[r] = 0
  BY <1>4, <1>5
<1>7. \A r \in SeqNo : h[r] = 0
  BY <1>1, <1>4, <1>6
<1>8. Matches(h, fj, l, v)
  BY <1>1, <1>3, <1>5, <1>7 DEF Matches
<1> QED
  BY <1>8 DEF fj

\* ... and so does a SeqCstGuard.
LEMMA MatchesDropsLock ==
    ASSUME NEW h, NEW f, NEW l \in Nat, l > 0, NEW s, NEW v, Matches(h, f, l, s),
           \A r \in SeqNo : Reservations(v, r) = Reservations(s, r), ~v.is_locked
    PROVE  Matches(h, f, l - 1, v)
BY DEF Matches

LEMMA SameMatches ==
    ASSUME NEW h, NEW f, NEW l, NEW s, NEW v, Matches(h, f, l, s), SameReplies(s, v)
    PROVE  Matches(h, f, l, v)
BY DEF Matches, SameReplies, Reservations

\* The calls that a result g was given to, and the owners among them and elsewhere: as
\* many as x says.
With(results, g) == {t \in Task : results[t] = g}
Hold(results, b, x) == [r \in SeqNo |-> Cardinality(With(results, Guard(r, b))) + x[r]]

\* A result replaced.
LEMMA WithTold ==
    ASSUME NEW results \in [Task -> Result], NEW u \in Task, NEW value, NEW g,
           results[u] # g, NEW told, told[u] = value,
           \A t \in Task \ {u} : told[t] = results[t]
    PROVE  /\ Cardinality(With(results, g)) \in Nat
           /\ value = g => Cardinality(With(told, g)) = Cardinality(With(results, g)) + 1
           /\ value # g => With(told, g) = With(results, g)
<1> DEFINE W == With(results, g)
           V == With(told, g)
<1>1. IsFiniteSet(W)
  <2>1. W \in SUBSET Task
    BY DEF With
  <2> QED
    BY <2>1, TaskAssumption, FS_Subset
<1>2. Cardinality(W) \in Nat
  BY <1>1, FS_CardinalityType
<1>4. u \notin W /\ V = IF value = g THEN W \cup {u} ELSE W
  BY DEF With
<1> HIDE DEF W, V
<1>5. CASE value = g
  <2>1. Cardinality(W \cup {u}) = Cardinality(W) + 1
    BY <1>1, <1>4, FS_AddElement
  <2> QED
    BY <1>2, <1>4, <1>5, <2>1 DEF W, V
<1>6. CASE value # g
  BY <1>2, <1>4, <1>6 DEF W, V
<1> QED
  BY <1>5, <1>6

LEMMA HoldType ==
    ASSUME NEW results \in [Task -> Result], NEW b \in BOOLEAN, NEW x \in [SeqNo -> Nat]
    PROVE  Hold(results, b, x) \in [SeqNo -> Nat]
<1>1. SUFFICES ASSUME NEW r \in SeqNo
               PROVE  Cardinality(With(results, Guard(r, b))) + x[r] \in Nat
  BY DEF Hold
<1>2. With(results, Guard(r, b)) \in SUBSET Task
  BY DEF With
<1>3. Cardinality(With(results, Guard(r, b))) \in Nat
  BY <1>2, TaskAssumption, FS_Subset, FS_CardinalityType
<1> QED
  BY <1>3

\* One owner more elsewhere.
LEMMA HoldPlus ==
    ASSUME NEW results \in [Task -> Result], NEW b \in BOOLEAN, NEW x \in [SeqNo -> Nat],
           NEW n \in SeqNo, NEW k \in Nat
    PROVE  Hold(results, b, Plus(x, n, k)) = Plus(Hold(results, b, x), n, k)
<1> DEFINE N(r) == Cardinality(With(results, Guard(r, b)))
           y == Plus(x, n, k)
<1>1. \A r \in SeqNo : N(r) \in Nat
  <2>1. ASSUME NEW r \in SeqNo PROVE N(r) \in Nat
    <3>1. With(results, Guard(r, b)) \in SUBSET Task
      BY DEF With
    <3> QED
      BY <3>1, TaskAssumption, FS_Subset, FS_CardinalityType
  <2> QED
    BY <2>1
<1>2. Hold(results, b, x) = [r \in SeqNo |-> N(r) + x[r]]
      /\ Hold(results, b, y) = [r \in SeqNo |-> N(r) + y[r]]
  BY DEF Hold
<1>3. \A r \in SeqNo : y[r] = x[r] + (IF r = n THEN k ELSE 0)
  BY DEF Plus
<1> HIDE DEF N, y
<1>4. \A r \in SeqNo : N(r) + y[r] = (N(r) + x[r]) + (IF r = n THEN k ELSE 0)
  <2>1. SUFFICES ASSUME NEW r \in SeqNo
                 PROVE  N(r) + y[r] = (N(r) + x[r]) + (IF r = n THEN k ELSE 0)
    OBVIOUS
  <2>2. N(r) \in Nat /\ x[r] \in Nat /\ k \in Nat
    BY <1>1
  <2>3. CASE r = n
    BY <1>3, <2>2, <2>3
  <2>4. CASE r # n
    BY <1>3, <2>2, <2>4
  <2> QED
    BY <2>3, <2>4
<1> DEFINE hx == Hold(results, b, x)
<1>5. \A r \in SeqNo : hx[r] = N(r) + x[r]
  BY <1>2
<1> HIDE DEF hx
<1>6. Plus(hx, n, k) = [r \in SeqNo |-> (N(r) + x[r]) + (IF r = n THEN k ELSE 0)]
  BY <1>5 DEF Plus
<1>7. Plus(hx, n, k) = [r \in SeqNo |-> N(r) + y[r]]
  BY <1>4, <1>6
<1> QED
  BY <1>2, <1>7 DEF hx, y

\* For those that hold the lock and for the others.
LEMMA HoldPlusBoth ==
    ASSUME NEW results \in [Task -> Result], NEW xh \in [SeqNo -> Nat], NEW xf \in [SeqNo -> Nat],
           NEW n \in SeqNo, NEW i \in Nat, NEW j \in Nat
    PROVE  \A b \in BOOLEAN :
             /\ Hold(results, b, Plus(xh, n, i)) = Plus(Hold(results, b, xh), n, i)
             /\ Hold(results, b, Plus(xf, n, j)) = Plus(Hold(results, b, xf), n, j)
BY HoldPlus

\* A call is handed a guard.
LEMMA HoldGuard ==
    ASSUME NEW results \in [Task -> Result], NEW u \in Task, results[u] \notin ReplyGuard,
           NEW n \in SeqNo, NEW c \in BOOLEAN, NEW b \in BOOLEAN, NEW x \in [SeqNo -> Nat],
           NEW k \in {0, 1}, k = 1 <=> b = c,
           NEW told, told[u] = Guard(n, c), \A t \in Task \ {u} : told[t] = results[t]
    PROVE  Hold(told, b, x) = Plus(Hold(results, b, x), n, k)
<1> DEFINE N(r) == Cardinality(With(results, Guard(r, b)))
           V(r) == Cardinality(With(told, Guard(r, b)))
<1>1. ASSUME NEW r \in SeqNo
      PROVE  N(r) \in Nat /\ V(r) = N(r) + (IF r = n THEN k ELSE 0)
  <2>1. results[u] # Guard(r, b)
    <3>1. Guard(r, b) \in ReplyGuard
      BY GuardFacts
    <3> QED
      BY <3>1
  <2>2. N(r) \in Nat /\ V(r) = N(r) + (IF Guard(n, c) = Guard(r, b) THEN 1 ELSE 0)
    <3> DEFINE g == Guard(r, b)
               value == Guard(n, c)
    <3>1. results[u] # g
      BY <2>1
    <3>2. told[u] = value /\ \A t \in Task \ {u} : told[t] = results[t]
      OBVIOUS
    <3> HIDE DEF g, value
    <3>3. /\ Cardinality(With(results, g)) \in Nat
          /\ value = g => Cardinality(With(told, g)) = Cardinality(With(results, g)) + 1
          /\ value # g => With(told, g) = With(results, g)
      <4>1. results \in [Task -> Result] /\ u \in Task
        OBVIOUS
      <4>2. Cardinality(With(results, g)) \in Nat
        BY ONLY <3>1, <3>2, <4>1, WithTold
      <4> QED
        BY ONLY <3>1, <3>2, <4>1, <4>2, WithTold
    <3>4. Cardinality(With(told, g))
            = Cardinality(With(results, g)) + (IF value = g THEN 1 ELSE 0)
      <4>1. CASE value = g
        BY <3>3, <4>1
      <4>2. CASE value # g
        BY <3>3, <4>2
      <4> QED
        BY <4>1, <4>2
    <3> QED
      BY <3>3, <3>4 DEF g, value
  <2>3. Guard(n, c) = Guard(r, b) <=> n = r /\ c = b
    BY GuardFacts
  <2> HIDE DEF N, V
  <2>4. CASE n = r /\ c = b
    BY <2>2, <2>3, <2>4
  <2>5. CASE n = r /\ c # b
    BY <2>2, <2>3, <2>5
  <2>6. CASE n # r
    BY <2>2, <2>3, <2>6
  <2> QED
    BY <2>4, <2>5, <2>6
<1>2. Hold(results, b, x) = [r \in SeqNo |-> N(r) + x[r]]
      /\ Hold(told, b, x) = [r \in SeqNo |-> V(r) + x[r]]
  BY DEF Hold
<1> HIDE DEF N, V
<1>3. \A r \in SeqNo : V(r) + x[r] = (N(r) + x[r]) + (IF r = n THEN k ELSE 0)
  <2>1. SUFFICES ASSUME NEW r \in SeqNo
                 PROVE  V(r) + x[r] = (N(r) + x[r]) + (IF r = n THEN k ELSE 0)
    OBVIOUS
  <2>2. x[r] \in Nat /\ N(r) \in Nat /\ V(r) = N(r) + (IF r = n THEN k ELSE 0)
    BY <1>1
  <2>3. CASE r = n
    BY <2>2, <2>3
  <2>4. CASE r # n
    BY <2>2, <2>4
  <2> QED
    BY <2>3, <2>4
<1> DEFINE hx == Hold(results, b, x)
<1>4. \A r \in SeqNo : hx[r] = N(r) + x[r]
  BY <1>2
<1> HIDE DEF hx
<1>5. Plus(hx, n, k) = [r \in SeqNo |-> (N(r) + x[r]) + (IF r = n THEN k ELSE 0)]
  BY <1>4 DEF Plus
<1>6. Plus(hx, n, k) = [r \in SeqNo |-> V(r) + x[r]]
  BY <1>3, <1>5
<1> QED
  BY <1>2, <1>6 DEF hx

\* A result that is no guard replaces another.
LEMMA HoldOther ==
    ASSUME NEW results \in [Task -> Result], NEW u \in Task, results[u] \notin ReplyGuard,
           NEW value, value \notin ReplyGuard, NEW b \in BOOLEAN, NEW x \in [SeqNo -> Nat],
           NEW told, told[u] = value, \A t \in Task \ {u} : told[t] = results[t]
    PROVE  Hold(told, b, x) = Hold(results, b, x)
<1>1. ASSUME NEW r \in SeqNo PROVE With(told, Guard(r, b)) = With(results, Guard(r, b))
  BY GuardFacts DEF With
<1>2. Hold(told, b, x) = Hold(results, b, x)
  BY <1>1 DEF Hold
<1> QED
  BY <1>2

\* The owners are those whom a result was given to, and as many as xh and xf say elsewhere.
OwnersMatch(s, results, xh, xf, l) ==
    Matches(Hold(results, TRUE, xh), Hold(results, FALSE, xf), l, s)

\* An owner counts as one that holds the lock, if c says so, or as one that does not.
Split(c, i, j) == i \in {0, 1} /\ j \in {0, 1} /\ i + j = 1 /\ (i = 1 <=> c)

LEMMA SplitExists ==
    ASSUME NEW c \in BOOLEAN
    PROVE  \E i, j \in Nat : Split(c, i, j)
<1>1. CASE c
  <2>1. Split(c, 1, 0)
    BY <1>1 DEF Split
  <2> QED
    BY <2>1
<1>2. CASE ~c
  <2>1. Split(c, 0, 1)
    BY <1>2 DEF Split
  <2> QED
    BY <2>1
<1> QED
  BY <1>1, <1>2

\* A packet is issued, to nobody yet.
LEMMA OwnersIssued ==
    ASSUME NEW s \in SeqExState, NEW v \in SeqExState, NEW results \in [Task -> Result],
           NEW xh \in [SeqNo -> Nat], NEW xf \in [SeqNo -> Nat], NEW l,
           OwnersMatch(s, results, xh, xf, l),
           NEW n \in SeqNo, NEW c \in BOOLEAN, NEW i \in Nat, NEW j \in Nat, Split(c, i, j),
           Issues(s, v, n, c), c => ~s.is_locked
    PROVE  OwnersMatch(v, results, Plus(xh, n, i), Plus(xf, n, j), l)
<1> DEFINE h == Hold(results, TRUE, xh)
           f == Hold(results, FALSE, xf)
<1>1. Matches(h, f, l, s)
  BY DEF OwnersMatch
<1>2. Hold(results, TRUE, Plus(xh, n, i)) = Plus(h, n, i)
      /\ Hold(results, FALSE, Plus(xf, n, j)) = Plus(f, n, j)
  <2>1. \A b \in BOOLEAN :
          /\ Hold(results, b, Plus(xh, n, i)) = Plus(Hold(results, b, xh), n, i)
          /\ Hold(results, b, Plus(xf, n, j)) = Plus(Hold(results, b, xf), n, j)
    BY HoldPlusBoth
  <2> QED
    BY ONLY <2>1
<1> HIDE DEF h, f
<1>3. i \in {0, 1} /\ j \in {0, 1} /\ i + j = 1 /\ (i = 1 <=> c)
  BY DEF Split
<1>4. \A r \in SeqNo : Reservations(v, r) = Reservations(s, r) + (IF r = n THEN 1 ELSE 0)
  BY ReservationsIssued
<1>5. v.is_locked = (s.is_locked \/ i = 1)
  BY <1>3 DEF Issues
<1>6. i = 1 => ~s.is_locked
  BY <1>3
<1>7. Matches(Plus(h, n, i), Plus(f, n, j), l, v)
  BY <1>1, <1>3, <1>4, <1>5, <1>6, MatchesIssued
<1> QED
  BY <1>2, <1>7 DEF OwnersMatch

\* A call is told that there is no reply.
LEMMA OwnersTold ==
    ASSUME NEW s, NEW results \in [Task -> Result],
           NEW xh \in [SeqNo -> Nat], NEW xf \in [SeqNo -> Nat], NEW l,
           OwnersMatch(s, results, xh, xf, l),
           NEW u \in Data, u \in Task => results[u] \notin ReplyGuard,
           NEW value, value \notin ReplyGuard
    PROVE  OwnersMatch(s, Told(results, u, value), xh, xf, l)
<1>1. CASE u = Nobody
  BY <1>1 DEF Told, Listens
<1>2. CASE u # Nobody
  <2> DEFINE told == [results EXCEPT ![u] = value]
  <2>1. u \in Task /\ Told(results, u, value) = told
    BY <1>2, TaskAssumption DEF Told, Listens
  <2>2. told[u] = value /\ \A t \in Task \ {u} : told[t] = results[t]
    BY <2>1
  <2> HIDE DEF told
  <2>0. results[u] \notin ReplyGuard
    BY <2>1
  <2>3. \A b \in BOOLEAN : Hold(told, b, xh) = Hold(results, b, xh)
    BY <2>0, <2>1, <2>2, HoldOther
  <2>4. \A b \in BOOLEAN : Hold(told, b, xf) = Hold(results, b, xf)
    BY <2>0, <2>1, <2>2, HoldOther
  <2> QED
    BY <2>1, <2>3, <2>4 DEF OwnersMatch
<1> QED
  BY <1>1, <1>2

\* A call with a guard for its result is the owner that it would leave.
LEMMA OwnersMoved ==
    ASSUME NEW s, NEW results \in [Task -> Result],
           NEW xh \in [SeqNo -> Nat], NEW xf \in [SeqNo -> Nat], NEW l,
           NEW n \in SeqNo, NEW c \in BOOLEAN, NEW i \in Nat, NEW j \in Nat, Split(c, i, j),
           NEW u \in Task, results[u] \notin ReplyGuard,
           NEW told, told[u] = Guard(n, c), \A t \in Task \ {u} : told[t] = results[t]
    PROVE  OwnersMatch(s, told, xh, xf, l)
             <=> OwnersMatch(s, results, Plus(xh, n, i), Plus(xf, n, j), l)
<1>1. i \in {0, 1} /\ j \in {0, 1} /\ (i = 1 <=> c) /\ (j = 1 <=> ~c)
  BY DEF Split
<1>2. Hold(told, TRUE, xh) = Plus(Hold(results, TRUE, xh), n, i)
  <2>1. \A b \in BOOLEAN : b = TRUE => Hold(told, b, xh) = Plus(Hold(results, b, xh), n, i)
    <3>1. SUFFICES ASSUME NEW b \in BOOLEAN, b = TRUE
                   PROVE  Hold(told, b, xh) = Plus(Hold(results, b, xh), n, i)
      OBVIOUS
    <3>2. i = 1 <=> b = c
      BY <1>1, <3>1
    <3> QED
      BY <1>1, <3>2, HoldGuard
  <2> QED
    BY <2>1
<1>3. Hold(told, FALSE, xf) = Plus(Hold(results, FALSE, xf), n, j)
  <2>1. \A b \in BOOLEAN : b = FALSE => Hold(told, b, xf) = Plus(Hold(results, b, xf), n, j)
    <3>1. SUFFICES ASSUME NEW b \in BOOLEAN, b = FALSE
                   PROVE  Hold(told, b, xf) = Plus(Hold(results, b, xf), n, j)
      OBVIOUS
    <3>2. j = 1 <=> b = c
      BY <1>1, <3>1
    <3> QED
      BY <1>1, <3>2, HoldGuard
  <2> QED
    BY <2>1
<1>4. Hold(results, TRUE, Plus(xh, n, i)) = Plus(Hold(results, TRUE, xh), n, i)
      /\ Hold(results, FALSE, Plus(xf, n, j)) = Plus(Hold(results, FALSE, xf), n, j)
  <2>1. \A b \in BOOLEAN :
          /\ Hold(results, b, Plus(xh, n, i)) = Plus(Hold(results, b, xh), n, i)
          /\ Hold(results, b, Plus(xf, n, j)) = Plus(Hold(results, b, xf), n, j)
    BY HoldPlusBoth
  <2> QED
    BY ONLY <2>1
<1> QED
  BY <1>2, <1>3, <1>4 DEF OwnersMatch

\* A call is handed a guard: it is the owner that nobody was yet.
LEMMA OwnersGuard ==
    ASSUME NEW s, NEW results \in [Task -> Result],
           NEW xh \in [SeqNo -> Nat], NEW xf \in [SeqNo -> Nat], NEW l,
           NEW n \in SeqNo, NEW c \in BOOLEAN, NEW i \in Nat, NEW j \in Nat, Split(c, i, j),
           OwnersMatch(s, results, Plus(xh, n, i), Plus(xf, n, j), l),
           NEW u \in Task, results[u] \notin ReplyGuard
    PROVE  OwnersMatch(s, [results EXCEPT ![u] = Guard(n, c)], xh, xf, l)
<1> DEFINE told == [results EXCEPT ![u] = Guard(n, c)]
<1>1. told[u] = Guard(n, c) /\ \A t \in Task \ {u} : told[t] = results[t]
  OBVIOUS
<1> HIDE DEF told
<1>2. OwnersMatch(s, told, xh, xf, l)
  BY <1>1, OwnersMoved
<1> QED
  BY <1>2 DEF told

\* The owner gives its number back: v is s without one reservation of n, and the lock is
\* released if c says so.
LEMMA OwnersRemoved ==
    ASSUME NEW s \in SeqExState, NEW v \in SeqExState, NEW results \in [Task -> Result],
           NEW xh \in [SeqNo -> Nat], NEW xf \in [SeqNo -> Nat], NEW l,
           NEW n \in SeqNo, NEW c \in BOOLEAN, NEW i \in Nat, NEW j \in Nat, Split(c, i, j),
           OwnersMatch(s, results, Plus(xh, n, i), Plus(xf, n, j), l),
           \A r \in SeqNo : Reservations(v, r) = Reservations(s, r) - (IF r = n THEN 1 ELSE 0),
           v.is_locked = (s.is_locked /\ ~c)
    PROVE  OwnersMatch(v, results, xh, xf, l)
<1> DEFINE h == Hold(results, TRUE, xh)
           f == Hold(results, FALSE, xf)
<1>1. Hold(results, TRUE, Plus(xh, n, i)) = Plus(h, n, i)
      /\ Hold(results, FALSE, Plus(xf, n, j)) = Plus(f, n, j)
  <2>1. \A b \in BOOLEAN :
          /\ Hold(results, b, Plus(xh, n, i)) = Plus(Hold(results, b, xh), n, i)
          /\ Hold(results, b, Plus(xf, n, j)) = Plus(Hold(results, b, xf), n, j)
    BY HoldPlusBoth
  <2> QED
    BY ONLY <2>1
<1>2. h \in [SeqNo -> Nat] /\ f \in [SeqNo -> Nat]
  BY HoldType
<1> HIDE DEF h, f
<1>3. Matches(Plus(h, n, i), Plus(f, n, j), l, s)
  BY <1>1 DEF OwnersMatch
<1>4. i \in {0, 1} /\ j \in {0, 1} /\ i + j = 1 /\ (i = 1 <=> c)
  BY DEF Split
<1>5. v.is_locked = (s.is_locked /\ i # 1)
  BY <1>4
<1>6. Matches(h, f, l, v)
  BY <1>2, <1>3, <1>4, <1>5, MatchesRemoved
<1> QED
  BY <1>6 DEF OwnersMatch, h, f

\* An owner is one because a reservation is its own.
LEMMA OwnedReserved ==
    ASSUME NEW s \in SeqExState, NEW results \in [Task -> Result],
           NEW xh \in [SeqNo -> Nat], NEW xf \in [SeqNo -> Nat], NEW l,
           NEW n \in SeqNo, NEW i \in {0, 1}, NEW j \in {0, 1}, i + j = 1,
           OwnersMatch(s, results, Plus(xh, n, i), Plus(xf, n, j), l)
    PROVE  Reserved(s, n)
<1> DEFINE h == Hold(results, TRUE, xh)
           f == Hold(results, FALSE, xf)
           hi == Plus(h, n, i)
           fj == Plus(f, n, j)
<1>1. i \in Nat /\ j \in Nat
  OBVIOUS
<1>2. Hold(results, TRUE, Plus(xh, n, i)) = hi /\ Hold(results, FALSE, Plus(xf, n, j)) = fj
  <2>1. \A b \in BOOLEAN :
          /\ Hold(results, b, Plus(xh, n, i)) = Plus(Hold(results, b, xh), n, i)
          /\ Hold(results, b, Plus(xf, n, j)) = Plus(Hold(results, b, xf), n, j)
    BY <1>1, HoldPlusBoth
  <2> QED
    BY ONLY <2>1 DEF hi, fj
<1>3. h \in [SeqNo -> Nat] /\ f \in [SeqNo -> Nat]
  BY HoldType
<1> HIDE DEF h, f
<1>4. hi[n] = h[n] + i
  BY <1>1, <1>3, PlusFacts
<1>5. fj[n] = f[n] + j
  BY <1>1, <1>3, PlusFacts
<1> HIDE DEF hi, fj
<1>6. hi[n] + fj[n] = Reservations(s, n)
  BY <1>2 DEF OwnersMatch, Matches
<1>7. h[n] \in Nat /\ f[n] \in Nat
  BY <1>3
<1>8. Reservations(s, n) > 0
  BY <1>4, <1>5, <1>6, <1>7
<1> QED
  BY <1>8, ReservationsType

\* The reservations after one of number n was removed.
LEMMA RemovedReservations ==
    ASSUME NEW s \in SeqExState, NEW n \in SeqNo, Reserved(s, n), NEW v,
           v.concurrent_replies = RemoveReservation(s, n).concurrent_replies
    PROVE  \A r \in SeqNo : Reservations(v, r) = Reservations(s, r) - (IF r = n THEN 1 ELSE 0)
<1>1. SUFFICES ASSUME NEW r \in SeqNo
               PROVE  Reservations(v, r) = Reservations(s, r) - (IF r = n THEN 1 ELSE 0)
  OBVIOUS
<1>2. Reservations(v, r) = Reservations(RemoveReservation(s, n), r)
  BY DEF Reservations
<1> QED
  BY <1>2, ReservationsRemoved

\* The packet m, issued in s and owned by nobody yet, is for the call of task "to".
InHand(s, results, sent, xh, xf, l, m, to) ==
    /\ s \in SeqExState /\ results \in [Task -> Result] /\ Calls(s, results, sent)
    /\ xh \in [SeqNo -> Nat] /\ xf \in [SeqNo -> Nat]
    /\ m.seq_no \in SeqNo /\ m.seq_cst \in BOOLEAN /\ FromRemote(m)
    /\ \E i, j \in Nat : /\ Split(m.seq_cst, i, j)
                         /\ OwnersMatch(s, results, Plus(xh, m.seq_no, i), Plus(xf, m.seq_no, j), l)
    /\ to \in Data
    /\ to \in Task => /\ results[to] = Pending /\ Free(s, to)
                      /\ sent[to] # None => sent[to] = m.reply_no

\* receive_inner hands a packet over, or acks it.
LEMMA HandOverHeld ==
    ASSUME NEW s, NEW results, NEW sent, NEW xh, NEW xf, NEW l, NEW m, NEW to,
           InHand(s, results, sent, xh, xf, l, m, to),
           NEW v, v = HandOver(s, results, m, to)
    PROVE  /\ Calls(v.seq, v.result, sent) /\ OwnersMatch(v.seq, v.result, xh, xf, l)
           /\ Fewer(s, v.seq)
           /\ \A w \in Task : w # to => v.result[w] = results[w]
<1>0. PICK i \in Nat, j \in Nat : /\ Split(m.seq_cst, i, j)
                                  /\ OwnersMatch(s, results, Plus(xh, m.seq_no, i),
                                                 Plus(xf, m.seq_no, j), l)
  BY DEF InHand
<1>3. /\ s \in SeqExState /\ results \in [Task -> Result] /\ Calls(s, results, sent)
      /\ xh \in [SeqNo -> Nat] /\ xf \in [SeqNo -> Nat]
      /\ m.seq_no \in SeqNo /\ m.seq_cst \in BOOLEAN /\ FromRemote(m)
      /\ to \in Data
      /\ to \in Task => /\ results[to] = Pending /\ Free(s, to)
                        /\ sent[to] # None => sent[to] = m.reply_no
  BY DEF InHand
<1> DEFINE n == m.seq_no
           c == m.seq_cst
           g == Guard(n, c)
<1>1. CASE to # Nobody
  <2> DEFINE told == [results EXCEPT ![to] = g]
  <2>1. to \in Task /\ v.seq = s /\ v.result = told /\ Told(results, to, g) = told
    BY <1>0, <1>3, <1>1, TaskAssumption DEF HandOver, Told, Listens
  <2>2. g \in ReplyGuard /\ g.reply_no = n
        /\ EndOfExchange \notin ReplyGuard /\ SeqExClosed \notin ReplyGuard /\ Pending \notin ReplyGuard
    BY <1>0, <1>3, GuardFacts
  <2>3. OwnersMatch(s, told, xh, xf, l)
    <3>1. results[to] \notin ReplyGuard
      BY <1>0, <1>3, <2>1, <2>2
    <3>2. n \in SeqNo /\ c \in BOOLEAN /\ Split(c, i, j)
          /\ OwnersMatch(s, results, Plus(xh, n, i), Plus(xf, n, j), l)
      BY <1>0, <1>3
    <3> HIDE DEF n, c, told
    <3>3. OwnersMatch(s, [results EXCEPT ![to] = Guard(n, c)], xh, xf, l)
      BY <1>0, <1>3, <2>1, <3>1, <3>2, OwnersGuard
    <3> QED
      BY <1>0, <1>3, <3>3 DEF told
  <2> HIDE DEF g
  <2>4. sent[to] # None => Answers(g, sent[to])
    BY <1>0, <1>3, <2>1, <2>2 DEF Answers, FromRemote
  <2>5. Calls(s, told, sent)
    <3>1. Calls(s, Told(results, to, g), sent)
      BY <1>0, <1>3, <2>1, <2>4, CallsTold
    <3> QED
      BY <1>0, <1>3, <2>1, <3>1
  <2>6. \A w \in Task : w # to => told[w] = results[w]
    OBVIOUS
  <2> HIDE DEF told
  <2> QED
    BY <1>0, <1>3, <2>1, <2>5, <2>6, <2>3, SameFewer
<1>2. CASE to = Nobody
  <2> DEFINE u == AckRaw(s, n, c)
  <2>1. v.seq = u /\ v.result = results
    BY <1>0, <1>3, <1>2 DEF HandOver, Listens
  <2>2. u \in SeqExState /\ u.send_window = s.send_window /\ u.recv_window = s.recv_window
    BY <1>0, <1>3, AckRawKeeps DEF SameSendSide
  <2>3. Reserved(s, n)
    BY <1>0, <1>3, OwnedReserved DEF Split
  <2>4. /\ u.concurrent_replies = RemoveReservation(s, n).concurrent_replies
        /\ u.is_locked = (s.is_locked /\ ~c)
    BY <1>0, <1>3, <2>3, AckRawType
  <2> HIDE DEF u, c, n
  <2>5. n \in SeqNo /\ c \in BOOLEAN /\ Split(c, i, j)
        /\ OwnersMatch(s, results, Plus(xh, n, i), Plus(xf, n, j), l)
    BY <1>0, <1>3 DEF c, n
  <2>6. \A r \in SeqNo : Reservations(u, r) = Reservations(s, r) - (IF r = n THEN 1 ELSE 0)
    BY <1>0, <1>3, <2>3, <2>4, <2>5, RemovedReservations
  <2>7. OwnersMatch(u, results, xh, xf, l)
    BY <1>0, <1>3, <2>2, <2>4, <2>5, <2>6, OwnersRemoved
  <2>8. Fewer(s, u)
    BY <1>0, <1>3, <2>2, SameFewer
  <2>9. Calls(u, results, sent)
    BY <1>0, <1>3, <2>8, CallsFewer
  <2> QED
    BY <1>0, <1>3, <2>1, <2>7, <2>8, <2>9
<1> QED
  BY <1>1, <1>2

\* The call whose packet is taken out of the receive window ...
LEMMA SaverTaken ==
    ASSUME NEW s \in SeqExState, NEW v, Fewer(s, v), NEW results, NEW sent,
           Calls(s, results, sent), NEW i \in Slots,
           s.recv_window[i].tag = "Occupied", v.recv_window[i].tag # "Occupied",
           NEW u, u = s.recv_window[i].data
    PROVE  u \in Data /\ (u \in Task => results[u] = Pending /\ sent[u] = None /\ Free(v, u)
                                        /\ ~Free(s, u))
<1>1. u = SavedBy(s, i)
  BY DEF SavedBy
<1>2. u \in Data
  BY <1>1, StoredType
<1>3. ASSUME u \in Task PROVE results[u] = Pending /\ sent[u] = None /\ Free(v, u) /\ ~Free(s, u)
  <2>1. SavedBy(s, i) # Nobody
    BY <1>1, <1>3, TaskAssumption
  <2>2. results[u] = Pending /\ sent[u] = None
    BY <1>1, <2>1 DEF Calls, Saving
  <2>3. Free(v, SavedBy(s, i))
    BY <2>1, SaverFreed
  <2>4. ~Free(s, u)
    BY <1>1 DEF Free
  <2> QED
    BY <1>1, <2>2, <2>3, <2>4
<1> QED
  BY <1>2, <1>3

\* ... and the one whose packet was replied to.
LEMMA SenderTaken ==
    ASSUME NEW s \in SeqExState, NEW v, Fewer(s, v), NEW results, NEW sent,
           Calls(s, results, sent), NEW r \in SeqNo, SentEntry(s, r) # None, SentEntry(v, r) = None,
           NEW u, u = SentEntry(s, r).data
    PROVE  u \in Data /\ (u \in Task => results[u] = Pending /\ sent[u] = r /\ Free(v, u)
                                        /\ ~Free(s, u))
<1> DEFINE i == Idx(r)
<1>1. i \in Slots
  BY IdxType DEF Slots
<1>2. s.send_window[i] # None /\ s.send_window[i].seq_no = r /\ u = SentBy(s, i)
  BY DEF SentEntry, SentBy
<1>3. v.send_window[i] = None
  <2>1. SUFFICES ASSUME v.send_window[i] # None PROVE FALSE
    OBVIOUS
  <2>2. v.send_window[i].seq_no = r
    BY <1>1, <1>2, <2>1 DEF Fewer
  <2> QED
    BY <2>1, <2>2 DEF SentEntry
<1> HIDE DEF i
<1>4. u \in Data
  BY <1>1, <1>2, StoredType
<1>5. ASSUME u \in Task PROVE results[u] = Pending /\ sent[u] = r /\ Free(v, u) /\ ~Free(s, u)
  <2>1. SentBy(s, i) # Nobody
    BY <1>2, <1>5, TaskAssumption
  <2>2. results[u] = Pending /\ sent[u] = r
    BY <1>1, <1>2, <2>1 DEF Calls, Sending
  <2>3. Free(v, SentBy(s, i))
    BY <1>1, <1>3, <2>1, SenderFreed
  <2>4. ~Free(s, u)
    BY <1>1, <1>2 DEF Free
  <2> QED
    BY <1>2, <2>2, <2>3, <2>4
<1> QED
  BY <1>4, <1>5

\* What a turn of the pump loop does, and the loop: the calls whose packets it takes are told.
Tells(s, results, v, told) ==
    Fewer(s, v) /\ \A w \in Task : Free(s, w) => told[w] = results[w]

LEMMA PumpTurnHeld ==
    ASSUME NEW r \in LoopStates, PumpOutcome(r.seq) = "Deliver", NEW sent,
           NEW xh \in [SeqNo -> Nat], NEW xf \in [SeqNo -> Nat], NEW l,
           Calls(r.seq, r.result, sent), OwnersMatch(r.seq, r.result, xh, xf, l)
    PROVE  LET q == PumpTurn(r)
           IN  /\ Calls(q.seq, q.result, sent) /\ OwnersMatch(q.seq, q.result, xh, xf, l)
               /\ Tells(r.seq, r.result, q.seq, q.result)
<1> DEFINE m == NextEntry(r.seq)
           k == Idx(r.seq.next_recv_seq_no)
           s == Pump(r.seq)
           sender == TakenData(r.seq, m.reply_no)
           closed == Told(r.result, m.data, SeqExClosed)
           handed == IF sender = None THEN HandOver(s, r.result, m, m.data)
                     ELSE HandOver(s, closed, m, sender)
           q == PumpTurn(r)
<1>1. r.seq \in SeqExState /\ r.result \in [Task -> Result]
  BY DEF LoopStates
<1>2. q.seq = handed.seq /\ q.result = handed.result
  BY DEF PumpTurn
<1>3. m \in OccupiedEntry
  BY <1>1, PumpEntry
<1>4. /\ m.tag = "Occupied" /\ m.seq_no \in SeqNo /\ m.reply_no \in OptSeqNo
      /\ m.seq_cst \in BOOLEAN /\ m.data \in Data
  BY <1>3 DEF OccupiedEntry
<1>5. k \in Slots /\ m = r.seq.recv_window[k]
  BY <1>1, IdxType DEF NextEntry, SeqExState, Slots
<1>6. Accepted(r.seq, s, m, k)
  BY <1>1, PumpAccepted
<1> HIDE DEF m, k, s, sender, closed, handed, q
<1>7. /\ s \in SeqExState /\ Fewer(r.seq, s) /\ Issues(r.seq, s, m.seq_no, m.seq_cst)
      /\ m.seq_cst => ~r.seq.is_locked
      /\ s.recv_window[k].tag # "Occupied"
      /\ m.reply_no # None => SentEntry(s, m.reply_no) = None
  BY <1>6 DEF Accepted
<1>8. FromRemote(m)
  BY <1>4, <1>5 DEF Calls, Saved
<1>9. Calls(s, r.result, sent)
  BY <1>7, CallsFewer
<1>10. PICK i \in Nat, j \in Nat : Split(m.seq_cst, i, j)
  BY <1>4, SplitExists
<1> DEFINE ph == Plus(xh, m.seq_no, i)
           pf == Plus(xf, m.seq_no, j)
<1>11. ph \in [SeqNo -> Nat] /\ pf \in [SeqNo -> Nat]
  BY <1>4, PlusFacts
<1>12. OwnersMatch(s, r.result, ph, pf, l)
  BY <1>1, <1>4, <1>7, <1>10, OwnersIssued
<1>13. m.data \in Task => /\ r.result[m.data] = Pending /\ sent[m.data] = None
                          /\ Free(s, m.data) /\ ~Free(r.seq, m.data)
  BY <1>1, <1>4, <1>5, <1>7, SaverTaken
<1> HIDE DEF ph, pf
<1>14. CASE sender = None
  <2> DEFINE v == HandOver(s, r.result, m, m.data)
  <2>1. handed = v
    BY <1>14 DEF handed
  <2>2. /\ Calls(v.seq, v.result, sent) /\ OwnersMatch(v.seq, v.result, xh, xf, l)
        /\ Fewer(s, v.seq) /\ \A w \in Task : w # m.data => v.result[w] = r.result[w]
    <3>1. m.data \in Task => /\ r.result[m.data] = Pending /\ Free(s, m.data)
                             /\ sent[m.data] # None => sent[m.data] = m.reply_no
      BY <1>13
    <3>2. OwnersMatch(s, r.result, Plus(xh, m.seq_no, i), Plus(xf, m.seq_no, j), l)
      BY <1>12 DEF ph, pf
    <3>3. v = HandOver(s, r.result, m, m.data)
      OBVIOUS
    <3> HIDE DEF v
    <3>4. InHand(s, r.result, sent, xh, xf, l, m, m.data)
      BY <1>1, <1>4, <1>7, <1>8, <1>9, <1>10, <3>1, <3>2 DEF InHand
    <3> QED
      BY <3>3, <3>4, HandOverHeld
  <2> HIDE DEF v
  <2>3. Fewer(r.seq, v.seq)
    BY <1>7, <2>2, FewerTwice
  <2>4. \A w \in Task : Free(r.seq, w) => v.result[w] = r.result[w]
    BY <1>13, <2>2
  <2> QED
    BY <1>2, <2>1, <2>2, <2>3, <2>4 DEF Tells, q
<1>15. CASE sender # None
  <2> DEFINE v == HandOver(s, closed, m, sender)
  <2>1. handed = v
    BY <1>15 DEF handed
  <2>2. m.reply_no \in SeqNo /\ SentEntry(r.seq, m.reply_no) # None
        /\ sender = SentEntry(r.seq, m.reply_no).data
    BY <1>4, <1>15 DEF sender, TakenData, OptSeqNo
  <2>3. /\ sender \in Data
        /\ sender \in Task => /\ r.result[sender] = Pending /\ sent[sender] = m.reply_no
                              /\ Free(s, sender) /\ ~Free(r.seq, sender)
    BY <1>1, <1>7, <2>2, NoneAssumption, SenderTaken
  <2>4. /\ SeqExClosed \in Result /\ SeqExClosed \notin ReplyGuard /\ Pending \notin ReplyGuard
    BY GuardFacts DEF Result
  <2>5. closed \in [Task -> Result]
    BY <1>1, <1>4, <2>4, ToldType DEF closed
  <2>6. Calls(s, closed, sent)
    BY <1>1, <1>4, <1>7, <1>9, <1>13, CallsTold DEF closed
  <2>7. OwnersMatch(s, closed, ph, pf, l)
    BY <1>1, <1>4, <1>11, <1>12, <1>13, <2>4, OwnersTold DEF closed
  <2>8. \A w \in Task : w # m.data => closed[w] = r.result[w]
    BY <1>1 DEF closed, Told
  <2>9. sender \in Task => closed[sender] = Pending
    <3>1. sender \in Task => sender # m.data
      BY <1>13, <2>2, <2>3, NoneAssumption
    <3> QED
      BY <2>3, <2>8, <3>1
  <2>10. /\ Calls(v.seq, v.result, sent) /\ OwnersMatch(v.seq, v.result, xh, xf, l)
         /\ Fewer(s, v.seq) /\ \A w \in Task : w # sender => v.result[w] = closed[w]
    <3>1. sender \in Task => /\ closed[sender] = Pending /\ Free(s, sender)
                             /\ sent[sender] # None => sent[sender] = m.reply_no
      BY <2>3, <2>9
    <3>2. OwnersMatch(s, closed, Plus(xh, m.seq_no, i), Plus(xf, m.seq_no, j), l)
      BY <2>7 DEF ph, pf
    <3>3. v = HandOver(s, closed, m, sender)
      OBVIOUS
    <3> HIDE DEF v
    <3>4. InHand(s, closed, sent, xh, xf, l, m, sender)
      BY <1>4, <1>7, <1>8, <1>10, <2>3, <2>5, <2>6, <3>1, <3>2 DEF InHand
    <3> QED
      BY <3>3, <3>4, HandOverHeld
  <2> HIDE DEF v
  <2>11. Fewer(r.seq, v.seq)
    BY <1>7, <2>10, FewerTwice
  <2>12. \A w \in Task : Free(r.seq, w) => v.result[w] = r.result[w]
    BY <1>13, <2>3, <2>8, <2>10
  <2> QED
    BY <1>2, <2>1, <2>10, <2>11, <2>12 DEF Tells, q
<1> QED
  BY <1>14, <1>15

LEMMA TellsTwice ==
    ASSUME NEW s, NEW rs, NEW u, NEW ru, NEW v, NEW rv, Tells(s, rs, u, ru), Tells(u, ru, v, rv)
    PROVE  Tells(s, rs, v, rv)
<1>1. Fewer(s, v)
  BY FewerTwice DEF Tells
<1>2. \A w \in Task : Free(s, w) => Free(u, w)
  BY FewerFree DEF Tells
<1> QED
  BY <1>1, <1>2 DEF Tells

LEMMA PumpLoopHeld ==
    ASSUME NEW start \in LoopStates, NEW sent,
           NEW xh \in [SeqNo -> Nat], NEW xf \in [SeqNo -> Nat], NEW l,
           Calls(start.seq, start.result, sent), OwnersMatch(start.seq, start.result, xh, xf, l),
           NEW q, q = PumpLoop(start)
    PROVE  /\ Calls(q.seq, q.result, sent) /\ OwnersMatch(q.seq, q.result, xh, xf, l)
           /\ Tells(start.seq, start.result, q.seq, q.result)
<1> DEFINE S == {r \in LoopStates : /\ Calls(r.seq, r.result, sent)
                                    /\ OwnersMatch(r.seq, r.result, xh, xf, l)
                                    /\ Tells(start.seq, start.result, r.seq, r.result)}
<1>1. start \in S
  <2>1. Tells(start.seq, start.result, start.seq, start.result)
    BY SameFewer DEF Tells
  <2> QED
    BY <2>1
<1>2. ASSUME NEW r \in S, r.do_pump, PumpOutcome(r.seq) = "Deliver"
      PROVE  PumpTurn(r) \in S
  <2> DEFINE v == PumpTurn(r)
  <2>1. r \in LoopStates /\ Calls(r.seq, r.result, sent) /\ OwnersMatch(r.seq, r.result, xh, xf, l)
        /\ Tells(start.seq, start.result, r.seq, r.result)
    OBVIOUS
  <2>2. v \in LoopStates
    BY <1>2, <2>1, PumpTurnType
  <2>3. Calls(v.seq, v.result, sent) /\ OwnersMatch(v.seq, v.result, xh, xf, l)
        /\ Tells(r.seq, r.result, v.seq, v.result)
    BY <1>2, <2>1, PumpTurnHeld
  <2> HIDE DEF v
  <2>4. Tells(start.seq, start.result, v.seq, v.result)
    BY <2>1, <2>3, TellsTwice
  <2>5. v \in S
    BY <2>2, <2>3, <2>4
  <2> QED
    BY <2>5 DEF v
<1>3. q \in S
  <2> HIDE DEF S
  <2> QED
    BY <1>1, <1>2, PumpLoopInduction
<1> QED
  BY <1>3

\* receive of a packet that is delivered.
LEMMA DeliversHeld ==
    ASSUME TypeOK, NEW t \in Task, NEW m \in Remote, ReceiveDelivers(t, AsReceived(m, t)),
           NEW xh \in [SeqNo -> Nat], NEW xf \in [SeqNo -> Nat], NEW l,
           Calls(seq, result, sent_as), OwnersMatch(seq, result, xh, xf, l),
           Free(seq, t), result[t] = Pending, sent_as[t] = None
    PROVE  /\ Calls(seq', result', sent_as) /\ OwnersMatch(seq', result', xh, xf, l)
           /\ Fewer(seq, seq') /\ \A w \in Task \ {t} : Free(seq, w) => result'[w] = result[w]
           /\ \E n \in Nat, place \in {"return", "idle"} :
                /\ WakeSenders(t, n, place)
                /\ place = "idle" => result'[t] = Pending
<1> DEFINE p == AsReceived(m, t)
           s == Receive(seq, p)
           sender == TakenData(seq, p.reply_no)
           closed == SavedCallClosed(seq, p, result)
           pump == IsNext(seq, p.seq_no) /\ NextIsSaved(s)
           start == [seq |-> s, result |-> closed, total_recv |-> 1, do_pump |-> pump]
           r == PumpLoop(start)
           to == IF sender = None THEN t ELSE sender
           handed == HandOver(r.seq, r.result, p, to)
           place == IF sender = None THEN "return" ELSE "idle"
           k == Idx(p.seq_no)
           e == seq.recv_window[k]
<1>1. seq \in SeqExState /\ result \in [Task -> Result] /\ t \in Data
  BY TaskAssumption DEF TypeOK
<1>2. /\ p \in DataPacket /\ p.seq_no \in SeqNo /\ p.seq_cst \in BOOLEAN /\ p.reply_no \in OptSeqNo
      /\ p.seq_no = m.seq_no /\ p.reply_no = m.reply_no
  BY AsReceivedType
<1>3. /\ seq' = handed.seq /\ result' = handed.result /\ WakeSenders(t, r.total_recv, place)
      /\ ReceiveOutcome(seq, p) = "Deliver"
  BY DEF ReceiveDelivers
<1>4. Accepted(seq, s, p, k)
  BY <1>1, <1>2, <1>3, ReceiveAccepted
<1>5. k \in Slots
  BY <1>2, IdxType DEF Slots
<1>6. pump \in BOOLEAN
  BY DEF IsNext, NextIsSaved
<1>7. closed = IF e.tag = "Occupied" THEN Told(result, e.data, SeqExClosed) ELSE result
  BY DEF SavedCallClosed
<1>8. FromRemote(p)
  BY <1>2 DEF FromRemote
<1>9. sender # None => /\ p.reply_no \in SeqNo /\ SentEntry(seq, p.reply_no) # None
                       /\ sender = SentEntry(seq, p.reply_no).data
  BY <1>2 DEF TakenData, OptSeqNo
<1> HIDE DEF s, sender, closed, pump, k
<1>10. /\ s \in SeqExState /\ Fewer(seq, s) /\ Issues(seq, s, p.seq_no, p.seq_cst)
       /\ p.seq_cst => ~seq.is_locked
       /\ s.recv_window[k].tag # "Occupied"
       /\ p.reply_no # None => SentEntry(s, p.reply_no) = None
  BY <1>4 DEF Accepted
<1> HIDE DEF p
<1>11. Calls(s, result, sent_as)
  BY <1>10, CallsFewer
<1>12. PICK i \in Nat, j \in Nat : Split(p.seq_cst, i, j)
  BY <1>2, SplitExists
<1> DEFINE ph == Plus(xh, p.seq_no, i)
           pf == Plus(xf, p.seq_no, j)
<1>13. ph \in [SeqNo -> Nat] /\ pf \in [SeqNo -> Nat]
  BY <1>2, PlusFacts
<1>14. OwnersMatch(s, result, ph, pf, l)
  BY <1>1, <1>2, <1>10, <1>12, OwnersIssued
<1> HIDE DEF ph, pf
<1>15. /\ closed \in [Task -> Result] /\ Calls(s, closed, sent_as) /\ OwnersMatch(s, closed, ph, pf, l)
       /\ Tells(seq, result, s, closed)
       /\ \A w \in Task : sent_as[w] # None => closed[w] = result[w]
  <2>1. CASE e.tag = "Occupied"
    <3> DEFINE u == e.data
    <3>1. u \in Data /\ (u \in Task => /\ result[u] = Pending /\ sent_as[u] = None /\ Free(s, u)
                                       /\ ~Free(seq, u))
      BY <1>1, <1>5, <1>10, <2>1, SaverTaken
    <3>2. SeqExClosed \in Result /\ SeqExClosed \notin ReplyGuard /\ Pending \notin ReplyGuard
      BY GuardFacts DEF Result
    <3>3. closed = Told(result, u, SeqExClosed)
      BY <1>7, <2>1
    <3> HIDE DEF u
    <3>4. closed \in [Task -> Result]
      BY <1>1, <3>1, <3>2, <3>3, ToldType
    <3>5. Calls(s, closed, sent_as)
      BY <1>1, <1>10, <1>11, <3>1, <3>3, CallsTold
    <3>6. u \in Task => result[u] \notin ReplyGuard
      BY <3>1, <3>2
    <3>7. OwnersMatch(s, closed, ph, pf, l)
      BY <1>1, <1>13, <1>14, <3>1, <3>2, <3>3, <3>6, OwnersTold
    <3>8. \A w \in Task : w # u => closed[w] = result[w]
      BY <1>1, <3>3 DEF Told
    <3>9. Tells(seq, result, s, closed)
      BY <1>10, <3>1, <3>8 DEF Tells
    <3> QED
      BY <3>1, <3>4, <3>5, <3>7, <3>8, <3>9
  <2>2. CASE e.tag # "Occupied"
    BY <1>1, <1>7, <1>10, <1>11, <1>14, <2>2 DEF Tells
  <2> QED
    BY <2>1, <2>2
<1>16. start \in LoopStates /\ start.seq = s /\ start.result = closed
  BY <1>6, <1>10, <1>15 DEF LoopStates
<1> HIDE DEF start
<1>17. /\ r.seq \in SeqExState /\ r.result \in [Task -> Result] /\ r.total_recv \in Nat
  BY <1>16, PumpLoopType DEF LoopStates
<1>18. r = PumpLoop(start)
  OBVIOUS
<1> HIDE DEF r
<1>19. /\ Calls(r.seq, r.result, sent_as) /\ OwnersMatch(r.seq, r.result, ph, pf, l)
       /\ Tells(s, closed, r.seq, r.result)
  BY <1>13, <1>15, <1>16, <1>18, PumpLoopHeld
<1>20. Tells(seq, result, r.seq, r.result)
  BY <1>15, <1>19, TellsTwice
<1>21. Free(r.seq, t) /\ r.result[t] = Pending
  BY <1>20, FewerFree DEF Tells
<1>22. sender # None =>
        /\ sender \in Data
        /\ sender \in Task => /\ r.result[sender] = Pending /\ sent_as[sender] = p.reply_no
                              /\ Free(r.seq, sender) /\ ~Free(seq, sender)
  <2>1. SUFFICES ASSUME sender # None
                 PROVE  /\ sender \in Data
                        /\ sender \in Task =>
                              /\ r.result[sender] = Pending /\ sent_as[sender] = p.reply_no
                              /\ Free(r.seq, sender) /\ ~Free(seq, sender)
    OBVIOUS
  <2>2. SentEntry(s, p.reply_no) = None
    BY <1>9, <1>10, <2>1, NoneAssumption
  <2>3. /\ sender \in Data
        /\ sender \in Task => /\ result[sender] = Pending /\ sent_as[sender] = p.reply_no
                              /\ Free(s, sender) /\ ~Free(seq, sender)
    BY <1>1, <1>9, <1>10, <2>1, <2>2, SenderTaken
  <2>4. ASSUME sender \in Task PROVE r.result[sender] = Pending /\ Free(r.seq, sender)
    <3>1. closed[sender] = Pending
      BY <1>9, <1>15, <2>1, <2>3, <2>4, NoneAssumption
    <3> QED
      BY <1>19, <2>3, <2>4, <3>1, FewerFree DEF Tells
  <2> QED
    BY <2>3, <2>4
<1>23. /\ to \in Data
       /\ to \in Task => /\ r.result[to] = Pending /\ Free(r.seq, to)
                         /\ sent_as[to] # None => sent_as[to] = p.reply_no
  <2>1. CASE sender = None
    BY <1>1, <1>21, <2>1
  <2>2. CASE sender # None
    BY <1>22, <2>2
  <2> QED
    BY <2>1, <2>2
<1>24. \A w \in Task \ {t} : Free(seq, w) => w # to
  BY <1>22
<1>25. place = "idle" => to # t
  BY <1>22
<1>26. place \in {"return", "idle"}
  OBVIOUS
<1> HIDE DEF to, place
<1>27. OwnersMatch(r.seq, r.result, Plus(xh, p.seq_no, i), Plus(xf, p.seq_no, j), l)
  BY <1>19 DEF ph, pf
<1>28. InHand(r.seq, r.result, sent_as, xh, xf, l, p, to)
  BY <1>2, <1>8, <1>12, <1>17, <1>19, <1>23, <1>27 DEF InHand
<1>29. handed = HandOver(r.seq, r.result, p, to)
  OBVIOUS
<1> HIDE DEF handed
<1>30. /\ Calls(handed.seq, handed.result, sent_as) /\ OwnersMatch(handed.seq, handed.result, xh, xf, l)
       /\ Fewer(r.seq, handed.seq)
       /\ \A w \in Task : w # to => handed.result[w] = r.result[w]
  BY <1>28, <1>29, HandOverHeld
<1>31. Fewer(seq, handed.seq)
  BY <1>20, <1>30, FewerTwice DEF Tells
<1>32. \A w \in Task \ {t} : Free(seq, w) => handed.result[w] = result[w]
  BY <1>20, <1>24, <1>30 DEF Tells
<1>33. place = "idle" => handed.result[t] = Pending
  BY <1>21, <1>25, <1>30
<1>34. \E n \in Nat, at \in {"return", "idle"} :
            WakeSenders(t, n, at) /\ (at = "idle" => result'[t] = Pending)
  BY <1>3, <1>17, <1>26, <1>33
<1> QED
  BY <1>3, <1>30, <1>31, <1>32, <1>34

----------------------------------------------------------------------------
(* The other changes to the calls.                                         *)

\* A call whose channel is not stored begins or ends.
LEMMA CallsOther ==
    ASSUME NEW s \in SeqExState, NEW results, NEW sent, Calls(s, results, sent),
           NEW t \in Task, Free(s, t), NEW rs, NEW ss,
           \A w \in Task \ {t} : rs[w] = results[w] /\ ss[w] = sent[w],
           ss[t] # None => Answers(rs[t], ss[t])
    PROVE  Calls(s, rs, ss)
<1>1. \A i \in Slots : /\ SentBy(s, i) # t /\ SavedBy(s, i) # t
                       /\ SentBy(s, i) # Nobody => SentBy(s, i) \in Task \ {t}
                       /\ SavedBy(s, i) # Nobody => SavedBy(s, i) \in Task \ {t}
  BY StoredType, TaskAssumption DEF Free
<1>2. Sending(s, rs, ss)
  BY <1>1 DEF Calls, Sending
<1>3. Saving(s, rs, ss)
  BY <1>1 DEF Calls, Saving
<1>4. Right(rs, ss)
  BY DEF Calls, Right
<1> QED
  BY <1>2, <1>3, <1>4 DEF Calls

\* A call stores its channel with a packet it sends ...
LEMMA CallsSent ==
    ASSUME NEW s \in SeqExState, NEW v, NEW results, NEW sent, Calls(s, results, sent),
           NEW t \in Task, Free(s, t), NEW i \in Slots, NEW e, e # None, e.data = t,
           v.send_window = [s.send_window EXCEPT ![i] = e], v.recv_window = s.recv_window,
           results[t] = Pending, sent[t] = e.seq_no
    PROVE  Calls(v, results, sent) /\ \A w \in Task \ {t} : Free(s, w) => Free(v, w)
<1>1. v.send_window[i] = e /\ \A j \in Slots \ {i} : v.send_window[j] = s.send_window[j]
  BY DEF SeqExState, Slots
<1>2. t # Nobody
  BY TaskAssumption
<1>3. /\ SentBy(v, i) = t /\ \A j \in Slots \ {i} : SentBy(v, j) = SentBy(s, j)
      /\ \A j \in Slots : SavedBy(v, j) = SavedBy(s, j)
  BY <1>1 DEF SentBy, SavedBy
<1>4. Sending(v, results, sent)
  BY <1>1, <1>3 DEF Calls, Sending, Free
<1>5. Saving(v, results, sent)
  BY <1>3 DEF Calls, Saving
<1>6. Saved(v)
  BY DEF Calls, Saved
<1>7. \A w \in Task \ {t} : Free(s, w) => Free(v, w)
  BY <1>3 DEF Free
<1> QED
  BY <1>4, <1>5, <1>6, <1>7 DEF Calls

\* ... or with the packet that is saved for it.
LEMMA CallsSaved ==
    ASSUME NEW s \in SeqExState, NEW v, NEW results, NEW sent, Calls(s, results, sent),
           NEW t \in Task, Free(s, t), NEW i \in Slots, NEW e, e.tag = "Occupied", e.data = t,
           FromRemote(e),
           v.recv_window = [s.recv_window EXCEPT ![i] = e], v.send_window = s.send_window,
           results[t] = Pending, sent[t] = None
    PROVE  Calls(v, results, sent) /\ \A w \in Task \ {t} : Free(s, w) => Free(v, w)
<1>1. v.recv_window[i] = e /\ \A j \in Slots \ {i} : v.recv_window[j] = s.recv_window[j]
  BY DEF SeqExState, Slots
<1>2. t # Nobody
  BY TaskAssumption
<1>3. /\ SavedBy(v, i) = t /\ \A j \in Slots \ {i} : SavedBy(v, j) = SavedBy(s, j)
      /\ \A j \in Slots : SentBy(v, j) = SentBy(s, j)
  BY <1>1 DEF SentBy, SavedBy
<1>4. Sending(v, results, sent)
  BY <1>3 DEF Calls, Sending
<1>5. Saving(v, results, sent)
  BY <1>1, <1>3 DEF Calls, Saving, Free
<1>6. Saved(v)
  BY <1>1 DEF Calls, Saved
<1>7. \A w \in Task \ {t} : Free(s, w) => Free(v, w)
  BY <1>3 DEF Free
<1> QED
  BY <1>4, <1>5, <1>6, <1>7 DEF Calls

\* receive of a packet that is not delivered.
LEMMA RefusesHeld ==
    ASSUME TypeOK, NEW t \in Task, NEW m \in Remote, ReceiveRefuses(t, AsReceived(m, t)),
           Calls(seq, result, sent_as), Free(seq, t), result[t] = Pending, sent_as[t] = None
    PROVE  /\ Calls(seq', result, sent_as) /\ SameReplies(seq, seq')
           /\ \A w \in Task \ {t} : Free(seq, w) => Free(seq', w)
<1> DEFINE p == AsReceived(m, t)
           k == Idx(p.seq_no)
           e == Occupied(p)
<1>1. seq \in SeqExState
  BY DEF TypeOK
<1>2. /\ p \in DataPacket /\ p.seq_no \in SeqNo /\ p.seq_no = m.seq_no /\ p.reply_no = m.reply_no
      /\ p.data = t
  BY AsReceivedType
<1>3. ReceiveOutcome(seq, p) # "Deliver" /\ seq' = Receive(seq, p)
  BY DEF ReceiveRefuses
<1>4. SameReplies(seq, seq')
  BY <1>1, <1>2, <1>3, ReceiveType
<1>5. seq' = seq \/ seq' = [seq EXCEPT !.recv_window[k] = e]
  BY <1>3 DEF Receive
<1>6. k \in Slots
  BY <1>2, IdxType DEF Slots
<1>7. e.tag = "Occupied" /\ e.data = t /\ FromRemote(e)
  BY <1>2 DEF Occupied, FromRemote
<1> HIDE DEF k, e
<1>8. CASE seq' = seq
  BY <1>4, <1>8
<1>9. CASE seq' # seq
  <2>1. /\ seq'.recv_window = [seq.recv_window EXCEPT ![k] = e]
        /\ seq'.send_window = seq.send_window
    BY <1>1, <1>5, <1>9 DEF SeqExState
  <2> QED
    BY <1>1, <1>4, <1>6, <1>7, <2>1, CallsSaved
<1> QED
  BY <1>8, <1>9

----------------------------------------------------------------------------
(***************************************************************************)
(* The inductive invariant of the channels, the guards and those who wait  *)
(* for wait_on_reply.  A task that awaits no channel has none stored, and  *)
(* nothing to return; every reservation has an owner; and with more than   *)
(* two slots, whoever waits for wait_on_reply waits for an owner.          *)
(***************************************************************************)
Attached == {"queue", "await", "return"}
Where(t) == IF pc[t] \in {"notify_recv", "notify_reply"} THEN resume[t] ELSE pc[t]

Detached == \A t \in Task : Where(t) \notin Attached =>
                result[t] = Pending /\ sent_as[t] = None /\ Free(seq, t)
Channels == Calls(seq, result, sent_as) /\ Detached

\* How many owners of each number the bags G and L hold.
Elsewhere(G, L, b) == [r \in SeqNo |-> Copies(Guard(r, b), G) + Copies(Guard(r, b), L)]
OwnersIn(s, results, G, L, l) ==
    OwnersMatch(s, results, Elsewhere(G, L, TRUE), Elsewhere(G, L, FALSE), l)
Owned == OwnersIn(seq, result, guards, leaked, lock_guards)

SomeGuard == \/ BagToSet(guards) # {} \/ BagToSet(leaked) # {} \/ lock_guards > 0
             \/ \E t \in Task : result[t] \in ReplyGuard
Notified  == ~missed /\ At({"gap_reply", "wait_on_reply"}) # {}
                => reply_waiters \/ At({"notify_reply"}) # {}
GuardLeft == CAP > 2 /\ reply_waiters => SomeGuard

Held == Channels /\ Owned /\ Notified /\ GuardLeft
JInv == IInv /\ Held

LEMMA DetachedMoves ==
    ASSUME Flow, Detached, resume \in [Task -> Place],
           NEW t \in Task, NEW p, NEW q, NEW n, Moved(t, p, q, n),
           \A w \in Task \ {t} : /\ sent_as'[w] = sent_as[w]
                                 /\ Free(seq, w) => Free(seq', w) /\ result'[w] = result[w],
           (IF p \in {"notify_recv", "notify_reply"} THEN q ELSE p) \notin Attached
                => result'[t] = Pending /\ sent_as'[t] = None /\ Free(seq', t)
    PROVE  Detached'
<1> SUFFICES ASSUME NEW w \in Task, ~(Where(w)' \in Attached)
             PROVE  result'[w] = Pending /\ sent_as'[w] = None /\ Free(seq', w)
  BY DEF Detached, Attached
<1>1. CASE w = t
  <2>1. pc'[t] = p /\ resume'[t] = q
    BY DEF Moved
  <2> QED
    BY <1>1, <2>1 DEF Where
<1>2. CASE w # t
  <2>1. resume'[w] = resume[w]
    BY <1>2 DEF Moved
  <2>2. \/ pc'[w] = pc[w]
        \/ pc[w] = "wait_on_recv" /\ pc'[w] = "woken_on_recv"
        \/ pc[w] = "wait_on_reply" /\ pc'[w] = "woken_on_reply"
    BY <1>2 DEF Moved
  <2>3. Where(w) \notin Attached
    BY <2>1, <2>2 DEF Where, Attached
  <2>4. result[w] = Pending /\ sent_as[w] = None /\ Free(seq, w)
    BY <2>3 DEF Detached
  <2> QED
    BY <1>2, <2>4
<1> QED
  BY <1>1, <1>2

\* Nobody comes to wait for wait_on_reply unseen, and nobody on the way to notify is lost.
LEMMA NotifiedMoves ==
    ASSUME Notified, NEW t \in Task, NEW p, NEW q, NEW n, Moved(t, p, q, n),
           pc[t] # "notify_reply", missed' = missed,
           p \in {"gap_reply", "wait_on_reply"} => reply_waiters' \/ pc[t] = "gap_reply",
           reply_waiters => reply_waiters' \/ p = "notify_reply"
    PROVE  Notified'
<1> SUFFICES ASSUME ~missed', NEW u \in Task, pc'[u] \in {"gap_reply", "wait_on_reply"},
                    ~reply_waiters'
             PROVE  \E w \in Task : pc'[w] = "notify_reply"
  BY DEF Notified, At
<1>1. pc'[t] = p
  BY DEF Moved
<1>2. pc[u] \in {"gap_reply", "wait_on_reply"}
  <2>1. CASE u = t
    BY <1>1, <2>1
  <2>2. CASE u # t
    BY <2>2 DEF Moved
  <2> QED
    BY <2>1, <2>2
<1>3. reply_waiters \/ \E w \in Task : pc[w] = "notify_reply"
  BY <1>2 DEF Notified, At
<1>4. CASE reply_waiters
  BY <1>1, <1>4
<1>5. ASSUME NEW w \in Task, pc[w] = "notify_reply" PROVE \E x \in Task : pc'[x] = "notify_reply"
  <2>1. w # t /\ pc'[w] = pc[w]
    BY <1>5 DEF Moved
  <2> QED
    BY <1>5, <2>1
<1> QED
  BY <1>3, <1>4, <1>5

LEMMA ElsewhereType ==
    ASSUME NEW G, IsABag(G), NEW L, IsABag(L), NEW b \in BOOLEAN
    PROVE  Elsewhere(G, L, b) \in [SeqNo -> Nat]
<1>1. \A e : Copies(e, G) \in Nat /\ Copies(e, L) \in Nat
  BY CopiesType
<1> QED
  BY <1>1 DEF Elsewhere

\* One guard more in one of the bags.
OneMore(G, L, H, M, g) == \A e : Copies(e, H) + Copies(e, M)
                                 = (Copies(e, G) + Copies(e, L)) + (IF e = g THEN 1 ELSE 0)

LEMMA ElsewherePlus ==
    ASSUME NEW G, IsABag(G), NEW L, IsABag(L), NEW H, IsABag(H), NEW M, IsABag(M),
           NEW n \in SeqNo, NEW c \in BOOLEAN, OneMore(G, L, H, M, Guard(n, c)),
           NEW b \in BOOLEAN, NEW k \in {0, 1}, k = 1 <=> b = c
    PROVE  Elsewhere(H, M, b) = Plus(Elsewhere(G, L, b), n, k)
<1>1. ASSUME NEW r \in SeqNo
      PROVE  Elsewhere(H, M, b)[r] = Elsewhere(G, L, b)[r] + (IF r = n THEN k ELSE 0)
  <2> DEFINE g == Guard(r, b)
             x == Copies(g, G) + Copies(g, L)
             y == Copies(g, H) + Copies(g, M)
  <2>1. Copies(g, G) \in Nat /\ Copies(g, L) \in Nat
    BY CopiesType
  <2>2. y = x + (IF g = Guard(n, c) THEN 1 ELSE 0)
    BY DEF OneMore
  <2>3. g = Guard(n, c) <=> r = n /\ b = c
    BY GuardFacts
  <2>4. Elsewhere(H, M, b)[r] = y /\ Elsewhere(G, L, b)[r] = x
    BY DEF Elsewhere
  <2>5. x \in Nat
    BY <2>1
  <2> HIDE DEF g, x, y
  <2>6. CASE r = n /\ b = c
    BY <2>2, <2>3, <2>4, <2>5, <2>6
  <2>7. CASE r = n /\ b # c
    BY <2>2, <2>3, <2>4, <2>5, <2>7
  <2>8. CASE r # n
    BY <2>2, <2>3, <2>4, <2>5, <2>8
  <2> QED
    BY <2>6, <2>7, <2>8
<1>2. Elsewhere(H, M, b) = [r \in SeqNo |-> Elsewhere(H, M, b)[r]]
  BY DEF Elsewhere
<1> DEFINE X == Elsewhere(H, M, b)
           Y == Elsewhere(G, L, b)
<1> HIDE DEF X, Y
<1>3. X = [r \in SeqNo |-> X[r]] /\ \A r \in SeqNo : X[r] = Y[r] + (IF r = n THEN k ELSE 0)
  BY <1>1, <1>2 DEF X, Y
<1>4. X = Plus(Y, n, k)
  BY <1>3 DEF Plus
<1> QED
  BY <1>4 DEF X, Y

\* An owner in one of the bags, set aside.
LEMMA OwnersSplit ==
    ASSUME NEW s, NEW results, NEW G, IsABag(G), NEW L, IsABag(L), NEW H, IsABag(H),
           NEW M, IsABag(M), NEW n \in SeqNo, NEW c \in BOOLEAN, NEW l,
           OneMore(G, L, H, M, Guard(n, c)),
           NEW i \in Nat, NEW j \in Nat, Split(c, i, j)
    PROVE  OwnersIn(s, results, H, M, l)
             <=> OwnersMatch(s, results, Plus(Elsewhere(G, L, TRUE), n, i),
                             Plus(Elsewhere(G, L, FALSE), n, j), l)
<1>1. i \in {0, 1} /\ j \in {0, 1} /\ (i = 1 <=> c) /\ (j = 1 <=> ~c)
  BY DEF Split
<1>2. \A b \in BOOLEAN : b = TRUE => Elsewhere(H, M, b) = Plus(Elsewhere(G, L, b), n, i)
  <2>1. SUFFICES ASSUME NEW b \in BOOLEAN, b = TRUE
                 PROVE  Elsewhere(H, M, b) = Plus(Elsewhere(G, L, b), n, i)
    OBVIOUS
  <2>2. i = 1 <=> b = c
    BY <1>1, <2>1
  <2> QED
    BY <1>1, <2>2, ElsewherePlus
<1>3. \A b \in BOOLEAN : b = FALSE => Elsewhere(H, M, b) = Plus(Elsewhere(G, L, b), n, j)
  <2>1. SUFFICES ASSUME NEW b \in BOOLEAN, b = FALSE
                 PROVE  Elsewhere(H, M, b) = Plus(Elsewhere(G, L, b), n, j)
    OBVIOUS
  <2>2. j = 1 <=> b = c
    BY <1>1, <2>1
  <2> QED
    BY <1>1, <2>2, ElsewherePlus
<1> QED
  BY <1>2, <1>3 DEF OwnersIn

\* A number that is reserved has an owner.
LEMMA ReservedOwned ==
    ASSUME TypeOK, Owned, NEW n \in SeqNo, Reservations(seq, n) > 0
    PROVE  SomeGuard
<1> DEFINE xh == Elsewhere(guards, leaked, TRUE)
           xf == Elsewhere(guards, leaked, FALSE)
<1>1. IsABag(guards) /\ IsABag(leaked) /\ result \in [Task -> Result]
  BY DEF TypeOK
<1>2. Hold(result, TRUE, xh)[n] + Hold(result, FALSE, xf)[n] = Reservations(seq, n)
  BY DEF Owned, OwnersIn, OwnersMatch, Matches
<1>3. ASSUME NEW b \in BOOLEAN, ~SomeGuard
      PROVE  Hold(result, b, Elsewhere(guards, leaked, b))[n] = 0
  <2> DEFINE g == Guard(n, b)
  <2>1. g \in ReplyGuard
    BY GuardFacts
  <2>2. ~BagIn(g, guards) /\ ~BagIn(g, leaked) /\ With(result, g) = {}
    BY <1>3, <2>1 DEF SomeGuard, BagIn, With
  <2>3. Copies(g, guards) = 0 /\ Copies(g, leaked) = 0
    BY <2>2 DEF Copies
  <2>4. Cardinality(With(result, g)) = 0
    BY <2>2, FS_EmptySet
  <2>5. Elsewhere(guards, leaked, b)[n] = Copies(g, guards) + Copies(g, leaked)
    BY DEF Elsewhere
  <2>6. Hold(result, b, Elsewhere(guards, leaked, b))[n]
            = Cardinality(With(result, g)) + Elsewhere(guards, leaked, b)[n]
    BY DEF Hold
  <2> HIDE DEF g
  <2> QED
    BY <2>3, <2>4, <2>5, <2>6
<1>4. ~SomeGuard => Hold(result, TRUE, xh)[n] = 0 /\ Hold(result, FALSE, xf)[n] = 0
  BY <1>3
<1> DEFINE a == Hold(result, TRUE, xh)[n]
           b == Hold(result, FALSE, xf)[n]
<1>5. a + b > 0 /\ (~SomeGuard => a = 0 /\ b = 0)
  BY <1>2, <1>4
<1> HIDE DEF a, b
<1> QED
  BY <1>5

----------------------------------------------------------------------------
(* Each kind of step preserves it.                                         *)

\* A step that only moves task t, which awaits a channel before if it does after.
LEMMA QuietKeeps ==
    ASSUME JInv, NEW t \in Task, NEW p, NEW q, NEW n, Moved(t, p, q, n),
           UNCHANGED <<seq, reply_waiters, result, guards, lock_guards, leaked, sent_as>>,
           (IF p \in {"notify_recv", "notify_reply"} THEN q ELSE p) \notin Attached
                => Where(t) \notin Attached,
           Notified'
    PROVE  Held'
<1> USE DEF JInv, Held, IInv
<1>1. /\ seq' = seq /\ reply_waiters' = reply_waiters /\ result' = result /\ guards' = guards
      /\ lock_guards' = lock_guards /\ leaked' = leaked /\ sent_as' = sent_as
  OBVIOUS
<1>2. Channels'
  <2>1. Calls(seq', result', sent_as')
    BY <1>1 DEF Channels
  <2>2. Detached'
    <3>1. \A w \in Task \ {t} : /\ sent_as'[w] = sent_as[w]
                                /\ Free(seq, w) => Free(seq', w) /\ result'[w] = result[w]
      BY <1>1
    <3>2. Where(t) \notin Attached => result'[t] = Pending /\ sent_as'[t] = None /\ Free(seq', t)
      BY <1>1 DEF Channels, Detached
    <3> QED
      BY <3>1, <3>2, DetachedMoves DEF Channels, TypeOK
  <2> QED
    BY <2>1, <2>2 DEF Channels
<1>3. Owned'
  BY <1>1 DEF Owned
<1>4. GuardLeft'
  BY <1>1 DEF GuardLeft, SomeGuard
<1> QED
  BY <1>2, <1>3, <1>4

LEMMA NotifyOneHeld ==
    ASSUME JInv, NEW t \in Task, NotifyOne(t)
    PROVE  Held'
<1> USE DEF JInv, IInv
<1> DEFINE p == IF waking[t] = 1 THEN resume[t] ELSE "notify_recv"
           q == IF waking[t] = 1 THEN "idle" ELSE resume[t]
           n == waking[t] - 1
<1>1. /\ waking[t] \in Nat /\ waking[t] > 0 /\ pc[t] = "notify_recv"
      /\ resume[t] \in {"idle", "return", "queue", "await"}
      /\ waking \in [Task -> Nat] /\ resume \in [Task -> Place] /\ pc \in [Task -> Place]
  BY DEF NotifyOne, Flow, TypeOK
<1>2. /\ NotifyOneOf([pc EXCEPT ![t] = p]) /\ waking' = [waking EXCEPT ![t] = n]
      /\ resume' = [resume EXCEPT ![t] = q]
      /\ UNCHANGED <<seq, reply_waiters, result, guards, lock_guards, leaked, sent_as, missed>>
  BY <1>1 DEF NotifyOne, inner, held
<1>3. /\ p \in Place /\ p \notin OnRecv /\ p \notin {"gap_reply", "wait_on_reply"}
      /\ (IF p \in {"notify_recv", "notify_reply"} THEN q ELSE p) = resume[t]
      /\ Where(t) = resume[t]
  BY <1>1 DEF Place, Awaits, OnRecv, Where
<1> HIDE DEF p, q, n
<1>4. /\ pc' \in [Task -> Place] /\ pc'[t] = p
      /\ \A u \in Task \ {t} : pc'[u] = pc[u] \/ (pc[u] = "wait_on_recv" /\ pc'[u] = "woken_on_recv")
  BY <1>2, <1>3, NotifyOneOfFacts
<1>5. Moved(t, p, q, n)
  BY <1>1, <1>2, <1>4 DEF Moved
<1>6. Notified'
  BY <1>1, <1>2, <1>3, <1>5, NotifiedMoves DEF Held
<1> QED
  BY <1>2, <1>3, <1>5, <1>6, QuietKeeps

LEMMA NotifyWaitersHeld ==
    ASSUME JInv, NEW t \in Task, NotifyWaiters(t)
    PROVE  Held'
<1> USE DEF JInv, IInv
<1> DEFINE p == resume[t]
<1>1. /\ waking[t] = 0 /\ pc[t] = "notify_reply"
      /\ p \in {"idle", "return", "queue", "await"}
      /\ waking \in [Task -> Nat] /\ resume \in [Task -> Place] /\ pc \in [Task -> Place]
  BY DEF NotifyWaiters, Flow, TypeOK
<1>2. /\ pc' = [u \in Task |-> IF u = t THEN p
                               ELSE IF pc[u] = "wait_on_reply" THEN "woken_on_reply" ELSE pc[u]]
      /\ resume' = [resume EXCEPT ![t] = "idle"] /\ waking' = waking
      /\ missed' = (missed \/ (At({"gap_reply"}) # {} /\ ~reply_waiters))
      /\ UNCHANGED <<seq, reply_waiters, result, guards, lock_guards, leaked, sent_as>>
  BY DEF NotifyWaiters, inner, held
<1>3. /\ p \in Place /\ "woken_on_reply" \in Place /\ Where(t) = p
      /\ (IF p \in {"notify_recv", "notify_reply"} THEN "idle" ELSE p) = p
  BY <1>1 DEF Place, Awaits, Where
<1>4. p \notin {"gap_reply", "wait_on_reply"}
  BY <1>1
<1> HIDE DEF p
<1>5. Moved(t, p, "idle", 0)
  BY <1>1, <1>2, <1>3 DEF Moved
<1>6. Notified'
  <2>1. SUFFICES ASSUME ~missed', ~reply_waiters', NEW u \in Task,
                        pc'[u] \in {"gap_reply", "wait_on_reply"}
                 PROVE  FALSE
    BY DEF Notified, At
  <2>2. u # t /\ pc[u] = "gap_reply"
    BY <1>2, <1>4, <2>1
  <2>3. ~reply_waiters /\ At({"gap_reply"}) = {}
    BY <1>2, <2>1
  <2> QED
    BY <2>2, <2>3 DEF At
<1> QED
  BY <1>2, <1>3, <1>5, <1>6, QuietKeeps

LEMMA WaitHeld ==
    ASSUME JInv, NEW t \in Task, Wait(t)
    PROVE  Held'
<1> USE DEF JInv, IInv
<1>1. UNCHANGED <<seq, reply_waiters, result, guards, lock_guards, leaked, sent_as, missed>>
  BY DEF Wait, inner, held, history
<1>2. PICK p \in {"woken_on_recv", "wait_on_recv", "wait_on_reply"} :
        /\ Goto(t, p) /\ pc[t] \in {"gap_recv", "gap_reply"}
        /\ p = "wait_on_reply" => pc[t] = "gap_reply"
  BY DEF Wait
<1>3. p \in Place /\ Where(t) = pc[t] /\ pc[t] \notin {"notify_recv", "notify_reply"}
      /\ Where(t) \notin Attached
  BY <1>2 DEF Place, Awaits, Where, Attached
<1>4. Moved(t, p, "idle", 0)
  BY <1>2, <1>3, GotoPlain
<1>5. Notified'
  BY <1>1, <1>2, <1>3, <1>4, NotifiedMoves DEF Held
<1> QED
  BY <1>1, <1>3, <1>4, <1>5, QuietKeeps

LEMMA QueueHeld ==
    ASSUME JInv, NEW t \in Task, Queue(t)
    PROVE  Held'
<1> USE DEF JInv, IInv
<1>1. /\ pc[t] = "queue" /\ Goto(t, "await")
      /\ UNCHANGED <<seq, reply_waiters, result, guards, lock_guards, leaked, sent_as, missed>>
  BY DEF Queue, inner, held, history
<1>2. Moved(t, "await", "idle", 0)
  <2>1. "await" \in Place /\ pc[t] \notin {"notify_recv", "notify_reply"}
    BY <1>1 DEF Place, Awaits
  <2> QED
    BY <1>1, <2>1, GotoPlain
<1>3. Notified'
  BY <1>1, <1>2, NotifiedMoves DEF Held
<1>4. "await" \in Attached
  BY DEF Attached
<1> QED
  BY <1>1, <1>2, <1>3, <1>4, QuietKeeps

\* service moves the deadlines of packets, not their channels.
LEMMA ServiceFewer ==
    ASSUME NEW s \in SeqExState
    PROVE  Fewer(s, Service(s, 0)) /\ SameReplies(s, Service(s, 0))
<1>1. SameReplies(s, Service(s, 0))
  BY ServiceType
<1>2. CASE ~IsServiceTime(s, 0)
  <2>1. Service(s, 0) = s
    BY <1>2 DEF Service
  <2> QED
    BY <1>1, <2>1, SameFewer
<1>3. CASE IsServiceTime(s, 0)
  <2> DEFINE w == Rescheduled(s, 0)
             v == Service(s, 0)
  <2>1. v.send_window = w /\ v.recv_window = s.recv_window
    BY <1>3 DEF Service, SeqExState
  <2>2. ASSUME NEW i \in Slots, w[i] # None
        PROVE  /\ s.send_window[i] # None /\ w[i].seq_no = s.send_window[i].seq_no
               /\ w[i].data \in {s.send_window[i].data, Nobody}
    <3>1. s.send_window[i] \in SendEntry \cup {None}
      BY DEF SeqExState, Slots
    <3>2. CASE i \in Due(s, 0)
      <4>1. w[i] = [s.send_window[i] EXCEPT !.next_resend_time = 0 + ResendInterval]
        BY <3>2 DEF Rescheduled, Slots
      <4>2. s.send_window[i] # None
        BY <3>2 DEF Due
      <4> QED
        BY <3>1, <4>1, <4>2 DEF SendEntry
    <3>3. CASE i \notin Due(s, 0)
      BY <2>2, <3>3 DEF Rescheduled, Slots
    <3> QED
      BY <3>2, <3>3
  <2> HIDE DEF w, v
  <2>3. Fewer(s, v)
    BY <2>1, <2>2 DEF Fewer
  <2> QED
    BY <1>1, <2>3 DEF v
<1> QED
  BY <1>2, <1>3

LEMMA OwnersSame ==
    ASSUME NEW s, NEW v, NEW results, NEW G, NEW L, NEW l, OwnersIn(s, results, G, L, l),
           SameReplies(s, v)
    PROVE  OwnersIn(v, results, G, L, l)
BY SameMatches DEF OwnersIn, OwnersMatch

LEMMA ServiceHeld ==
    ASSUME JInv, ServiceUpdate \/ ServiceTimeout
    PROVE  Held'
<1> USE DEF JInv, IInv, Held
<1>1. /\ pc' = pc /\ resume' = resume /\ reply_waiters' = reply_waiters /\ result' = result
      /\ guards' = guards /\ lock_guards' = lock_guards /\ leaked' = leaked
      /\ sent_as' = sent_as /\ missed' = missed
  BY DEF ServiceUpdate, ServiceTimeout, inner, flow, held, history
<1>2. Fewer(seq, seq') /\ SameReplies(seq, seq')
  <2>1. CASE ServiceUpdate
    BY <2>1, SameFewer DEF ServiceUpdate, inner, SameReplies
  <2>2. CASE ServiceTimeout
    BY <2>2, ServiceFewer DEF ServiceTimeout, TypeOK
  <2> QED
    BY <2>1, <2>2
<1>3. Channels'
  <2>1. Calls(seq', result, sent_as)
    BY <1>2, CallsFewer DEF Channels
  <2>2. \A w \in Task : Free(seq, w) => Free(seq', w)
    BY <1>2, FewerFree
  <2>3. Detached'
    BY <1>1, <2>2 DEF Channels, Detached, Where
  <2> QED
    BY <1>1, <2>1, <2>3 DEF Channels
<1>4. Owned'
  <2>1. OwnersIn(seq', result, guards, leaked, lock_guards)
    BY <1>2, OwnersSame DEF Owned
  <2> QED
    BY <1>1, <2>1 DEF Owned
<1>5. Notified' /\ GuardLeft'
  BY <1>1 DEF Notified, At, GuardLeft, SomeGuard
<1> QED
  BY <1>3, <1>4, <1>5

\* A call sends a packet with its channel and comes to await it.
LEMMA SentChannels ==
    ASSUME TypeOK, Flow, Channels, NEW t \in Task, Where(t) \notin Attached,
           NEW p, NEW q, NEW n, Moved(t, p, q, n),
           (IF p \in {"notify_recv", "notify_reply"} THEN q ELSE p) \in Attached,
           NEW e \in SendEntry, e.data = t, e.seq_no = seq.next_send_seq_no,
           seq'.send_window = [seq.send_window EXCEPT ![Idx(e.seq_no)] = e],
           seq'.recv_window = seq.recv_window, result' = result,
           sent_as' = [sent_as EXCEPT ![t] = seq.next_send_seq_no]
    PROVE  Channels'
<1>1. result[t] = Pending /\ sent_as[t] = None /\ Free(seq, t)
  BY DEF Channels, Detached
<1>2. /\ seq \in SeqExState /\ resume \in [Task -> Place]
      /\ sent_as'[t] = e.seq_no /\ \A w \in Task \ {t} : sent_as'[w] = sent_as[w]
  BY DEF TypeOK
<1>3. Calls(seq, result, sent_as')
  <2> DEFINE ss == sent_as'
             rs == result
  <2>1. ss[t] # None => Answers(rs[t], ss[t])
    BY <1>1, GuardFacts DEF Answers
  <2>2. \A w \in Task \ {t} : rs[w] = result[w] /\ ss[w] = sent_as[w]
    BY <1>2
  <2>3. Calls(seq, result, sent_as) /\ Free(seq, t) /\ seq \in SeqExState
    BY <1>1, <1>2 DEF Channels
  <2> HIDE DEF ss, rs
  <2>4. Calls(seq, rs, ss)
    BY <2>1, <2>2, <2>3, CallsOther
  <2> QED
    BY <2>4 DEF rs, ss
<1>4. Idx(e.seq_no) \in Slots /\ e # None
  <2>1. e.seq_no \in SeqNo
    BY DEF SendEntry
  <2>2. e # None
    BY NoneAssumption
  <2> QED
    BY <2>1, <2>2, IdxType DEF Slots
<1>5. /\ Calls(seq', result, sent_as')
      /\ \A w \in Task \ {t} : Free(seq, w) => Free(seq', w)
  <2> DEFINE v == seq'
             ss == sent_as'
             i == Idx(e.seq_no)
  <2>1. /\ Calls(seq, result, ss) /\ i \in Slots /\ ss[t] = e.seq_no
        /\ v.send_window = [seq.send_window EXCEPT ![i] = e] /\ v.recv_window = seq.recv_window
    BY <1>2, <1>3, <1>4
  <2> HIDE DEF v, ss, i
  <2>2. Calls(v, result, ss) /\ \A w \in Task \ {t} : Free(seq, w) => Free(v, w)
    BY <1>1, <1>2, <1>4, <2>1, CallsSent
  <2> QED
    BY <2>2 DEF v, ss
<1>6. Detached'
  <2>1. \A w \in Task \ {t} : /\ sent_as'[w] = sent_as[w]
                              /\ Free(seq, w) => Free(seq', w) /\ result'[w] = result[w]
    BY <1>2, <1>5
  <2> QED
    BY <1>2, <2>1, DetachedMoves DEF Channels
<1> QED
  BY <1>5, <1>6 DEF Channels

LEMMA SendOrWaitHeld ==
    ASSUME JInv, NEW t \in Task, pc[t] \in {"idle", "woken_on_recv", "woken_on_reply"}, SendOrWait(t)
    PROVE  Held'
<1> USE DEF JInv, IInv, Held
<1> DEFINE full == IsFullInner(seq, None)
<1>1. full \in {"Ok", "WaitingForRecv", "WaitingForReply"} /\ seq \in SeqExState
  BY IsFullFacts DEF TypeOK, TryError
<1>2. Where(t) \notin Attached /\ pc[t] \notin {"notify_recv", "notify_reply"}
  BY DEF Where, Attached
<1>3. /\ \E c \in SeqCstModes : seq' = IF full = "Ok" THEN TrySend(seq, 0, c, t) ELSE seq
      /\ reply_waiters' = (reply_waiters \/ full = "WaitingForReply")
      /\ Goto(t, CASE full = "Ok" -> AfterSend(seq')
                   [] full = "WaitingForRecv" -> "gap_recv"
                   [] full = "WaitingForReply" -> "gap_reply")
      /\ sent_as' = [sent_as EXCEPT ![t] = IF full = "Ok" THEN seq.next_send_seq_no ELSE @]
      /\ result' = result /\ guards' = guards /\ lock_guards' = lock_guards /\ leaked' = leaked
      /\ missed' = missed
  BY DEF SendOrWait, held
<1> HIDE DEF full
<1>4. PICK p \in {"queue", "await", "gap_recv", "gap_reply"} :
        /\ Goto(t, p) /\ (p = "gap_reply" => full = "WaitingForReply")
        /\ (full = "Ok" <=> p \in Attached)
  <2>1. CASE full = "Ok"
    BY <1>3, <2>1 DEF AfterSend, Attached
  <2>2. CASE full = "WaitingForRecv"
    BY <1>3, <2>2 DEF Attached
  <2>3. CASE full = "WaitingForReply"
    BY <1>3, <2>3 DEF Attached
  <2> QED
    BY <1>1, <2>1, <2>2, <2>3
<1>5. Moved(t, p, "idle", 0)
  <2>1. p \in Place
    BY DEF Place, Awaits
  <2> QED
    BY <1>2, <1>4, <2>1, GotoPlain
<1>6. Channels' /\ SameReplies(seq, seq')
  <2>1. CASE full = "Ok"
    <3>1. PICK c \in SeqCstModes : seq' = TrySend(seq, 0, c, t)
      BY <1>3, <2>1
    <3>2. c \in BOOLEAN /\ t \in Data /\ None \in OptSeqNo /\ 0 \in Nat
      BY RemoteAssumption, TaskAssumption DEF OptSeqNo
    <3> DEFINE e == NewEntry(seq, 0, None, c, t)
    <3>3. e \in SendEntry /\ e.seq_no = seq.next_send_seq_no /\ e.data = t
      BY <1>1, <3>2, NewEntryFacts DEF NewEntry
    <3>4. seq' = InsertSend(seq, e)
      BY <3>1 DEF TrySend
    <3> HIDE DEF e
    <3>5. /\ seq'.send_window = [seq.send_window EXCEPT ![Idx(e.seq_no)] = e]
          /\ seq'.recv_window = seq.recv_window
      BY <1>1, <3>3, <3>4, InsertSendFacts
    <3>6. sent_as' = [sent_as EXCEPT ![t] = seq.next_send_seq_no]
      BY <1>3, <2>1
    <3>7. (IF p \in {"notify_recv", "notify_reply"} THEN "idle" ELSE p) \in Attached
      BY <1>4, <2>1
    <3>8. Channels'
      BY <1>2, <1>3, <1>5, <3>3, <3>5, <3>6, <3>7, SentChannels
    <3>9. SameReplies(seq, seq')
      BY <1>1, <3>1, <3>2, TrySendType
    <3> QED
      BY <3>8, <3>9
  <2>2. CASE full # "Ok"
    <3>1. seq' = seq /\ sent_as' = sent_as
      BY <1>3, <2>2 DEF TypeOK
    <3>2. Calls(seq', result', sent_as')
      BY <1>3, <3>1 DEF Channels
    <3>3. \A w \in Task \ {t} : /\ sent_as'[w] = sent_as[w]
                                /\ Free(seq, w) => Free(seq', w) /\ result'[w] = result[w]
      BY <1>3, <3>1
    <3>4. result'[t] = Pending /\ sent_as'[t] = None /\ Free(seq', t)
      BY <1>2, <1>3, <3>1 DEF Channels, Detached
    <3>5. Detached'
      BY <1>5, <3>3, <3>4, DetachedMoves DEF Channels, TypeOK
    <3> QED
      BY <3>1, <3>2, <3>5 DEF Channels, SameReplies
  <2> QED
    BY <2>1, <2>2
<1>7. Owned'
  <2>1. OwnersIn(seq', result, guards, leaked, lock_guards)
    BY <1>6, OwnersSame DEF Owned
  <2> QED
    BY <1>3, <2>1 DEF Owned
<1>8. Notified'
  <2>1. p \in {"gap_reply", "wait_on_reply"} => reply_waiters'
    BY <1>3, <1>4
  <2> QED
    BY <1>2, <1>3, <1>5, <2>1, NotifiedMoves
<1>9. GuardLeft'
  <2>1. ASSUME CAP > 2, full = "WaitingForReply" PROVE SomeGuard
    <3>1. PICK r \in SeqNo : Reservations(seq, r) > 0
      BY <1>1, <2>1, WaitsForReserved DEF full
    <3> QED
      BY <3>1, ReservedOwned
  <2>2. SomeGuard' <=> SomeGuard
    BY <1>3 DEF SomeGuard
  <2> QED
    BY <1>3, <2>1, <2>2 DEF GuardLeft
<1> QED
  BY <1>6, <1>7, <1>8, <1>9

\* Whoever has been told something has no channel stored.
LEMMA ToldFree ==
    ASSUME NEW s, NEW results, NEW sent, Calls(s, results, sent), NEW t \in Task,
           results[t] # Pending
    PROVE  Free(s, t)
BY TaskAssumption DEF Calls, Sending, Saving, Free

\* The result of a call leaves it, with the guard in it to one of the bags.
LEMMA OwnersReturned ==
    ASSUME NEW s, NEW results \in [Task -> Result], NEW l, NEW G, IsABag(G), NEW L, IsABag(L),
           OwnersIn(s, results, G, L, l), NEW t \in Task, NEW H, IsABag(H), NEW M, IsABag(M),
           results[t] \in ReplyGuard => OneMore(G, L, H, M, results[t]),
           results[t] \notin ReplyGuard => H = G /\ M = L
    PROVE  OwnersIn(s, [results EXCEPT ![t] = Pending], H, M, l)
<1> DEFINE rs == [results EXCEPT ![t] = Pending]
           xh == Elsewhere(G, L, TRUE)
           xf == Elsewhere(G, L, FALSE)
<1>1. rs \in [Task -> Result] /\ rs[t] = Pending /\ rs[t] \notin ReplyGuard
      /\ Pending \notin ReplyGuard
      /\ \A w \in Task \ {t} : rs[w] = results[w]
  BY GuardFacts DEF Result
<1>2. xh \in [SeqNo -> Nat] /\ xf \in [SeqNo -> Nat]
  BY ElsewhereType
<1>3. OwnersMatch(s, results, xh, xf, l)
  BY DEF OwnersIn
<1> HIDE DEF rs
<1>4. CASE results[t] \in ReplyGuard
  <2> DEFINE r == results[t].reply_no
             c == results[t].is_holding_lock
  <2>1. r \in SeqNo /\ c \in BOOLEAN /\ results[t] = Guard(r, c)
    BY <1>4, GuardFacts
  <2> HIDE DEF r, c
  <2>2. PICK i \in Nat, j \in Nat : Split(c, i, j)
    BY <2>1, SplitExists
  <2>3. OneMore(G, L, H, M, Guard(r, c))
    BY <1>4, <2>1
  <2>4. OwnersIn(s, rs, H, M, l) <=> OwnersMatch(s, rs, Plus(xh, r, i), Plus(xf, r, j), l)
    BY <2>1, <2>2, <2>3, OwnersSplit
  <2> HIDE DEF xh, xf
  <2>5. \A w \in Task \ {t} : results[w] = rs[w]
    BY <1>1
  <2>6. OwnersMatch(s, results, xh, xf, l) <=> OwnersMatch(s, rs, Plus(xh, r, i), Plus(xf, r, j), l)
    BY <1>1, <1>2, <2>1, <2>2, <2>5, OwnersMoved
  <2> QED
    BY <1>3, <2>4, <2>6 DEF rs
<1>5. CASE results[t] \notin ReplyGuard
  <2> HIDE DEF xh, xf
  <2>1. \A b \in BOOLEAN : Hold(rs, b, xh) = Hold(results, b, xh)
    BY <1>1, <1>2, <1>5, HoldOther
  <2>2. \A b \in BOOLEAN : Hold(rs, b, xf) = Hold(results, b, xf)
    BY <1>1, <1>2, <1>5, HoldOther
  <2>3. OwnersMatch(s, rs, xh, xf, l)
    BY <1>3, <2>1, <2>2 DEF OwnersMatch
  <2> QED
    BY <1>5, <2>3 DEF OwnersIn, rs, xh, xf
<1> QED
  BY <1>4, <1>5

LEMMA ReturnHeld ==
    ASSUME JInv, NEW t \in Task, Return(t)
    PROVE  Held'
<1> USE DEF JInv, IInv, Held
<1> DEFINE more == guards (+) SetToBag({result[t]})
<1>1. /\ pc[t] \in {"await", "return"} /\ Goto(t, "idle") /\ result[t] # Pending
      /\ guards' = IF result[t] \in ReplyGuard THEN more ELSE guards
      /\ result' = [result EXCEPT ![t] = Pending] /\ sent_as' = [sent_as EXCEPT ![t] = None]
      /\ seq' = seq /\ reply_waiters' = reply_waiters /\ lock_guards' = lock_guards
      /\ leaked' = leaked /\ missed' = missed
  BY DEF Return, inner
<1>2. /\ result \in [Task -> Result] /\ sent_as \in [Task -> OptSeqNo] /\ seq \in SeqExState
      /\ IsABag(guards) /\ IsABag(leaked) /\ resume \in [Task -> Place]
  BY DEF TypeOK
<1>3. Moved(t, "idle", "idle", 0)
  <2>1. "idle" \in Place /\ pc[t] \notin {"notify_recv", "notify_reply"}
    BY <1>1 DEF Place
  <2> QED
    BY <1>1, <2>1, GotoPlain
<1>4. Free(seq, t)
  BY <1>1, ToldFree DEF Channels
<1>5. /\ result'[t] = Pending /\ sent_as'[t] = None
      /\ \A w \in Task \ {t} : result'[w] = result[w] /\ sent_as'[w] = sent_as[w]
  BY <1>1, <1>2
<1>6. Channels'
  <2>1. Calls(seq, result', sent_as')
    <3> DEFINE rs == result'
               ss == sent_as'
    <3>1. /\ \A w \in Task \ {t} : rs[w] = result[w] /\ ss[w] = sent_as[w]
          /\ ss[t] # None => Answers(rs[t], ss[t])
      BY <1>5
    <3> HIDE DEF rs, ss
    <3>2. Calls(seq, result, sent_as)
      BY DEF Channels
    <3>3. Calls(seq, rs, ss)
      BY <1>2, <1>4, <3>1, <3>2, CallsOther
    <3> QED
      BY <3>3 DEF rs, ss
  <2>2. \A w \in Task \ {t} : /\ sent_as'[w] = sent_as[w]
                              /\ Free(seq, w) => Free(seq', w) /\ result'[w] = result[w]
    BY <1>1, <1>5
  <2>3. result'[t] = Pending /\ sent_as'[t] = None /\ Free(seq', t)
    BY <1>1, <1>4, <1>5
  <2>4. Detached'
    BY <1>2, <1>3, <2>2, <2>3, DetachedMoves DEF Channels
  <2> QED
    BY <1>1, <2>1, <2>4 DEF Channels
<1>7. /\ IsABag(more) /\ BagToSet(more) = BagToSet(guards) \cup {result[t]}
      /\ \A e : Copies(e, more) = Copies(e, guards) + (IF e = result[t] THEN 1 ELSE 0)
  BY <1>2, BagAddOne
<1> HIDE DEF more
<1>8. Owned'
  <2> DEFINE H == guards'
  <2>1. IsABag(H)
    BY <1>1, <1>2, <1>7
  <2>2. \A e : Copies(e, guards) \in Nat /\ Copies(e, leaked) \in Nat
    BY <1>2, CopiesType
  <2>3. ASSUME result[t] \in ReplyGuard, NEW e
        PROVE  Copies(e, H) + Copies(e, leaked)
                 = (Copies(e, guards) + Copies(e, leaked)) + (IF e = result[t] THEN 1 ELSE 0)
    BY <1>1, <1>7, <2>2, <2>3
  <2>4. result[t] \notin ReplyGuard => H = guards /\ leaked = leaked
    BY <1>1
  <2> HIDE DEF H
  <2>5. OwnersIn(seq, [result EXCEPT ![t] = Pending], H, leaked, lock_guards)
    <3>1. OwnersIn(seq, result, guards, leaked, lock_guards)
      BY DEF Owned
    <3>2. result[t] \in ReplyGuard => OneMore(guards, leaked, H, leaked, result[t])
      BY <2>3 DEF OneMore
    <3> QED
      BY <1>2, <2>1, <2>4, <3>1, <3>2, OwnersReturned
  <2> QED
    BY <1>1, <2>5 DEF Owned, H
<1>9. Notified'
  BY <1>1, <1>3, NotifiedMoves
<1>10. GuardLeft'
  <2>1. SomeGuard => SomeGuard'
    BY <1>1, <1>5, <1>7 DEF SomeGuard
  <2> QED
    BY <1>1, <2>1 DEF GuardLeft
<1> QED
  BY <1>6, <1>8, <1>9, <1>10

\* What the windows lose with a future is its channel.
LEMMA AbandonFewer ==
    ASSUME NEW s \in SeqExState, NEW t \in Task
    PROVE  Fewer(s, Abandon(s, t)) /\ Free(Abandon(s, t), t)
<1> DEFINE v == Abandon(s, t)
<1>1. /\ v.send_window = [i \in 0 .. CAP - 1 |->
                            IF s.send_window[i] = None THEN None
                            ELSE Abandoned(t, s.send_window[i])]
      /\ v.recv_window = [i \in 0 .. CAP - 1 |->
                            IF s.recv_window[i].tag = "Occupied"
                            THEN Abandoned(t, s.recv_window[i]) ELSE s.recv_window[i]]
  BY DEF Abandon, SeqExState
<1> HIDE DEF v
<1>2. Nobody # t
  BY TaskAssumption
<1>3. ASSUME NEW i \in Slots, s.send_window[i] # None
      PROVE  /\ v.send_window[i] = Abandoned(t, s.send_window[i])
             /\ v.send_window[i].seq_no = s.send_window[i].seq_no
             /\ v.send_window[i].data
                    = IF s.send_window[i].data = t THEN Nobody ELSE s.send_window[i].data
  <2> DEFINE e == s.send_window[i]
  <2>1. e \in SendEntry /\ v.send_window[i] = Abandoned(t, e)
    BY <1>1, <1>3 DEF Slots, SeqExState
  <2> HIDE DEF e
  <2>2. Abandoned(t, e).seq_no = e.seq_no
        /\ Abandoned(t, e).data = IF e.data = t THEN Nobody ELSE e.data
    BY <2>1 DEF SendEntry, Abandoned
  <2> QED
    BY <2>1, <2>2 DEF e
<1>4. ASSUME NEW i \in Slots, s.recv_window[i].tag = "Occupied"
      PROVE  /\ v.recv_window[i].seq_no = s.recv_window[i].seq_no
             /\ v.recv_window[i].reply_no = s.recv_window[i].reply_no
             /\ v.recv_window[i].data
                    = IF s.recv_window[i].data = t THEN Nobody ELSE s.recv_window[i].data
  <2> DEFINE e == s.recv_window[i]
  <2>1. e \in OccupiedEntry /\ v.recv_window[i] = Abandoned(t, e)
    BY <1>1, <1>4, RecvEntryFacts DEF Slots, SeqExState
  <2> HIDE DEF e
  <2>2. Abandoned(t, e).seq_no = e.seq_no /\ Abandoned(t, e).reply_no = e.reply_no
        /\ Abandoned(t, e).data = IF e.data = t THEN Nobody ELSE e.data
    BY <2>1 DEF OccupiedEntry, Abandoned
  <2> QED
    BY <2>1, <2>2 DEF e
<1>5. \A i \in Slots :
        /\ s.send_window[i] = None => v.send_window[i] = None
        /\ s.recv_window[i].tag # "Occupied" => v.recv_window[i] = s.recv_window[i]
  BY <1>1 DEF Slots
<1>6. Fewer(s, v)
  BY <1>3, <1>4, <1>5 DEF Fewer
<1>7. Free(v, t)
  <2>1. SUFFICES ASSUME NEW i \in Slots PROVE SentBy(v, i) # t /\ SavedBy(v, i) # t
    BY DEF Free
  <2>2. SentBy(v, i) # t
    BY <1>2, <1>3, <1>5 DEF SentBy
  <2>3. SavedBy(v, i) # t
    BY <1>2, <1>4, <1>5 DEF SavedBy
  <2> QED
    BY <2>2, <2>3
<1> QED
  BY <1>6, <1>7 DEF v

LEMMA CancelHeld ==
    ASSUME JInv, NEW t \in Task, Cancel(t)
    PROVE  Held'
<1> USE DEF JInv, IInv, Held
<1> DEFINE gone == [pc EXCEPT ![t] = "idle"]
           more == leaked (+) SetToBag({result[t]})
<1>1. /\ pc[t] \in Awaits
      /\ IF pc[t] = "woken_on_recv" THEN NotifyOneOf(gone) ELSE pc' = gone
      /\ leaked' = IF result[t] \in ReplyGuard THEN more ELSE leaked
      /\ result' = [result EXCEPT ![t] = Pending] /\ sent_as' = [sent_as EXCEPT ![t] = None]
      /\ seq' = Abandon(seq, t) /\ reply_waiters' = reply_waiters /\ lock_guards' = lock_guards
      /\ guards' = guards /\ missed' = missed /\ resume' = resume /\ waking' = waking
  BY DEF Cancel
<1>2. /\ result \in [Task -> Result] /\ sent_as \in [Task -> OptSeqNo] /\ seq \in SeqExState
      /\ IsABag(guards) /\ IsABag(leaked) /\ resume \in [Task -> Place]
      /\ pc \in [Task -> Place] /\ waking \in [Task -> Nat]
      /\ "idle" \in Place /\ "idle" \notin OnRecv
  BY DEF TypeOK, Place, OnRecv
<1>3. pc[t] \notin {"notify_recv", "notify_reply"}
  BY <1>1 DEF Awaits
<1>4. Moved(t, "idle", "idle", 0)
  <2>1. /\ pc' \in [Task -> Place] /\ pc'[t] = "idle"
        /\ \A u \in Task \ {t} : pc'[u] = pc[u]
                                 \/ (pc[u] = "wait_on_recv" /\ pc'[u] = "woken_on_recv")
    <3>1. CASE pc[t] = "woken_on_recv"
      BY <1>1, <1>2, <3>1, NotifyOneOfFacts
    <3>2. CASE pc[t] # "woken_on_recv"
      BY <1>1, <1>2, <3>2
    <3> QED
      BY <3>1, <3>2
  <2>2. waking[t] = 0 /\ resume[t] = "idle"
    BY <1>3, IdleFacts
  <2> QED
    BY <1>1, <1>2, <2>1, <2>2 DEF Moved
<1>5. /\ result'[t] = Pending /\ sent_as'[t] = None
      /\ \A w \in Task \ {t} : result'[w] = result[w] /\ sent_as'[w] = sent_as[w]
  BY <1>1, <1>2
<1>6. /\ seq' \in SeqExState /\ SameReplies(seq, seq') /\ Fewer(seq, seq') /\ Free(seq', t)
  BY <1>1, <1>2, AbandonFacts, AbandonFewer
<1>7. Channels'
  <2>1. Calls(seq', result, sent_as)
    BY <1>6, CallsFewer DEF Channels
  <2>2. Calls(seq', result', sent_as')
    <3> DEFINE v == seq'
               rs == result'
               ss == sent_as'
    <3>1. /\ \A w \in Task \ {t} : rs[w] = result[w] /\ ss[w] = sent_as[w]
          /\ ss[t] # None => Answers(rs[t], ss[t])
      BY <1>5
    <3>2. Calls(v, result, sent_as) /\ v \in SeqExState /\ Free(v, t)
      BY <1>6, <2>1
    <3> HIDE DEF v, rs, ss
    <3>3. Calls(v, rs, ss)
      BY <3>1, <3>2, CallsOther
    <3> QED
      BY <3>3 DEF v, rs, ss
  <2>3. \A w \in Task \ {t} : /\ sent_as'[w] = sent_as[w]
                              /\ Free(seq, w) => Free(seq', w) /\ result'[w] = result[w]
    BY <1>5, <1>6, FewerFree
  <2>4. Detached'
    BY <1>2, <1>4, <1>5, <1>6, <2>3, DetachedMoves DEF Channels
  <2> QED
    BY <2>2, <2>4 DEF Channels
<1>8. /\ IsABag(more) /\ BagToSet(more) = BagToSet(leaked) \cup {result[t]}
      /\ \A e : Copies(e, more) = Copies(e, leaked) + (IF e = result[t] THEN 1 ELSE 0)
  BY <1>2, BagAddOne
<1> HIDE DEF more
<1>9. Owned'
  <2> DEFINE M == leaked'
             v == seq'
  <2>1. IsABag(M)
    BY <1>1, <1>2, <1>8
  <2>2. \A e : Copies(e, guards) \in Nat /\ Copies(e, leaked) \in Nat
    BY <1>2, CopiesType
  <2>3. ASSUME result[t] \in ReplyGuard, NEW e
        PROVE  Copies(e, guards) + Copies(e, M)
                 = (Copies(e, guards) + Copies(e, leaked)) + (IF e = result[t] THEN 1 ELSE 0)
    BY <1>1, <1>8, <2>2, <2>3
  <2>4. result[t] \notin ReplyGuard => guards = guards /\ M = leaked
    BY <1>1
  <2>5. OwnersIn(v, result, guards, leaked, lock_guards)
    BY <1>6, OwnersSame DEF Owned
  <2> HIDE DEF M, v
  <2>6. result[t] \in ReplyGuard => OneMore(guards, leaked, guards, M, result[t])
    BY <2>3 DEF OneMore
  <2>7. OwnersIn(v, [result EXCEPT ![t] = Pending], guards, M, lock_guards)
    BY <1>2, <2>1, <2>4, <2>5, <2>6, OwnersReturned
  <2> QED
    BY <1>1, <2>7 DEF Owned, M, v
<1>10. Notified'
  BY <1>1, <1>3, <1>4, NotifiedMoves
<1>11. GuardLeft'
  <2>1. SomeGuard => SomeGuard'
    BY <1>1, <1>5, <1>8 DEF SomeGuard
  <2> QED
    BY <1>1, <2>1 DEF GuardLeft
<1> QED
  BY <1>7, <1>9, <1>10, <1>11

\* receive_inner wakes senders of wait_on_recv only, and its call may await its channel.
LEMMA ReceivesMoves ==
    ASSUME TypeOK, Flow, NEW t \in Task, pc[t] = "idle",
           NEW n \in Nat, NEW place \in {"return", "idle"}, WakeSenders(t, n, place)
    PROVE  \E p, q, k :
                /\ p \in {"notify_recv", "return", "idle"}
                /\ Moved(t, p, q, k)
                /\ (IF p \in {"notify_recv", "notify_reply"} THEN q ELSE p) = place
<1> DEFINE k == Min({recv_waiters, n})
           p == IF k > 0 THEN "notify_recv" ELSE place
           q == IF k > 0 THEN place ELSE "idle"
<1>1. k \in Nat
  BY MinOfTwo DEF TypeOK
<1>2. /\ waking' = [waking EXCEPT ![t] = k]
      /\ pc' = [pc EXCEPT ![t] = p] /\ resume' = [resume EXCEPT ![t] = q]
  BY DEF WakeSenders
<1> HIDE DEF k
<1>3. /\ p \in Place /\ q \in Place /\ p \in {"notify_recv", "return", "idle"}
      /\ (IF p \in {"notify_recv", "notify_reply"} THEN q ELSE p) = place
  BY DEF Place
<1> HIDE DEF p, q
<1>4. Moved(t, p, q, k)
  BY <1>1, <1>2, <1>3, GotoMoves
<1> QED
  BY <1>3, <1>4

\* Whoever had a guard for its result still has it.
LEMMA GuardLeftTold ==
    ASSUME GuardLeft, Channels, result \in [Task -> Result],
           \A w \in Task : Free(seq, w) /\ result[w] # Pending => result'[w] = result[w],
           reply_waiters' = reply_waiters, guards' = guards, leaked' = leaked,
           lock_guards' = lock_guards
    PROVE  GuardLeft'
<1>1. ASSUME NEW w \in Task, result[w] \in ReplyGuard PROVE result'[w] = result[w]
  <2>1. result[w] # Pending
    BY <1>1, GuardFacts
  <2>2. Free(seq, w)
    BY <2>1, ToldFree DEF Channels
  <2> QED
    BY <2>1, <2>2
<1>2. SomeGuard => SomeGuard'
  BY <1>1 DEF SomeGuard
<1> QED
  BY <1>2 DEF GuardLeft

LEMMA ReceiveDataHeld ==
    ASSUME JInv, NEW t \in Task, NEW m \in Remote, ReceiveData(t, m)
    PROVE  Held'
<1> USE DEF JInv, IInv, Held
<1>1. /\ pc[t] = "idle" /\ reply_waiters' = reply_waiters /\ guards' = guards
      /\ lock_guards' = lock_guards /\ leaked' = leaked /\ sent_as' = sent_as /\ missed' = missed
  BY DEF ReceiveData, held, history
<1>2. result[t] = Pending /\ sent_as[t] = None /\ Free(seq, t) /\ Calls(seq, result, sent_as)
  <2>1. Where(t) \notin Attached
    BY <1>1 DEF Where, Attached
  <2> QED
    BY <2>1 DEF Channels, Detached
<1>3. /\ seq \in SeqExState /\ result \in [Task -> Result] /\ resume \in [Task -> Place]
      /\ IsABag(guards) /\ IsABag(leaked)
  BY DEF TypeOK
<1>4. CASE ReceiveRefuses(t, AsReceived(m, t))
  <2>1. /\ Calls(seq', result, sent_as) /\ SameReplies(seq, seq')
        /\ \A w \in Task \ {t} : Free(seq, w) => Free(seq', w)
    BY <1>2, <1>4, RefusesHeld
  <2>2. PICK p \in {"idle", "await"} : Goto(t, p) /\ (p = "idle" => seq' = seq)
    BY <1>4 DEF ReceiveRefuses
  <2>3. result' = result
    BY <1>4 DEF ReceiveRefuses
  <2>4. Moved(t, p, "idle", 0)
    <3>1. p \in Place /\ pc[t] \notin {"notify_recv", "notify_reply"}
      BY <1>1 DEF Place, Awaits
    <3> QED
      BY <2>2, <3>1, GotoPlain
  <2>5. Channels'
    <3>1. \A w \in Task \ {t} : /\ sent_as'[w] = sent_as[w]
                                /\ Free(seq, w) => Free(seq', w) /\ result'[w] = result[w]
      BY <1>1, <2>1, <2>3
    <3>2. p \notin Attached => result'[t] = Pending /\ sent_as'[t] = None /\ Free(seq', t)
      BY <1>1, <1>2, <2>2, <2>3 DEF Attached
    <3>3. Detached'
      BY <1>3, <2>4, <3>1, <3>2, DetachedMoves DEF Channels
    <3> QED
      BY <1>1, <2>1, <2>3, <3>3 DEF Channels
  <2>6. Owned'
    <3>1. OwnersIn(seq', result, guards, leaked, lock_guards)
      BY <2>1, OwnersSame DEF Owned
    <3> QED
      BY <1>1, <2>3, <3>1 DEF Owned
  <2>7. Notified'
    BY <1>1, <2>4, NotifiedMoves
  <2>8. GuardLeft'
    BY <1>1, <1>3, <2>3, GuardLeftTold
  <2> QED
    BY <2>5, <2>6, <2>7, <2>8
<1>5. CASE ReceiveDelivers(t, AsReceived(m, t))
  <2> DEFINE xh == Elsewhere(guards, leaked, TRUE)
             xf == Elsewhere(guards, leaked, FALSE)
  <2>1. xh \in [SeqNo -> Nat] /\ xf \in [SeqNo -> Nat]
    BY <1>3, ElsewhereType
  <2>2. OwnersMatch(seq, result, xh, xf, lock_guards)
    BY DEF Owned, OwnersIn
  <2> HIDE DEF xh, xf
  <2>3. /\ Calls(seq', result', sent_as) /\ OwnersMatch(seq', result', xh, xf, lock_guards)
        /\ Fewer(seq, seq') /\ \A w \in Task \ {t} : Free(seq, w) => result'[w] = result[w]
        /\ \E n \in Nat, place \in {"return", "idle"} :
             /\ WakeSenders(t, n, place)
             /\ place = "idle" => result'[t] = Pending
    BY <1>2, <1>5, <2>1, <2>2, DeliversHeld
  <2>4. PICK n \in Nat, place \in {"return", "idle"} :
             /\ WakeSenders(t, n, place)
             /\ place = "idle" => result'[t] = Pending
    BY <2>3
  <2>5. PICK p, q, k :
                /\ p \in {"notify_recv", "return", "idle"}
                /\ Moved(t, p, q, k)
                /\ (IF p \in {"notify_recv", "notify_reply"} THEN q ELSE p) = place
    BY <1>1, <2>4, ReceivesMoves
  <2>6. Channels'
    <3>1. \A w \in Task : Free(seq, w) => Free(seq', w)
      BY <2>3, FewerFree
    <3>2. \A w \in Task \ {t} : /\ sent_as'[w] = sent_as[w]
                                /\ Free(seq, w) => Free(seq', w) /\ result'[w] = result[w]
      BY <1>1, <2>3, <3>1
    <3>3. place \notin Attached => result'[t] = Pending /\ sent_as'[t] = None /\ Free(seq', t)
      BY <1>1, <1>2, <2>4, <3>1 DEF Attached
    <3>4. Detached'
      BY <1>3, <2>5, <3>2, <3>3, DetachedMoves DEF Channels
    <3> QED
      BY <1>1, <2>3, <3>4 DEF Channels
  <2>7. Owned'
    BY <1>1, <2>3 DEF Owned, OwnersIn, xh, xf
  <2>8. Notified'
    BY <1>1, <2>5, NotifiedMoves
  <2>9. GuardLeft'
    BY <1>1, <1>2, <1>3, <2>3, GuardLeftTold
  <2> QED
    BY <2>6, <2>7, <2>8, <2>9
<1> QED
  BY <1>4, <1>5 DEF ReceiveData

LEMMA ReceiveAckHeld ==
    ASSUME JInv, NEW t \in Task, NEW r \in SeqNo, ReceiveAck(t, r)
    PROVE  Held'
<1> USE DEF JInv, IInv, Held
<1> DEFINE u == SentEntry(seq, r).data
           v == TakeSend(seq, r)
           told == Told(result, u, EndOfExchange)
<1>1. /\ pc[t] = "idle" /\ SentEntry(seq, r) # None /\ Acks(r)
      /\ seq' = v /\ result' = told /\ WakeSenders(t, 1, "idle")
      /\ reply_waiters' = reply_waiters /\ guards' = guards
      /\ lock_guards' = lock_guards /\ leaked' = leaked /\ sent_as' = sent_as /\ missed' = missed
  BY DEF ReceiveAck, held, history
<1>2. result[t] = Pending /\ sent_as[t] = None /\ Free(seq, t) /\ Calls(seq, result, sent_as)
  <2>1. Where(t) \notin Attached
    BY <1>1 DEF Where, Attached
  <2> QED
    BY <2>1 DEF Channels, Detached
<1>3. /\ seq \in SeqExState /\ result \in [Task -> Result] /\ resume \in [Task -> Place]
      /\ IsABag(guards) /\ IsABag(leaked)
  BY DEF TypeOK
<1>4. /\ Fewer(seq, v) /\ SentEntry(v, r) = None /\ v \in SeqExState
      /\ v = [seq EXCEPT !.send_window = v.send_window]
  BY <1>3, TakeSendTakes, TakeSendFacts
<1>5. SameReplies(seq, v)
  <2> HIDE DEF v
  <2> QED
    BY <1>3, <1>4 DEF SameReplies, SeqExState
<1>6. u \in Data /\ (u \in Task => result[u] = Pending /\ sent_as[u] = r /\ Free(v, u)
                                   /\ ~Free(seq, u))
  BY <1>1, <1>2, <1>3, <1>4, SenderTaken
<1> HIDE DEF u, v
<1>7. Calls(v, told, sent_as)
  <2>1. Calls(v, result, sent_as)
    BY <1>2, <1>4, CallsFewer
  <2>2. u \in Task => Free(v, u) /\ (sent_as[u] # None => Answers(EndOfExchange, sent_as[u]))
    <3>1. \A m \in Remote : m.reply_no # r
      BY <1>1 DEF Acks
    <3> QED
      BY <1>6, <3>1, GuardFacts DEF Answers
  <2> QED
    BY <1>3, <1>4, <1>6, <2>1, <2>2, CallsTold
<1>8. OwnersIn(v, told, guards, leaked, lock_guards)
  <2> DEFINE xh == Elsewhere(guards, leaked, TRUE)
             xf == Elsewhere(guards, leaked, FALSE)
  <2>1. xh \in [SeqNo -> Nat] /\ xf \in [SeqNo -> Nat]
    BY <1>3, ElsewhereType
  <2>2. OwnersMatch(v, result, xh, xf, lock_guards)
    BY <1>5, OwnersSame DEF Owned, OwnersIn
  <2> HIDE DEF xh, xf
  <2>3. EndOfExchange \notin ReplyGuard /\ (u \in Task => result[u] \notin ReplyGuard)
    BY <1>6, GuardFacts
  <2>4. OwnersMatch(v, told, xh, xf, lock_guards)
    BY <1>3, <1>6, <2>1, <2>2, <2>3, OwnersTold
  <2> QED
    BY <2>4 DEF OwnersIn, xh, xf
<1>9. \A w \in Task : w # u => told[w] = result[w]
  BY <1>3 DEF Told
<1> HIDE DEF told
<1>10. PICK p, q, k :
                /\ p \in {"notify_recv", "return", "idle"}
                /\ Moved(t, p, q, k)
                /\ (IF p \in {"notify_recv", "notify_reply"} THEN q ELSE p) = "idle"
  <2>1. 1 \in Nat /\ "idle" \in {"return", "idle"}
    OBVIOUS
  <2> QED
    BY <1>1, <2>1, ReceivesMoves
<1>11. \A w \in Task : Free(seq, w) => Free(seq', w) /\ result'[w] = result[w]
  BY <1>1, <1>4, <1>6, <1>9, FewerFree
<1>12. Channels'
  <2>1. \A w \in Task \ {t} : /\ sent_as'[w] = sent_as[w]
                              /\ Free(seq, w) => Free(seq', w) /\ result'[w] = result[w]
    BY <1>1, <1>11
  <2>2. result'[t] = Pending /\ sent_as'[t] = None /\ Free(seq', t)
    BY <1>1, <1>2, <1>11
  <2>3. Detached'
    BY <1>3, <1>10, <2>1, <2>2, DetachedMoves DEF Channels
  <2> QED
    BY <1>1, <1>7, <2>3 DEF Channels
<1>13. Owned'
  BY <1>1, <1>8 DEF Owned
<1>14. Notified'
  BY <1>1, <1>10, NotifiedMoves
<1>15. GuardLeft'
  BY <1>1, <1>3, <1>11, GuardLeftTold
<1> QED
  BY <1>12, <1>13, <1>14, <1>15

\* notify_reply, as a guard is consumed: whoever waited will be woken.
LEMMA NotifyReplyHeld ==
    ASSUME JInv, NEW t \in Task, NEW place \in {"idle", "queue", "await"},
           pc[t] = "idle", NotifyReply(t, place), missed' = missed
    PROVE  /\ Notified' /\ GuardLeft'
           /\ \E p, q : /\ Moved(t, p, q, 0)
                        /\ (IF p \in {"notify_recv", "notify_reply"} THEN q ELSE p) = place
<1> USE DEF JInv, IInv, Held
<1> DEFINE p == IF reply_waiters THEN "notify_reply" ELSE place
           q == IF reply_waiters THEN place ELSE "idle"
<1>1. waking[t] = 0 /\ waking \in [Task -> Nat] /\ 0 \in Nat
  BY IdleFacts DEF TypeOK
<1>2. /\ pc' = [pc EXCEPT ![t] = p] /\ resume' = [resume EXCEPT ![t] = q]
      /\ waking' = [waking EXCEPT ![t] = 0] /\ reply_waiters' = FALSE
  BY <1>1 DEF NotifyReply
<1>3. /\ p \in Place /\ q \in Place /\ (reply_waiters => p = "notify_reply")
      /\ p \notin {"gap_reply", "wait_on_reply"}
      /\ (IF p \in {"notify_recv", "notify_reply"} THEN q ELSE p) = place
  BY DEF Place, Awaits
<1> HIDE DEF p, q
<1>4. Moved(t, p, q, 0)
  BY <1>1, <1>2, <1>3, GotoMoves
<1>5. pc[t] # "notify_reply"
  OBVIOUS
<1>6. Notified'
  BY <1>3, <1>4, <1>5, NotifiedMoves
<1>7. GuardLeft'
  BY <1>2 DEF GuardLeft
<1> QED
  BY <1>3, <1>4, <1>6, <1>7

\* A task outside of any call does something that leaves the windows alone.
LEMMA IdleChannels ==
    ASSUME TypeOK, Flow, Channels, NEW t \in Task, pc[t] = "idle",
           NEW p, NEW q, NEW n, Moved(t, p, q, n),
           seq'.send_window = seq.send_window, seq'.recv_window = seq.recv_window,
           result' = result, sent_as' = sent_as
    PROVE  Channels'
<1>1. result[t] = Pending /\ sent_as[t] = None /\ Free(seq, t)
  <2>1. Where(t) \notin Attached
    BY DEF Where, Attached
  <2> QED
    BY <2>1 DEF Channels, Detached
<1>2. Fewer(seq, seq')
  BY SameFewer
<1>3. Calls(seq', result', sent_as')
  BY <1>2, CallsFewer DEF Channels
<1>4. \A w \in Task : Free(seq, w) => Free(seq', w)
  BY <1>2, FewerFree
<1>5. Detached'
  BY <1>1, <1>4, DetachedMoves DEF Channels, TypeOK
<1> QED
  BY <1>3, <1>5 DEF Channels

\* The guard that is consumed is one owner of its number, apart from the rest of them.
LEMMA OwnerTaken ==
    ASSUME TypeOK, Owned, NEW g \in BagToSet(guards),
           NEW rest, rest = guards (-) SetToBag({g}),
           NEW i \in Nat, NEW j \in Nat, Split(g.is_holding_lock, i, j)
    PROVE  /\ Elsewhere(rest, leaked, TRUE) \in [SeqNo -> Nat]
           /\ Elsewhere(rest, leaked, FALSE) \in [SeqNo -> Nat]
           /\ OwnersMatch(seq, result, Plus(Elsewhere(rest, leaked, TRUE), g.reply_no, i),
                          Plus(Elsewhere(rest, leaked, FALSE), g.reply_no, j), lock_guards)
           /\ Reserved(seq, g.reply_no)
<1> DEFINE r == g.reply_no
           c == g.is_holding_lock
           xh == Elsewhere(rest, leaked, TRUE)
           xf == Elsewhere(rest, leaked, FALSE)
<1>1. r \in SeqNo /\ c \in BOOLEAN /\ BagIn(g, guards) /\ g = Guard(r, c)
  BY GuardInHand, GuardFacts
<1>2. IsABag(guards) /\ IsABag(leaked) /\ seq \in SeqExState /\ result \in [Task -> Result]
  BY DEF TypeOK
<1>3. /\ IsABag(rest) /\ \A e : Copies(e, rest) = Copies(e, guards) - (IF e = g THEN 1 ELSE 0)
  BY <1>1, <1>2, BagTakeOne
<1> HIDE DEF r, c
<1>4. OneMore(rest, leaked, guards, leaked, Guard(r, c))
  <2>1. SUFFICES ASSUME NEW e
                 PROVE  Copies(e, guards) + Copies(e, leaked)
                          = (Copies(e, rest) + Copies(e, leaked)) + (IF e = g THEN 1 ELSE 0)
    BY <1>1 DEF OneMore
  <2>2. Copies(e, guards) \in Nat /\ Copies(e, leaked) \in Nat
    BY <1>2, CopiesType
  <2> QED
    BY <1>3, <2>2
<1>5. xh \in [SeqNo -> Nat] /\ xf \in [SeqNo -> Nat]
  BY <1>2, <1>3, ElsewhereType
<1>6. Split(c, i, j)
  BY DEF c
<1>7. OwnersIn(seq, result, guards, leaked, lock_guards)
        <=> OwnersMatch(seq, result, Plus(xh, r, i), Plus(xf, r, j), lock_guards)
  BY <1>1, <1>2, <1>3, <1>4, <1>6, OwnersSplit
<1> HIDE DEF xh, xf
<1>8. OwnersMatch(seq, result, Plus(xh, r, i), Plus(xf, r, j), lock_guards)
  BY <1>7 DEF Owned
<1>9. Reserved(seq, r)
  <2>1. i \in {0, 1} /\ j \in {0, 1} /\ i + j = 1
    BY DEF Split
  <2> QED
    BY <1>1, <1>2, <1>5, <1>8, <2>1, OwnedReserved
<1> QED
  BY <1>5, <1>8, <1>9 DEF xh, xf, r

\* It gives its number back, and the lock if it holds it.
LEMMA OwnerConsumed ==
    ASSUME TypeOK, Owned, NEW g \in BagToSet(guards),
           NEW v \in SeqExState,
           v.concurrent_replies = RemoveReservation(seq, g.reply_no).concurrent_replies,
           v.is_locked = (seq.is_locked /\ ~g.is_holding_lock)
    PROVE  OwnersIn(v, result, guards (-) SetToBag({g}), leaked, lock_guards)
<1> DEFINE rest == guards (-) SetToBag({g})
           xh == Elsewhere(rest, leaked, TRUE)
           xf == Elsewhere(rest, leaked, FALSE)
<1>1. g.reply_no \in SeqNo /\ g.is_holding_lock \in BOOLEAN
  BY GuardInHand
<1>2. seq \in SeqExState /\ result \in [Task -> Result]
  BY DEF TypeOK
<1>3. PICK i \in Nat, j \in Nat : Split(g.is_holding_lock, i, j)
  BY <1>1, SplitExists
<1>4. /\ xh \in [SeqNo -> Nat] /\ xf \in [SeqNo -> Nat] /\ Reserved(seq, g.reply_no)
      /\ OwnersMatch(seq, result, Plus(xh, g.reply_no, i), Plus(xf, g.reply_no, j), lock_guards)
  BY <1>3, OwnerTaken
<1> HIDE DEF xh, xf
<1>5. \A r \in SeqNo : Reservations(v, r)
                         = Reservations(seq, r) - (IF r = g.reply_no THEN 1 ELSE 0)
  BY <1>1, <1>2, <1>4, RemovedReservations
<1>6. OwnersMatch(v, result, xh, xf, lock_guards)
  BY <1>1, <1>2, <1>3, <1>4, <1>5, OwnersRemoved
<1> QED
  BY <1>6 DEF OwnersIn, xh, xf

LEMMA DropGuardHeld ==
    ASSUME JInv, NEW t \in Task, NEW g \in BagToSet(guards),
           DropGuard(t, g) \/ (AckGuard(t, g) /\ ~g.is_holding_lock)
    PROVE  Held'
<1> USE DEF JInv, IInv, Held
<1>1. /\ pc[t] = "idle" /\ guards' = guards (-) SetToBag({g}) /\ NotifyReply(t, "idle")
      /\ seq' = AckRaw(seq, g.reply_no, g.is_holding_lock) /\ leaked' = leaked
      /\ missed' = missed /\ result' = result /\ lock_guards' = lock_guards /\ sent_as' = sent_as
  <2>1. CASE DropGuard(t, g)
    BY <2>1 DEF DropGuard, Consume
  <2>2. CASE AckGuard(t, g) /\ ~g.is_holding_lock
    <3>1. g.is_holding_lock = FALSE
      BY <2>2, GuardInHand
    <3> QED
      BY <2>2, <3>1 DEF AckGuard, Consume
  <2> QED
    BY <2>1, <2>2
<1>2. seq \in SeqExState /\ g.reply_no \in SeqNo /\ g.is_holding_lock \in BOOLEAN
  BY GuardInHand DEF TypeOK
<1>3. Reserved(seq, g.reply_no)
  BY <1>2, SplitExists, OwnerTaken
<1>4. /\ seq'.send_window = seq.send_window /\ seq'.recv_window = seq.recv_window
      /\ seq' \in SeqExState
      /\ seq'.concurrent_replies = RemoveReservation(seq, g.reply_no).concurrent_replies
      /\ seq'.is_locked = (seq.is_locked /\ ~g.is_holding_lock)
  BY <1>1, <1>2, <1>3, AckRawType, AckRawKeeps DEF SameSendSide
<1>5. Owned'
  <2>1. OwnersIn(seq', result, guards (-) SetToBag({g}), leaked, lock_guards)
    <3> DEFINE v == seq'
    <3>1. /\ v \in SeqExState
          /\ v.concurrent_replies = RemoveReservation(seq, g.reply_no).concurrent_replies
          /\ v.is_locked = (seq.is_locked /\ ~g.is_holding_lock)
      BY <1>4
    <3> HIDE DEF v
    <3>2. OwnersIn(v, result, guards (-) SetToBag({g}), leaked, lock_guards)
      BY <3>1, OwnerConsumed
    <3> QED
      BY <3>2 DEF v
  <2> QED
    BY <1>1, <2>1 DEF Owned
<1>6. /\ Notified' /\ GuardLeft' /\ \E p, q : Moved(t, p, q, 0)
  BY <1>1, NotifyReplyHeld
<1>7. Channels'
  BY <1>1, <1>4, <1>6, IdleChannels
<1> QED
  BY <1>5, <1>6, <1>7

\* consume_lock: the lock stays behind as a SeqCstGuard.
LEMMA AckGuardHeld ==
    ASSUME JInv, NEW t \in Task, NEW g \in BagToSet(guards), AckGuard(t, g), g.is_holding_lock
    PROVE  Held'
<1> USE DEF JInv, IInv, Held
<1> DEFINE v == AckRaw(seq, g.reply_no, FALSE)
           rest == guards (-) SetToBag({g})
           xh == Elsewhere(rest, leaked, TRUE)
           xf == Elsewhere(rest, leaked, FALSE)
           n == g.reply_no
<1>1. /\ pc[t] = "idle" /\ guards' = rest /\ seq' = v /\ lock_guards' = lock_guards + 1
      /\ pc' = pc /\ resume' = resume /\ waking' = waking /\ reply_waiters' = reply_waiters
      /\ leaked' = leaked /\ missed' = missed /\ result' = result /\ sent_as' = sent_as
  BY DEF AckGuard, Consume, flow
<1>2. /\ seq \in SeqExState /\ n \in SeqNo /\ result \in [Task -> Result] /\ lock_guards \in Nat
      /\ FALSE \in BOOLEAN
  BY GuardInHand DEF TypeOK
<1>3. Split(g.is_holding_lock, 1, 0) /\ 1 \in Nat /\ 0 \in Nat
  BY DEF Split
<1>4. /\ xh \in [SeqNo -> Nat] /\ xf \in [SeqNo -> Nat] /\ Reserved(seq, n)
      /\ OwnersMatch(seq, result, Plus(xh, n, 1), Plus(xf, n, 0), lock_guards)
  BY <1>3, OwnerTaken
<1>5. /\ v.send_window = seq.send_window /\ v.recv_window = seq.recv_window
      /\ v \in SeqExState
      /\ v.concurrent_replies = RemoveReservation(seq, n).concurrent_replies
      /\ v.is_locked = seq.is_locked
  <2>1. v.is_locked = (seq.is_locked /\ ~FALSE) /\ seq.is_locked \in BOOLEAN
    BY <1>2, <1>4, AckRawType DEF SeqExState
  <2> QED
    BY <1>2, <1>4, <2>1, AckRawType, AckRawKeeps DEF SameSendSide
<1> HIDE DEF v, xh, xf, n
<1>6. OwnersMatch(v, result, xh, xf, lock_guards + 1)
  <2> DEFINE h == Hold(result, TRUE, xh)
             f == Hold(result, FALSE, xf)
  <2>1. h \in [SeqNo -> Nat] /\ f \in [SeqNo -> Nat]
    BY <1>2, <1>4, HoldType
  <2>2. Hold(result, TRUE, Plus(xh, n, 1)) = Plus(h, n, 1)
    <3>1. \A b \in BOOLEAN :
            /\ Hold(result, b, Plus(xh, n, 1)) = Plus(Hold(result, b, xh), n, 1)
            /\ Hold(result, b, Plus(xf, n, 0)) = Plus(Hold(result, b, xf), n, 0)
      BY <1>2, <1>3, <1>4, HoldPlusBoth
    <3> QED
      BY ONLY <3>1
  <2>3. Plus(xf, n, 0) = xf
    BY <1>2, <1>3, <1>4, PlusFacts
  <2> HIDE DEF h
  <2>4. Matches(Plus(h, n, 1), f, lock_guards, seq)
    BY <1>4, <2>2, <2>3 DEF OwnersMatch
  <2>5. \A r \in SeqNo : Reservations(v, r) = Reservations(seq, r) - (IF r = n THEN 1 ELSE 0)
    BY <1>2, <1>4, <1>5, RemovedReservations
  <2> HIDE DEF f
  <2>6. Matches(h, f, lock_guards + 1, v)
    BY <1>2, <1>5, <2>1, <2>4, <2>5, MatchesKeepsLock
  <2> QED
    BY <2>6 DEF OwnersMatch, h, f
<1>7. Owned'
  BY <1>1, <1>6 DEF Owned, OwnersIn, xh, xf
<1>8. Moved(t, "idle", "idle", 0)
  <2>1. waking[t] = 0 /\ resume[t] = "idle"
    BY <1>1, IdleFacts
  <2> QED
    BY <1>1, <2>1 DEF Moved, TypeOK
<1>9. Channels'
  BY <1>1, <1>5, <1>8, IdleChannels
<1>10. Notified'
  BY <1>1, <1>8, NotifiedMoves
<1>11. GuardLeft'
  BY <1>1, <1>2 DEF GuardLeft, SomeGuard
<1> QED
  BY <1>7, <1>9, <1>10, <1>11

\* unlock: the guard gives the lock back and keeps its number.
LEMMA UnlockGuardHeld ==
    ASSUME JInv, NEW t \in Task, NEW g \in BagToSet(guards), UnlockGuard(t, g)
    PROVE  Held'
<1> USE DEF JInv, IInv, Held
<1> DEFINE v == UnlockRaw(seq)
           rest == guards (-) SetToBag({g})
           xh == Elsewhere(rest, leaked, TRUE)
           xf == Elsewhere(rest, leaked, FALSE)
           n == g.reply_no
           k == Guard(n, FALSE)
           H == rest (+) SetToBag({k})
<1>1. /\ pc[t] = "idle" /\ g.is_holding_lock /\ guards' = H /\ seq' = v
      /\ NotifyReply(t, "idle") /\ lock_guards' = lock_guards
      /\ leaked' = leaked /\ missed' = missed /\ result' = result /\ sent_as' = sent_as
  BY DEF UnlockGuard, history
<1>2. /\ seq \in SeqExState /\ n \in SeqNo /\ result \in [Task -> Result]
      /\ FALSE \in BOOLEAN /\ IsABag(rest) /\ IsABag(leaked)
  BY GuardInHand DEF TypeOK
<1>3. Split(g.is_holding_lock, 1, 0) /\ 1 \in Nat /\ 0 \in Nat
  BY <1>1 DEF Split
<1>4. /\ xh \in [SeqNo -> Nat] /\ xf \in [SeqNo -> Nat]
      /\ OwnersMatch(seq, result, Plus(xh, n, 1), Plus(xf, n, 0), lock_guards)
  BY <1>3, OwnerTaken
<1>5. /\ v.send_window = seq.send_window /\ v.recv_window = seq.recv_window
      /\ v \in SeqExState /\ ~v.is_locked /\ v.concurrent_replies = seq.concurrent_replies
  BY <1>2, UnlockRawType DEF UnlockRaw, SeqExState
<1>6. IsABag(H) /\ \A e : Copies(e, H) = Copies(e, rest) + (IF e = k THEN 1 ELSE 0)
  <2> HIDE DEF rest, k
  <2> QED
    BY <1>2, BagAddOne
<1>7. OneMore(rest, leaked, H, leaked, Guard(n, FALSE))
  <2> HIDE DEF H
  <2>1. SUFFICES ASSUME NEW e
                 PROVE  Copies(e, H) + Copies(e, leaked)
                          = (Copies(e, rest) + Copies(e, leaked)) + (IF e = k THEN 1 ELSE 0)
    BY DEF OneMore
  <2>2. Copies(e, rest) \in Nat /\ Copies(e, leaked) \in Nat
    BY <1>2, CopiesType
  <2>3. Copies(e, H) = Copies(e, rest) + (IF e = k THEN 1 ELSE 0)
    BY <1>6
  <2> HIDE DEF rest, k
  <2> QED
    BY <2>2, <2>3
<1> HIDE DEF v, n, rest, k, H
<1>8. OwnersMatch(v, result, xh, Plus(xf, n, 1), lock_guards)
  <2> HIDE DEF xh, xf
  <2> DEFINE h == Hold(result, TRUE, xh)
             f == Hold(result, FALSE, xf)
  <2>1. h \in [SeqNo -> Nat] /\ f \in [SeqNo -> Nat]
    BY <1>2, <1>4, HoldType
  <2>2. Hold(result, TRUE, Plus(xh, n, 1)) = Plus(h, n, 1)
        /\ Hold(result, FALSE, Plus(xf, n, 1)) = Plus(f, n, 1)
    <3>1. \A b \in BOOLEAN :
            /\ Hold(result, b, Plus(xh, n, 1)) = Plus(Hold(result, b, xh), n, 1)
            /\ Hold(result, b, Plus(xf, n, 1)) = Plus(Hold(result, b, xf), n, 1)
      BY <1>2, <1>3, <1>4, HoldPlusBoth
    <3> QED
      BY ONLY <3>1
  <2>3. Plus(xf, n, 0) = xf
    BY <1>2, <1>3, <1>4, PlusFacts
  <2> HIDE DEF h, f
  <2>4. Matches(Plus(h, n, 1), f, lock_guards, seq)
    BY <1>4, <2>2, <2>3 DEF OwnersMatch, f
  <2>5. \A r \in SeqNo : Reservations(v, r) = Reservations(seq, r)
    BY <1>5 DEF Reservations
  <2>6. Matches(h, Plus(f, n, 1), lock_guards, v)
    BY <1>2, <1>5, <2>1, <2>4, <2>5, MatchesUnlocked
  <2> QED
    BY <2>2, <2>6 DEF OwnersMatch, h
<1>9. OwnersIn(v, result, H, leaked, lock_guards)
  <2>1. \A c \in BOOLEAN : c = FALSE => Split(c, 0, 1)
    BY DEF Split
  <2>2. Split(FALSE, 0, 1)
    BY <2>1
  <2>3. OwnersIn(v, result, H, leaked, lock_guards)
          <=> OwnersMatch(v, result, Plus(xh, n, 0), Plus(xf, n, 1), lock_guards)
    BY <1>2, <1>3, <1>6, <1>7, <2>2, OwnersSplit
  <2>4. Plus(xh, n, 0) = xh
    BY <1>2, <1>3, <1>4, PlusFacts
  <2> QED
    BY <1>8, <2>3, <2>4
<1>10. Owned'
  BY <1>1, <1>9 DEF Owned
<1>11. Notified' /\ GuardLeft' /\ \E p, q : Moved(t, p, q, 0)
  BY <1>1, NotifyReplyHeld
<1>12. Channels'
  BY <1>1, <1>5, <1>11, IdleChannels
<1> QED
  BY <1>10, <1>11, <1>12

\* The drop of a SeqCstGuard: the lock is free.
LEMMA DropLockHeld ==
    ASSUME JInv, NEW t \in Task, DropLockGuard(t)
    PROVE  Held'
<1> USE DEF JInv, IInv, Held
<1> DEFINE v == UnlockRaw(seq)
<1>1. /\ pc[t] = "idle" /\ lock_guards > 0 /\ lock_guards' = lock_guards - 1 /\ seq' = v
      /\ NotifyReply(t, "idle") /\ guards' = guards
      /\ leaked' = leaked /\ missed' = missed /\ result' = result /\ sent_as' = sent_as
  BY DEF DropLockGuard, history
<1>2. seq \in SeqExState /\ lock_guards \in Nat
  BY DEF TypeOK
<1>3. /\ v.send_window = seq.send_window /\ v.recv_window = seq.recv_window
      /\ ~v.is_locked /\ v.concurrent_replies = seq.concurrent_replies
  BY <1>2, UnlockRawType DEF UnlockRaw, SeqExState
<1> HIDE DEF v
<1>4. OwnersIn(v, result, guards, leaked, lock_guards - 1)
  <2>1. \A r \in SeqNo : Reservations(v, r) = Reservations(seq, r)
    BY <1>3 DEF Reservations
  <2> QED
    BY <1>1, <1>2, <1>3, <2>1, MatchesDropsLock DEF Owned, OwnersIn, OwnersMatch
<1>5. Owned'
  BY <1>1, <1>4 DEF Owned
<1>6. Notified' /\ GuardLeft' /\ \E p, q : Moved(t, p, q, 0)
  BY <1>1, NotifyReplyHeld
<1>7. Channels'
  BY <1>1, <1>3, <1>6, IdleChannels
<1> QED
  BY <1>5, <1>6, <1>7

\* reply: the guard is consumed, and the call awaits what its packet will bring.
LEMMA ReplyHeld ==
    ASSUME JInv, NEW t \in Task, NEW g \in BagToSet(guards), NEW c \in BOOLEAN, Reply(t, g, c)
    PROVE  Held'
<1> USE DEF JInv, IInv, Held
<1> DEFINE r == g.reply_no
           u == RemoveReservation(seq, r)
           e == NewEntry(seq, 0, r, c, t)
           v == ReplyRaw(seq, 0, r, g.is_holding_lock, c, t)
<1>1. /\ pc[t] = "idle" /\ guards' = guards (-) SetToBag({g}) /\ NotifyReply(t, AfterSend(v))
      /\ seq' = v /\ leaked' = leaked /\ missed' = missed /\ result' = result
      /\ lock_guards' = lock_guards /\ sent_as' = [sent_as EXCEPT ![t] = seq.next_send_seq_no]
  BY DEF Reply, Consume
<1>2. /\ seq \in SeqExState /\ r \in SeqNo /\ g.is_holding_lock \in BOOLEAN
      /\ t \in Data /\ 0 \in Nat /\ r \in OptSeqNo
  BY GuardInHand, TaskAssumption DEF TypeOK, OptSeqNo
<1>3. Reserved(seq, r)
  BY <1>2, SplitExists, OwnerTaken
<1>4. /\ v \in SeqExState /\ v.concurrent_replies = u.concurrent_replies
      /\ v.is_locked = (seq.is_locked /\ ~g.is_holding_lock)
  BY <1>2, <1>3, ReplyRawType
<1>5. e \in SendEntry /\ e.data = t /\ e.seq_no = seq.next_send_seq_no
  <2>1. e \in SendEntry /\ e.seq_no = seq.next_send_seq_no
    BY <1>2, NewEntryFacts
  <2> QED
    BY <2>1 DEF NewEntry
<1>6. /\ v.send_window = [seq.send_window EXCEPT ![Idx(e.seq_no)] = e]
      /\ v.recv_window = seq.recv_window
  <2>1. /\ u \in SeqExState /\ u.next_send_seq_no = seq.next_send_seq_no
        /\ u.send_window = seq.send_window /\ u.recv_window = seq.recv_window
    <3>1. u = [seq EXCEPT !.concurrent_replies = u.concurrent_replies] /\ u \in SeqExState
      BY <1>2, <1>3, RemoveReservationFacts
    <3> HIDE DEF u
    <3> QED
      BY <1>2, <3>1 DEF SeqExState
  <2> HIDE DEF e
  <2> DEFINE w == InsertSend(u, e)
  <2>2. /\ w \in SeqExState /\ w.send_window = [u.send_window EXCEPT ![Idx(e.seq_no)] = e]
        /\ w.recv_window = u.recv_window
    <3> HIDE DEF u
    <3> QED
      BY <1>5, <2>1, InsertSendFacts
  <2>3. v = [w EXCEPT !.is_locked = @ /\ ~g.is_holding_lock]
    BY <1>3 DEF ReplyRaw, e
  <2> HIDE DEF u, w, v
  <2> QED
    BY <2>1, <2>2, <2>3 DEF SeqExState
<1> HIDE DEF e, u, v
<1>7. OwnersIn(v, result, guards (-) SetToBag({g}), leaked, lock_guards)
  BY <1>4, OwnerConsumed DEF u
<1>8. Owned'
  BY <1>1, <1>7 DEF Owned
<1>9. AfterSend(v) \in {"queue", "await"} /\ AfterSend(v) \in {"idle", "queue", "await"}
  BY DEF AfterSend
<1> DEFINE place == AfterSend(v)
<1>10. NotifyReply(t, place)
  BY <1>1
<1> HIDE DEF place
<1>11. /\ Notified' /\ GuardLeft'
       /\ \E p, q : /\ Moved(t, p, q, 0)
                    /\ (IF p \in {"notify_recv", "notify_reply"} THEN q ELSE p) = place
  BY <1>1, <1>9, <1>10, NotifyReplyHeld DEF place
<1>12. PICK p, q : /\ Moved(t, p, q, 0)
                   /\ (IF p \in {"notify_recv", "notify_reply"} THEN q ELSE p) \in Attached
  BY <1>9, <1>11 DEF place, Attached
<1>13. Where(t) \notin Attached
  BY <1>1 DEF Where, Attached
<1>14. Channels'
  BY <1>1, <1>5, <1>6, <1>12, <1>13, SentChannels
<1> QED
  BY <1>8, <1>11, <1>14

----------------------------------------------------------------------------
(* The invariant holds, and what it says of the three properties.          *)

LEMMA InitHeld == Init => JInv
<1> SUFFICES ASSUME Init PROVE Held
  BY InitHolds DEF JInv
<1>1. /\ reply_waiters = FALSE /\ pc = [t \in Task |-> "idle"]
      /\ result = [t \in Task |-> Pending] /\ sent_as = [t \in Task |-> None]
      /\ guards = EmptyBag /\ lock_guards = 0 /\ leaked = EmptyBag /\ seq = NewSeqEx
  BY DEF Init
<1>2. /\ seq \in SeqExState /\ ~seq.is_locked /\ seq.concurrent_replies = << >>
      /\ \A i \in Slots : seq.send_window[i] = None /\ seq.recv_window[i].tag # "Occupied"
  <2>1. \A i \in Slots : seq.send_window[i] = None /\ seq.recv_window[i] = Empty
    BY <1>1 DEF NewSeqEx, Slots
  <2> QED
    BY <1>1, <2>1, NewSeqExType DEF Empty
<1>3. Channels
  <2>1. \A i \in Slots : SentBy(seq, i) = Nobody /\ SavedBy(seq, i) = Nobody
    BY <1>2 DEF SentBy, SavedBy
  <2>2. \A t \in Task : result[t] = Pending /\ sent_as[t] = None
    BY <1>1
  <2>3. Calls(seq, result, sent_as)
    BY <1>2, <2>1, <2>2 DEF Calls, Sending, Saving, Saved, Right
  <2>4. Detached
    BY <2>1, <2>2, TaskAssumption DEF Detached, Free
  <2> QED
    BY <2>3, <2>4 DEF Channels
<1>4. Owned
  <2> DEFINE x(b) == Elsewhere(guards, leaked, b)
  <2>1. IsABag(guards) /\ IsABag(leaked) /\ \A e : Copies(e, guards) = 0 /\ Copies(e, leaked) = 0
    BY <1>1 DEF IsABag, Copies, BagIn, BagToSet, SetToBag, EmptyBag
  <2>2. \A b \in BOOLEAN : x(b) \in [SeqNo -> Nat] /\ \A r \in SeqNo : x(b)[r] = 0
    BY <2>1, ElsewhereType DEF Elsewhere
  <2>3. result \in [Task -> Result]
    BY <1>1 DEF Result
  <2> HIDE DEF x
  <2>4. \A b \in BOOLEAN : /\ Hold(result, b, x(b)) \in [SeqNo -> Nat]
                           /\ \A r \in SeqNo : Hold(result, b, x(b))[r] = 0
    <3>1. SUFFICES ASSUME NEW b \in BOOLEAN, NEW r \in SeqNo
                   PROVE  Hold(result, b, x(b))[r] = 0
      BY <2>2, <2>3, HoldType
    <3>2. With(result, Guard(r, b)) = {}
      BY <1>1, GuardFacts DEF With
    <3>3. Cardinality(With(result, Guard(r, b))) = 0
      BY <3>2, FS_EmptySet
    <3>4. Hold(result, b, x(b))[r] = Cardinality(With(result, Guard(r, b))) + x(b)[r]
      BY DEF Hold
    <3> QED
      BY <2>2, <3>3, <3>4
  <2>5. \A r \in SeqNo : Reservations(seq, r) = 0
    <3>1. \A r \in SeqNo : ~Reserved(seq, r)
      BY <1>2 DEF Reserved
    <3> QED
      BY <1>2, <3>1, ReservationsType
  <2> DEFINE h == Hold(result, TRUE, x(TRUE))
             f == Hold(result, FALSE, x(FALSE))
  <2>6. /\ h \in [SeqNo -> Nat] /\ f \in [SeqNo -> Nat]
        /\ \A r \in SeqNo : h[r] = 0 /\ f[r] = 0
    BY <2>4
  <2> HIDE DEF h, f
  <2>7. Matches(h, f, lock_guards, seq)
    BY <1>1, <1>2, <2>5, <2>6 DEF Matches
  <2> QED
    BY <2>7 DEF Owned, OwnersIn, OwnersMatch, h, f, x
<1>5. Notified /\ GuardLeft
  BY <1>1 DEF Notified, At, GuardLeft
<1> QED
  BY <1>3, <1>4, <1>5 DEF Held

LEMMA NextKeepsHeld == JInv /\ [Next]_vars => JInv'
<1> SUFFICES ASSUME JInv, [Next]_vars PROVE Held'
  BY NextKeeps DEF JInv
<1>1. CASE SendCalls
  <2>1. PICK t \in Senders : \/ Send(t)
                             \/ \E g \in BagToSet(guards), c \in SeqCstModes : Reply(t, g, c)
    BY <1>1 DEF SendCalls
  <2>2. t \in Task /\ SeqCstModes \subseteq BOOLEAN
    BY RemoteAssumption DEF Task
  <2>3. CASE Send(t)
    BY <2>2, <2>3, SendOrWaitHeld DEF Send
  <2>4. ASSUME NEW g \in BagToSet(guards), NEW c \in SeqCstModes, Reply(t, g, c)
        PROVE  Held'
    BY <2>2, <2>4, ReplyHeld
  <2> QED
    BY <2>1, <2>3, <2>4
<1>2. CASE ReceiveCalls
  <2>1. PICK t \in Receivers : \/ \E m \in Remote : ReceiveData(t, m)
                               \/ \E r \in SeqNo : ReceiveAck(t, r)
    BY <1>2 DEF ReceiveCalls
  <2>2. t \in Task
    BY DEF Task
  <2> QED
    BY <2>1, <2>2, ReceiveDataHeld, ReceiveAckHeld
<1>3. CASE HandlerCalls
  <2>1. PICK t \in Handlers :
            \/ \E g \in BagToSet(guards) : AckGuard(t, g) \/ DropGuard(t, g) \/ UnlockGuard(t, g)
            \/ DropLockGuard(t)
    BY <1>3 DEF HandlerCalls
  <2>2. t \in Task
    BY DEF Task
  <2>3. ASSUME NEW g \in BagToSet(guards), AckGuard(t, g) \/ DropGuard(t, g) \/ UnlockGuard(t, g)
        PROVE  Held'
    BY <2>2, <2>3, AckGuardHeld, DropGuardHeld, UnlockGuardHeld
  <2> QED
    BY <2>1, <2>2, <2>3, DropLockHeld
<1>4. CASE \E t \in Task : Step(t) \/ Cancel(t)
  <2>1. PICK t \in Task : Step(t) \/ Cancel(t)
    BY <1>4
  <2>2. CASE Retry(t)
    BY <2>2, SendOrWaitHeld DEF Retry
  <2> QED
    BY <2>1, <2>2, NotifyOneHeld, NotifyWaitersHeld, WaitHeld, QueueHeld, ReturnHeld,
       CancelHeld DEF Step
<1>5. CASE ServiceUpdate \/ ServiceTimeout
  BY <1>5, ServiceHeld
<1>6. CASE UNCHANGED vars
  BY <1>6 DEF vars, inner, flow, held, history, JInv, Held, Channels, Detached, Where, Owned,
     Notified, At, GuardLeft, SomeGuard
<1> QED
  BY <1>1, <1>2, <1>3, <1>4, <1>5, <1>6 DEF Next

LEMMA HeldHolds == Spec => []JInv
BY InitHeld, NextKeepsHeld, PTL DEF Spec

\* The owners that are counted are the owners of GuardsMatch.
LEMMA OwnedMatches == TypeOK /\ Owned => GuardsMatch
<1> SUFFICES ASSUME TypeOK, Owned PROVE GuardsMatch
  OBVIOUS
<1> DEFINE oT(r) == Owners(r, TRUE)
           oF(r) == Owners(r, FALSE)
           locking == {r \in SeqNo : oT(r) > 0}
           h == Hold(result, TRUE, Elsewhere(guards, leaked, TRUE))
           f == Hold(result, FALSE, Elsewhere(guards, leaked, FALSE))
<1>1. \A b \in BOOLEAN : \A r \in SeqNo :
        Owners(r, b) = Hold(result, b, Elsewhere(guards, leaked, b))[r]
  <2>1. SUFFICES ASSUME NEW b \in BOOLEAN, NEW r \in SeqNo
                 PROVE  Owners(r, b) = Hold(result, b, Elsewhere(guards, leaked, b))[r]
    OBVIOUS
  <2> DEFINE g == Guard(r, b)
             x == Copies(g, guards)
             y == Copies(g, leaked)
             z == Cardinality({t \in Task : result[t] = g})
  <2>2. Owners(r, b) = x + y + z
    BY DEF Owners
  <2>3. Hold(result, b, Elsewhere(guards, leaked, b))[r] = z + (x + y)
    BY DEF Hold, Elsewhere, With
  <2>4. x \in Nat /\ y \in Nat
    BY CopiesType DEF TypeOK
  <2>5. z \in Nat
    BY TasksFinite
  <2> HIDE DEF g, x, y, z
  <2> QED
    BY <2>2, <2>3, <2>4, <2>5
<1>2. \A r \in SeqNo : oT(r) = h[r] /\ oF(r) = f[r]
  BY <1>1
<1>3. Matches(h, f, lock_guards, seq)
  BY DEF Owned, OwnersIn, OwnersMatch
<1> HIDE DEF h, f, oT, oF
<1>4. \A r \in SeqNo : oT(r) + oF(r) = Reservations(seq, r)
  BY <1>2, <1>3 DEF Matches
<1>5. \/ ~seq.is_locked /\ lock_guards = 0 /\ \A r \in SeqNo : oT(r) = 0
      \/ seq.is_locked /\ lock_guards = 1 /\ \A r \in SeqNo : oT(r) = 0
      \/ /\ seq.is_locked /\ lock_guards = 0
         /\ \E q \in SeqNo : oT(q) = 1 /\ \A r \in SeqNo \ {q} : oT(r) = 0
  BY <1>2, <1>3 DEF Matches
<1>6. /\ Cardinality(locking) + lock_guards = IF seq.is_locked THEN 1 ELSE 0
      /\ \A r \in locking : oT(r) = 1
  <2>1. CASE lock_guards = (IF seq.is_locked THEN 1 ELSE 0) /\ \A r \in SeqNo : oT(r) = 0
    <3>1. locking = {}
      BY <2>1
    <3>2. Cardinality(locking) = 0
      BY <3>1, FS_EmptySet
    <3> HIDE DEF locking
    <3> QED
      BY <2>1, <3>1, <3>2
  <2>2. ASSUME seq.is_locked, lock_guards = 0,
               NEW q \in SeqNo, oT(q) = 1, \A r \in SeqNo \ {q} : oT(r) = 0
        PROVE  /\ Cardinality(locking) + lock_guards = IF seq.is_locked THEN 1 ELSE 0
               /\ \A r \in locking : oT(r) = 1
    <3>1. locking = {q}
      BY <2>2
    <3>2. Cardinality(locking) = 1
      BY <3>1, FS_Singleton
    <3> HIDE DEF locking
    <3> QED
      BY <2>2, <3>1, <3>2
  <2> QED
    BY <1>5, <2>1, <2>2
<1> QED
  BY <1>4, <1>6 DEF GuardsMatch, Reservations, oT, oF

\* A guard in one of two bags is in their sum.
LEMMA SumOfBags ==
    ASSUME NEW B, IsABag(B), NEW C, IsABag(C)
    PROVE  BagToSet(B (+) C) = BagToSet(B) \cup BagToSet(C)
BY DEF IsABag, BagIn, BagToSet, (+)

LEMMA WakeUpImplied ==
    ASSUME CAP > 2, TypeOK, Notified, GuardLeft
    PROVE  ReplyWakeUpDue
<1> SUFFICES ASSUME ~missed, At({"wait_on_reply"}) # {}
             PROVE  (reply_waiters \/ At({"notify_reply"}) # {}) /\ SomeoneWillNotify
  BY DEF ReplyWakeUpDue
<1>1. At({"gap_reply", "wait_on_reply"}) # {}
  BY DEF At
<1>2. reply_waiters \/ At({"notify_reply"}) # {}
  BY <1>1 DEF Notified
<1>3. SomeGuard => SomeoneWillNotify
  <2>1. BagToSet(guards (+) leaked) = BagToSet(guards) \cup BagToSet(leaked)
    BY SumOfBags DEF TypeOK
  <2> QED
    BY <2>1 DEF SomeGuard, SomeoneWillNotify
<1> QED
  BY <1>2, <1>3 DEF GuardLeft, SomeoneWillNotify

----------------------------------------------------------------------------
(* The theorems.                                                          *)

\* TypeOK: the tasks, the struct and the service task stay within their types.
THEOREM TypeCorrect == Spec => []TypeOK
BY InvariantHolds, PTL DEF IInv

\* RecvWakeUpDue: receive_inner and notify_one between them wake every sender that waits for
\* a packet to come, dropped futures included, unless two notifications became one permit.
THEOREM RecvWakeUpNeverLost == Spec => []RecvWakeUpDue
BY InvariantHolds, PTL DEF IInv

\* ServiceScheduled: next_service_timestamp never comes before the service task knows of it
\* or will, as long as no future is dropped between its packet and its update.
THEOREM ServiceAlwaysScheduled == Spec => []ServiceScheduled
<1>1. IInv => ServiceScheduled
  BY TimersImply DEF IInv
<1> QED
  BY <1>1, InvariantHolds, PTL

\* OneUpdate: send, reply and update_queue carry one update at a time, which a queue of any
\* capacity takes at once.
THEOREM OneUpdateAtATime == Spec => []OneUpdate
<1>1. IInv => OneUpdate
  BY TimersImply DEF IInv
<1> QED
  BY <1>1, InvariantHolds, PTL

\* GuardsMatch: whatever receive_inner hands over or acks, and whichever future is dropped,
\* concurrent_replies and is_locked have exactly the owners that will give them back.
THEOREM OneOwnerPerReservation == Spec => []GuardsMatch
<1>1. JInv => GuardsMatch
  BY OwnedMatches DEF JInv, IInv, Held
<1> QED
  BY <1>1, HeldHolds, PTL

\* RepliesMatch: send and reply return the reply to the packet that this call has sent, or
\* that there is none, however packets are saved, pumped, resent and acked in between.
THEOREM RepliesReachSender == Spec => []RepliesMatch
<1>1. JInv => RepliesMatch
  BY DEF JInv, Held, Channels, Calls, Right, Answers, RepliesMatch
<1> QED
  BY <1>1, HeldHolds, PTL

\* ReplyWakeUpDue: with more than two slots (new only asserts CAP > 1, where no send ever
\* succeeds), notify_reply is due to whoever awaits wait_on_reply, and somebody owns a guard
\* to call it for.
THEOREM ReplyWakeUpNeverLost ==
    ASSUME CAP > 2
    PROVE  Spec => []ReplyWakeUpDue
<1>1. JInv => ReplyWakeUpDue
  BY WakeUpImplied DEF JInv, IInv, Held
<1> QED
  BY <1>1, HeldHolds, PTL
=============================================================================
