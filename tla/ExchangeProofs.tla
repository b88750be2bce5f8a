--------------------------- MODULE ExchangeProofs ---------------------------
(***************************************************************************)
(* Proofs about Exchange, for every window size, range of sequence         *)
(* numbers and bound on what the two peers send: the guards and the SeqCst *)
(* lock, and the order in which packets reach the application.             *)
(***************************************************************************)
EXTENDS Exchange, WindowProofs

----------------------------------------------------------------------------
(* The guards and the SeqCst lock of one peer.                             *)

\* There are two peers.
LEMMA OtherPeer ==
    ASSUME NEW p \in Peer
    PROVE  /\ Other(p) \in Peer /\ Other(p) # p /\ Other(Other(p)) = p
           /\ \A q \in Peer : q = p \/ q = Other(p)
<1>1. PICK a \in Peer, b \in Peer : a # b /\ Peer = {a, b}
  BY PeerAssumption
<1>2. \E q \in Peer : q # p
  BY <1>1
<1>3. Other(p) \in Peer /\ Other(p) # p
  BY <1>2 DEF Other
<1>4. \E q \in Peer : q # Other(p)
  BY <1>3
<1>5. Other(Other(p)) \in Peer /\ Other(Other(p)) # Other(p)
  BY <1>4 DEF Other
<1> QED
  BY <1>1, <1>3, <1>5

ReplyGuard == [reply_no : SeqNo, is_holding_lock : BOOLEAN, ord : Nat]

WithNumber(gs, r) == {g \in gs : g.reply_no = r}
Locking(gs)       == {g \in gs : g.is_holding_lock}

\* What a peer holds, gs, matches its SeqEx: one guard for each reservation, and one inside
\* the critical section exactly if the lock is taken.  Each guard has a delivery of its own.
Guarded(s, gs, lg, dl) ==
    /\ s \in SeqExState /\ gs \in SUBSET ReplyGuard /\ IsFiniteSet(gs) /\ lg \in Nat
    /\ dl \in Seq(Delivered)
    /\ \A g \in gs : g.ord \in 1 .. Len(dl)
    /\ \A g, h \in gs : g.ord = h.ord => g = h
    /\ \A r \in SeqNo : Cardinality(WithNumber(gs, r)) = Reservations(s, r)
    /\ Cardinality(Locking(gs)) + lg = IF s.is_locked THEN 1 ELSE 0

\* The parts of a finite set of guards are finite.
LEMMA PartsFinite ==
    ASSUME NEW gs, IsFiniteSet(gs), NEW r
    PROVE  /\ IsFiniteSet(WithNumber(gs, r)) /\ Cardinality(WithNumber(gs, r)) \in Nat
           /\ IsFiniteSet(Locking(gs)) /\ Cardinality(Locking(gs)) \in Nat
<1>1. WithNumber(gs, r) \subseteq gs /\ Locking(gs) \subseteq gs
  BY DEF WithNumber, Locking
<1> QED
  BY <1>1, FS_Subset, FS_CardinalityType

\* Taking one guard away, or adding one, counts it.
LEMMA GuardAdded ==
    ASSUME NEW gs, IsFiniteSet(gs), NEW g, g \notin gs, g.is_holding_lock \in BOOLEAN, NEW r
    PROVE  /\ IsFiniteSet(gs \cup {g})
           /\ Cardinality(WithNumber(gs \cup {g}, r))
                = Cardinality(WithNumber(gs, r)) + (IF r = g.reply_no THEN 1 ELSE 0)
           /\ Cardinality(Locking(gs \cup {g}))
                = Cardinality(Locking(gs)) + (IF g.is_holding_lock THEN 1 ELSE 0)
<1>1. /\ IsFiniteSet(WithNumber(gs, r)) /\ Cardinality(WithNumber(gs, r)) \in Nat
      /\ IsFiniteSet(Locking(gs)) /\ Cardinality(Locking(gs)) \in Nat
  BY PartsFinite
<1>2. g \notin WithNumber(gs, r) /\ g \notin Locking(gs)
  BY DEF WithNumber, Locking
<1>3. /\ r = g.reply_no => WithNumber(gs \cup {g}, r) = WithNumber(gs, r) \cup {g}
      /\ r # g.reply_no => WithNumber(gs \cup {g}, r) = WithNumber(gs, r)
  BY DEF WithNumber
<1>4. /\ g.is_holding_lock => Locking(gs \cup {g}) = Locking(gs) \cup {g}
      /\ ~g.is_holding_lock => Locking(gs \cup {g}) = Locking(gs)
  BY DEF Locking
<1>5. /\ Cardinality(WithNumber(gs, r) \cup {g}) = Cardinality(WithNumber(gs, r)) + 1
      /\ Cardinality(Locking(gs) \cup {g}) = Cardinality(Locking(gs)) + 1
  BY <1>1, <1>2, FS_AddElement
<1>6. Cardinality(WithNumber(gs \cup {g}, r))
        = Cardinality(WithNumber(gs, r)) + (IF r = g.reply_no THEN 1 ELSE 0)
  <2>1. CASE r = g.reply_no
    BY <1>1, <1>3, <1>5, <2>1
  <2>2. CASE r # g.reply_no
    <3>1. WithNumber(gs \cup {g}, r) = WithNumber(gs, r)
      BY <1>3, <2>2
    <3>2. Cardinality(WithNumber(gs \cup {g}, r)) = Cardinality(WithNumber(gs, r)) + 0
      BY <1>1, <3>1
    <3> QED
      BY <2>2, <3>2, Zenon
  <2> QED
    BY <2>1, <2>2
<1>7. Cardinality(Locking(gs \cup {g}))
        = Cardinality(Locking(gs)) + (IF g.is_holding_lock THEN 1 ELSE 0)
  <2>1. CASE g.is_holding_lock
    BY <1>1, <1>4, <1>5, <2>1
  <2>2. CASE ~g.is_holding_lock
    <3>1. Locking(gs \cup {g}) = Locking(gs)
      BY <1>4, <2>2
    <3>2. Cardinality(Locking(gs \cup {g})) = Cardinality(Locking(gs)) + 0
      BY <1>1, <3>1
    <3> QED
      BY <2>2, <3>2, Zenon
  <2> QED
    BY <2>1, <2>2
<1> QED
  BY <1>6, <1>7, FS_AddElement

LEMMA GuardRemoved ==
    ASSUME NEW gs, IsFiniteSet(gs), NEW g \in gs, g.is_holding_lock \in BOOLEAN, NEW r
    PROVE  /\ IsFiniteSet(gs \ {g})
           /\ Cardinality(WithNumber(gs \ {g}, r))
                = Cardinality(WithNumber(gs, r)) - (IF r = g.reply_no THEN 1 ELSE 0)
           /\ Cardinality(Locking(gs \ {g}))
                = Cardinality(Locking(gs)) - (IF g.is_holding_lock THEN 1 ELSE 0)
<1> DEFINE rest == gs \ {g}
<1>1. IsFiniteSet(rest) /\ g \notin rest /\ gs = rest \cup {g}
  BY FS_Subset
<1>2. /\ Cardinality(WithNumber(gs, r))
            = Cardinality(WithNumber(rest, r)) + (IF r = g.reply_no THEN 1 ELSE 0)
      /\ Cardinality(Locking(gs))
            = Cardinality(Locking(rest)) + (IF g.is_holding_lock THEN 1 ELSE 0)
  <2> HIDE DEF rest
  <2> QED
    BY <1>1, GuardAdded
<1>3. Cardinality(WithNumber(rest, r)) \in Nat /\ Cardinality(Locking(rest)) \in Nat
  BY <1>1, PartsFinite
<1> QED
  BY <1>1, <1>2, <1>3

\* What a guard is.
LEMMA GuardFacts ==
    ASSUME NEW n \in SeqNo, NEW c \in BOOLEAN, NEW ord \in Nat
    PROVE  /\ Guard(n, c, ord) \in ReplyGuard
           /\ Guard(n, c, ord).reply_no = n
           /\ Guard(n, c, ord).is_holding_lock = c
           /\ Guard(n, c, ord).ord = ord
BY DEF Guard, ReplyGuard

\* A guard's number is reserved, and its lock is taken.
LEMMA GuardReserved ==
    ASSUME NEW s, NEW gs, NEW lg, NEW dl, Guarded(s, gs, lg, dl), NEW g \in gs
    PROVE  /\ g \in ReplyGuard /\ g.reply_no \in SeqNo /\ g.is_holding_lock \in BOOLEAN
           /\ Reserved(s, g.reply_no)
           /\ g.is_holding_lock => s.is_locked /\ lg = 0
<1>1. /\ g \in ReplyGuard /\ g.reply_no \in SeqNo /\ g.is_holding_lock \in BOOLEAN
      /\ IsFiniteSet(gs) /\ s \in SeqExState /\ lg \in Nat
  BY DEF Guarded, ReplyGuard
<1> DEFINE r == g.reply_no
<1>2. /\ IsFiniteSet(WithNumber(gs, r)) /\ IsFiniteSet(Locking(gs))
      /\ Cardinality(WithNumber(gs, r)) \in Nat /\ Cardinality(Locking(gs)) \in Nat
  BY <1>1, PartsFinite
<1>3. g \in WithNumber(gs, r) /\ (g.is_holding_lock => g \in Locking(gs))
  BY DEF WithNumber, Locking
<1>4. /\ Cardinality(WithNumber(gs, r)) # 0
      /\ g.is_holding_lock => Cardinality(Locking(gs)) # 0
  BY <1>2, <1>3, FS_EmptySet
<1>5. Reservations(s, r) > 0
  BY <1>1, <1>2, <1>4 DEF Guarded
<1>6. Reserved(s, r)
  BY <1>1, <1>5, ReservationsType
<1>7. g.is_holding_lock => s.is_locked /\ lg = 0
  <2>1. Cardinality(Locking(gs)) + lg = IF s.is_locked THEN 1 ELSE 0
    BY DEF Guarded
  <2> QED
    BY <1>1, <1>2, <1>4, <2>1
<1> QED
  BY <1>1, <1>6, <1>7

\* A packet is handed over: its number is reserved, and a guard is made for it.
LEMMA GuardedIssue ==
    ASSUME NEW s, NEW gs, NEW lg, NEW dl, Guarded(s, gs, lg, dl),
           NEW v \in SeqExState, NEW n \in SeqNo, NEW c \in BOOLEAN, Issues(s, v, n, c),
           c => ~s.is_locked, NEW x \in Delivered
    PROVE  Guarded(v, gs \cup {Guard(n, c, Len(dl) + 1)}, lg, Append(dl, x))
<1> DEFINE g == Guard(n, c, Len(dl) + 1)
           gs2 == gs \cup {g}
           dl2 == Append(dl, x)
<1>1. /\ s \in SeqExState /\ gs \in SUBSET ReplyGuard /\ IsFiniteSet(gs) /\ lg \in Nat
      /\ dl \in Seq(Delivered) /\ Len(dl) \in Nat
      /\ \A h \in gs : h.ord \in 1 .. Len(dl)
      /\ \A h, k \in gs : h.ord = k.ord => h = k
      /\ \A r \in SeqNo : Cardinality(WithNumber(gs, r)) = Reservations(s, r)
      /\ Cardinality(Locking(gs)) + lg = IF s.is_locked THEN 1 ELSE 0
  BY DEF Guarded
<1>2. /\ g \in ReplyGuard /\ g.reply_no = n /\ g.is_holding_lock = c
      /\ g.ord = Len(dl) + 1
  BY <1>1, GuardFacts
<1>3. g \notin gs
  BY <1>1, <1>2
<1>4. dl2 \in Seq(Delivered) /\ Len(dl2) = Len(dl) + 1
  BY <1>1
<1> HIDE DEF g, dl2
<1>5. IsFiniteSet(gs2)
  BY <1>1, <1>2, <1>3, GuardAdded
<1>6. /\ \A h \in gs2 : h.ord \in 1 .. Len(dl2)
      /\ \A h, k \in gs2 : h.ord = k.ord => h = k
  BY <1>1, <1>2, <1>4
<1>7. ASSUME NEW r \in SeqNo PROVE Cardinality(WithNumber(gs2, r)) = Reservations(v, r)
  <2>1. Cardinality(WithNumber(gs2, r))
            = Cardinality(WithNumber(gs, r)) + (IF r = n THEN 1 ELSE 0)
    <3>1. Cardinality(WithNumber(gs2, r))
            = Cardinality(WithNumber(gs, r)) + (IF r = g.reply_no THEN 1 ELSE 0)
      <4>1. g.is_holding_lock \in BOOLEAN /\ IsFiniteSet(gs)
        BY <1>1, <1>2
      <4> QED
        BY <1>3, <4>1, GuardAdded
    <3> QED
      BY <1>2, <3>1
  <2>2. Reservations(v, r) = Reservations(s, r) + (IF r = n THEN 1 ELSE 0)
    BY <1>1, ReservationsIssued
  <2> QED
    BY <1>1, <2>1, <2>2
<1>8. Cardinality(Locking(gs2)) + lg = IF v.is_locked THEN 1 ELSE 0
  <2>1. Cardinality(Locking(gs2)) = Cardinality(Locking(gs)) + (IF c THEN 1 ELSE 0)
    BY <1>1, <1>2, <1>3, GuardAdded
  <2>2. v.is_locked = (s.is_locked \/ c) /\ s.is_locked \in BOOLEAN
    BY <1>1 DEF Issues, SeqExState
  <2>3. Cardinality(Locking(gs)) \in Nat
    BY <1>1, PartsFinite
  <2>4. CASE c
    <3>1. v.is_locked /\ ~s.is_locked
      BY <2>2, <2>4
    <3>2. Cardinality(Locking(gs)) + lg = 0
      BY <1>1, <3>1, Zenon
    <3>3. Cardinality(Locking(gs2)) + lg = 1
      BY <1>1, <2>1, <2>3, <2>4, <3>2
    <3> QED
      BY <3>1, <3>3, Zenon
  <2>5. CASE ~c
    BY <1>1, <2>1, <2>2, <2>3, <2>5
  <2> QED
    BY <2>4, <2>5
<1>9. Guarded(v, gs2, lg, dl2)
  BY <1>1, <1>2, <1>4, <1>5, <1>6, <1>7, <1>8 DEF Guarded
<1> QED
  BY <1>9 DEF g, dl2

\* A guard is consumed: its number is returned, and the lock is released or goes to a SeqCstGuard.
LEMMA GuardedConsume ==
    ASSUME NEW s, NEW gs, NEW lg, NEW dl, Guarded(s, gs, lg, dl), NEW g \in gs,
           NEW v \in SeqExState, NEW unlock \in BOOLEAN, unlock => g.is_holding_lock,
           v.concurrent_replies = RemoveReservation(s, g.reply_no).concurrent_replies,
           v.is_locked = (s.is_locked /\ ~unlock),
           NEW lg2, lg2 = lg + (IF g.is_holding_lock /\ ~unlock THEN 1 ELSE 0)
    PROVE  Guarded(v, gs \ {g}, lg2, dl)
<1> DEFINE gs2 == gs \ {g}
           n == g.reply_no
<1>1. /\ s \in SeqExState /\ gs \in SUBSET ReplyGuard /\ IsFiniteSet(gs) /\ lg \in Nat
      /\ dl \in Seq(Delivered)
      /\ \A h \in gs : h.ord \in 1 .. Len(dl)
      /\ \A h, k \in gs : h.ord = k.ord => h = k
      /\ \A r \in SeqNo : Cardinality(WithNumber(gs, r)) = Reservations(s, r)
      /\ Cardinality(Locking(gs)) + lg = IF s.is_locked THEN 1 ELSE 0
  BY DEF Guarded
<1>2. /\ n \in SeqNo /\ g.is_holding_lock \in BOOLEAN /\ Reserved(s, n)
      /\ g.is_holding_lock => s.is_locked /\ lg = 0
  BY GuardReserved
<1>3. IsFiniteSet(gs2) /\ Cardinality(Locking(gs2)) \in Nat /\ Cardinality(Locking(gs)) \in Nat
  BY <1>1, FS_Subset, PartsFinite
<1>4. ASSUME NEW r \in SeqNo PROVE Cardinality(WithNumber(gs2, r)) = Reservations(v, r)
  <2>1. Cardinality(WithNumber(gs2, r))
            = Cardinality(WithNumber(gs, r)) - (IF r = n THEN 1 ELSE 0)
    BY <1>1, <1>2, GuardRemoved
  <2>2. Reservations(RemoveReservation(s, n), r) = Reservations(s, r) - (IF r = n THEN 1 ELSE 0)
    BY <1>1, <1>2, ReservationsRemoved
  <2>3. Reservations(v, r) = Reservations(RemoveReservation(s, n), r)
    BY DEF Reservations
  <2> QED
    BY <1>1, <2>1, <2>2, <2>3
<1>5. Cardinality(Locking(gs2)) + lg2 = IF v.is_locked THEN 1 ELSE 0
  <2>1. Cardinality(Locking(gs2))
            = Cardinality(Locking(gs)) - (IF g.is_holding_lock THEN 1 ELSE 0)
    BY <1>1, <1>2, GuardRemoved
  <2>2. s.is_locked \in BOOLEAN
    BY <1>1 DEF SeqExState
  <2>3. CASE g.is_holding_lock /\ unlock
    <3>1. v.is_locked = FALSE
      BY <2>2, <2>3
    <3>2. Cardinality(Locking(gs)) + lg = 1
      BY <1>1, <1>2, <2>3, Zenon
    <3>3. Cardinality(Locking(gs2)) = Cardinality(Locking(gs)) - 1
      BY <2>1, <2>3, Zenon
    <3>4. lg2 = lg + 0
      BY <2>3
    <3>5. Cardinality(Locking(gs2)) + lg2 = 0
      BY <1>1, <1>2, <1>3, <2>3, <3>2, <3>3, <3>4
    <3> QED
      BY <3>1, <3>5, Zenon
  <2>4. CASE g.is_holding_lock /\ ~unlock
    BY <1>1, <1>2, <1>3, <2>1, <2>2, <2>4
  <2>5. CASE ~g.is_holding_lock
    BY <1>1, <1>2, <1>3, <2>1, <2>2, <2>5
  <2> QED
    BY <2>3, <2>4, <2>5
<1>6. lg2 \in Nat /\ gs2 \subseteq gs
  BY <1>1
<1> QED
  BY <1>1, <1>3, <1>4, <1>5, <1>6 DEF Guarded

\* ReplyGuard::unlock: the guard stays, without the lock.
LEMMA GuardedUnlock ==
    ASSUME NEW s, NEW gs, NEW lg, NEW dl, Guarded(s, gs, lg, dl),
           NEW g \in gs, g.is_holding_lock
    PROVE  Guarded(UnlockRaw(s), (gs \ {g}) \cup {[g EXCEPT !.is_holding_lock = FALSE]}, lg, dl)
<1> DEFINE h == [g EXCEPT !.is_holding_lock = FALSE]
           rest == gs \ {g}
           gs2 == rest \cup {h}
           v == UnlockRaw(s)
<1>1. /\ s \in SeqExState /\ gs \in SUBSET ReplyGuard /\ IsFiniteSet(gs) /\ lg \in Nat
      /\ dl \in Seq(Delivered)
      /\ \A k \in gs : k.ord \in 1 .. Len(dl)
      /\ \A k, l \in gs : k.ord = l.ord => k = l
      /\ \A r \in SeqNo : Cardinality(WithNumber(gs, r)) = Reservations(s, r)
      /\ Cardinality(Locking(gs)) + lg = IF s.is_locked THEN 1 ELSE 0
  BY DEF Guarded
<1>2. /\ g.reply_no \in SeqNo /\ g.is_holding_lock \in BOOLEAN /\ s.is_locked /\ lg = 0
  BY GuardReserved
<1>3. /\ h \in ReplyGuard /\ h.reply_no = g.reply_no /\ h.is_holding_lock = FALSE
      /\ h.ord = g.ord
  BY <1>1 DEF ReplyGuard
<1>4. /\ v \in SeqExState /\ v.concurrent_replies = s.concurrent_replies /\ v.is_locked = FALSE
  BY <1>1, UnlockRawType
<1> HIDE DEF h, v
<1>5. h \notin rest
  BY <1>1, <1>3
<1>6. IsFiniteSet(rest)
  BY <1>1, FS_Subset
<1> HIDE DEF rest
<1>7. IsFiniteSet(gs2)
  BY <1>3, <1>5, <1>6, GuardAdded
<1>8. ASSUME NEW r \in SeqNo PROVE Cardinality(WithNumber(gs2, r)) = Reservations(v, r)
  <2>1. Cardinality(WithNumber(gs2, r))
            = Cardinality(WithNumber(rest, r)) + (IF r = g.reply_no THEN 1 ELSE 0)
    <3>1. Cardinality(WithNumber(gs2, r))
            = Cardinality(WithNumber(rest, r)) + (IF r = h.reply_no THEN 1 ELSE 0)
      <4>1. h.is_holding_lock \in BOOLEAN
        BY <1>3
      <4> QED
        BY <1>5, <1>6, <4>1, GuardAdded
    <3> QED
      BY <1>3, <3>1
  <2>2. Cardinality(WithNumber(rest, r))
            = Cardinality(WithNumber(gs, r)) - (IF r = g.reply_no THEN 1 ELSE 0)
    <3>1. IsFiniteSet(gs) /\ g \in gs /\ g.is_holding_lock \in BOOLEAN
      BY <1>1, <1>2
    <3> QED
      BY ONLY <3>1, GuardRemoved DEF rest
  <2>3. Reservations(v, r) = Reservations(s, r)
    BY <1>4 DEF Reservations
  <2>4. Cardinality(WithNumber(gs, r)) \in Nat
    BY <1>1, PartsFinite
  <2> QED
    BY <1>1, <2>1, <2>2, <2>3, <2>4
<1>9. Cardinality(Locking(gs2)) + lg = IF v.is_locked THEN 1 ELSE 0
  <2>1. Cardinality(Locking(gs2)) = Cardinality(Locking(rest)) + 0
    BY <1>3, <1>5, <1>6, GuardAdded
  <2>2. Cardinality(Locking(rest)) = Cardinality(Locking(gs)) - 1
    BY <1>1, <1>2, GuardRemoved DEF rest
  <2>3. Cardinality(Locking(gs)) = 1
    <3>1. Cardinality(Locking(gs)) \in Nat
      BY <1>1, PartsFinite
    <3> QED
      BY <1>1, <1>2, <3>1
  <2> QED
    BY <1>2, <1>4, <2>1, <2>2, <2>3
<1>10. gs2 \in SUBSET ReplyGuard /\ (\A k \in gs2 : k.ord \in 1 .. Len(dl))
  BY <1>1, <1>3 DEF rest
<1>11. \A k, l \in gs2 : k.ord = l.ord => k = l
  BY <1>1, <1>3 DEF rest
<1>12. Guarded(v, gs2, lg, dl)
  BY <1>1, <1>4, <1>7, <1>8, <1>9, <1>10, <1>11 DEF Guarded
<1> QED
  BY <1>12 DEF h, v, rest

\* Drop for SeqCstGuard
LEMMA GuardedDropLock ==
    ASSUME NEW s, NEW gs, NEW lg, NEW dl, Guarded(s, gs, lg, dl), lg > 0
    PROVE  Guarded(UnlockRaw(s), gs, lg - 1, dl)
<1> DEFINE v == UnlockRaw(s)
<1>1. /\ s \in SeqExState /\ lg \in Nat /\ IsFiniteSet(gs) /\ s.is_locked \in BOOLEAN
      /\ Cardinality(Locking(gs)) + lg = IF s.is_locked THEN 1 ELSE 0
  BY DEF Guarded, SeqExState
<1>2. /\ v \in SeqExState /\ v.concurrent_replies = s.concurrent_replies /\ v.is_locked = FALSE
  BY <1>1, UnlockRawType
<1>3. Cardinality(Locking(gs)) \in Nat
  BY <1>1, PartsFinite
<1>4. lg - 1 \in Nat /\ Cardinality(Locking(gs)) + (lg - 1) = 0
  BY <1>1, <1>3
<1>5. \A r : Reservations(v, r) = Reservations(s, r)
  BY <1>2 DEF Reservations
<1> QED
  BY <1>2, <1>4, <1>5 DEF Guarded

\* A call that neither issues a number nor returns one.
LEMMA GuardedSame ==
    ASSUME NEW s, NEW gs, NEW lg, NEW dl, Guarded(s, gs, lg, dl),
           NEW v \in SeqExState, SameReplies(s, v)
    PROVE  Guarded(v, gs, lg, dl)
<1>1. \A r : Reservations(v, r) = Reservations(s, r)
  BY DEF Reservations, SameReplies
<1> QED
  BY <1>1 DEF Guarded, SameReplies

----------------------------------------------------------------------------
(* What a peer has sent.                                                   *)

PayloadsOf(sn) == {d \in DOMAIN sn : sn[d].reply_to = None}

\* The bounds of the model: payloads started and replies given.
Written(sn, payloads, replies) ==
    /\ sn \in Seq(Sent) /\ payloads \in Nat /\ replies \in Nat
    /\ Cardinality(PayloadsOf(sn)) <= payloads
    /\ Cardinality(DOMAIN sn \ PayloadsOf(sn)) <= replies

\* Everything sent is a payload or a reply.
LEMMA WrittenLength ==
    ASSUME NEW sn, NEW payloads, NEW replies, Written(sn, payloads, replies)
    PROVE  /\ Len(sn) \in Nat /\ Len(sn) <= payloads + replies
           /\ IsFiniteSet(PayloadsOf(sn)) /\ IsFiniteSet(DOMAIN sn \ PayloadsOf(sn))
           /\ Cardinality(PayloadsOf(sn)) \in Nat
           /\ Cardinality(DOMAIN sn \ PayloadsOf(sn)) \in Nat
           /\ Len(sn) = Cardinality(PayloadsOf(sn)) + Cardinality(DOMAIN sn \ PayloadsOf(sn))
<1> DEFINE P == PayloadsOf(sn)
           R == DOMAIN sn \ P
<1>1. Len(sn) \in Nat /\ DOMAIN sn = 1 .. Len(sn)
  BY DEF Written
<1>2. IsFiniteSet(1 .. Len(sn)) /\ Cardinality(1 .. Len(sn)) = Len(sn)
  <2> DEFINE n == Len(sn)
  <2>1. n \in Nat
    BY <1>1
  <2> HIDE DEF n
  <2>2. IsFiniteSet(1 .. n) /\ Cardinality(1 .. n) = IF 1 > n THEN 0 ELSE n - 1 + 1
    BY <2>1, FS_Interval
  <2>3. IsFiniteSet(1 .. n) /\ Cardinality(1 .. n) = n
    BY <2>1, <2>2
  <2> QED
    BY <2>3 DEF n
<1>3. P \subseteq 1 .. Len(sn) /\ R \subseteq 1 .. Len(sn) /\ P \cup R = 1 .. Len(sn) /\ P \cap R = {}
  BY <1>1 DEF PayloadsOf
<1>4. /\ IsFiniteSet(P) /\ IsFiniteSet(R)
      /\ Cardinality(P) \in Nat /\ Cardinality(R) \in Nat
  BY <1>2, <1>3, FS_Subset, FS_CardinalityType
<1>5. Cardinality(P \cup R) = Cardinality(P) + Cardinality(R) - Cardinality(P \cap R)
  BY <1>4, FS_Union
<1>6. Len(sn) = Cardinality(P) + Cardinality(R)
  <2>1. Cardinality(P \cap R) = 0
    BY <1>3, FS_EmptySet
  <2>2. Cardinality(P \cup R) = Len(sn)
    BY <1>2, <1>3
  <2> HIDE DEF P, R
  <2> QED
    BY <1>4, <1>5, <2>1, <2>2
<1> QED
  BY <1>1, <1>4, <1>6 DEF Written

\* One more payload, or one more reply, within the bounds.
LEMMA WrittenAppend ==
    ASSUME NEW sn, NEW payloads, NEW replies, Written(sn, payloads, replies), NEW x \in Sent,
           IF x.reply_to = None THEN Cardinality(PayloadsOf(sn)) < payloads
           ELSE Cardinality(DOMAIN sn \ PayloadsOf(sn)) < replies
    PROVE  /\ Written(Append(sn, x), payloads, replies)
           /\ Len(sn) + 1 \in 1 .. payloads + replies
<1> DEFINE sn2 == Append(sn, x)
           d == Len(sn) + 1
<1>1. /\ Len(sn) \in Nat /\ IsFiniteSet(PayloadsOf(sn)) /\ IsFiniteSet(DOMAIN sn \ PayloadsOf(sn))
      /\ Cardinality(PayloadsOf(sn)) \in Nat /\ Cardinality(DOMAIN sn \ PayloadsOf(sn)) \in Nat
      /\ Len(sn) = Cardinality(PayloadsOf(sn)) + Cardinality(DOMAIN sn \ PayloadsOf(sn))
  BY WrittenLength
<1>2. /\ sn \in Seq(Sent) /\ payloads \in Nat /\ replies \in Nat
      /\ Cardinality(PayloadsOf(sn)) <= payloads
      /\ Cardinality(DOMAIN sn \ PayloadsOf(sn)) <= replies
  BY DEF Written
<1>3. /\ sn2 \in Seq(Sent) /\ DOMAIN sn2 = 1 .. d /\ DOMAIN sn = 1 .. Len(sn)
      /\ \A i \in 1 .. Len(sn) : sn2[i] = sn[i]
      /\ sn2[d] = x
  BY <1>2, AppendProperties
<1>4. /\ d \notin DOMAIN sn /\ DOMAIN sn2 = DOMAIN sn \cup {d}
      /\ \A i \in DOMAIN sn : sn2[i] = sn[i]
  <2> DEFINE n == Len(sn)
  <2>1. n \in Nat
    BY <1>1
  <2> HIDE DEF n
  <2>2. n + 1 \notin 1 .. n /\ 1 .. n + 1 = (1 .. n) \cup {n + 1}
    BY <2>1
  <2> QED
    BY <1>3, <2>2 DEF n
<1>5. d \notin PayloadsOf(sn)
  BY <1>4 DEF PayloadsOf
<1> HIDE DEF sn2, d
<1>6. CASE x.reply_to = None
  <2>1. PayloadsOf(sn2) = PayloadsOf(sn) \cup {d}
    BY <1>3, <1>4, <1>6 DEF PayloadsOf
  <2>2. DOMAIN sn2 \ PayloadsOf(sn2) = DOMAIN sn \ PayloadsOf(sn)
    BY <1>4, <1>5, <2>1
  <2>3. Cardinality(PayloadsOf(sn2)) = Cardinality(PayloadsOf(sn)) + 1
    BY <1>1, <1>5, <2>1, FS_AddElement
  <2>4. Cardinality(DOMAIN sn2 \ PayloadsOf(sn2)) = Cardinality(DOMAIN sn \ PayloadsOf(sn))
    BY <2>2
  <2> QED
    BY <1>1, <1>2, <1>3, <1>6, <2>3, <2>4 DEF Written, sn2, d
<1>7. CASE x.reply_to # None
  <2>1. PayloadsOf(sn2) = PayloadsOf(sn)
    BY <1>3, <1>4, <1>7 DEF PayloadsOf
  <2>2. DOMAIN sn2 \ PayloadsOf(sn2) = (DOMAIN sn \ PayloadsOf(sn)) \cup {d}
    BY <1>4, <1>5, <2>1 DEF PayloadsOf
  <2>3. Cardinality(DOMAIN sn2 \ PayloadsOf(sn2)) = Cardinality(DOMAIN sn \ PayloadsOf(sn)) + 1
    <3>1. d \notin DOMAIN sn \ PayloadsOf(sn)
      BY <1>4
    <3> QED
      BY <1>1, <2>2, <3>1, FS_AddElement
  <2>4. Cardinality(PayloadsOf(sn2)) = Cardinality(PayloadsOf(sn))
    BY <2>1
  <2> QED
    BY <1>1, <1>2, <1>3, <1>7, <2>3, <2>4 DEF Written, sn2, d
<1> QED
  BY <1>6, <1>7

----------------------------------------------------------------------------
(* What every layer of the proof starts from, and what a call changes.     *)

Typed ==
    /\ seq \in [Peer -> SeqExState]
    /\ net \in [Peer -> SUBSET Packet]
    /\ guards \in [Peer -> SUBSET ReplyGuard]
    /\ lock_guards \in [Peer -> Nat]
    /\ sent \in [Peer -> Seq(Sent)]
    /\ delivered \in [Peer -> Seq(Delivered)]
    /\ acked \in [Peer -> SUBSET Data]
    /\ losses \in 0 .. MaxLosses /\ repeated \in BOOLEAN

\* A SeqEx with its windows and timer in order.
Timely(s) == Windows(s) /\ NotDueBefore(s, s.next_service_timestamp)

Sound(p) ==
    /\ Timely(seq[p])
    /\ Guarded(seq[p], guards[p], lock_guards[p], delivered[p])
    /\ Written(sent[p], MaxPayloads[p], MaxReplies[p])
Basics == Typed /\ \A p \in Peer : Sound(p)

\* A call of peer p: what it leaves in the variables of p, and the packets it transmits.
Moves(p, v, gs, lg, sn, dl, packets) ==
    /\ seq' = [seq EXCEPT ![p] = v]
    /\ guards' = [guards EXCEPT ![p] = gs]
    /\ lock_guards' = [lock_guards EXCEPT ![p] = lg]
    /\ sent' = [sent EXCEPT ![p] = sn]
    /\ delivered' = [delivered EXCEPT ![p] = dl]
    /\ net' = [net EXCEPT ![Other(p)] = @ \cup packets]
    /\ losses' = losses

LEMMA BasicsMove ==
    ASSUME Basics, NEW p \in Peer, NEW v, NEW gs, NEW lg, NEW sn, NEW dl, NEW packets,
           Moves(p, v, gs, lg, sn, dl, packets),
           Timely(v), Guarded(v, gs, lg, dl), Written(sn, MaxPayloads[p], MaxReplies[p]),
           packets \subseteq Packet, acked' \in [Peer -> SUBSET Data], repeated' \in BOOLEAN
    PROVE  Basics'
<1>1. /\ seq \in [Peer -> SeqExState] /\ net \in [Peer -> SUBSET Packet]
      /\ guards \in [Peer -> SUBSET ReplyGuard] /\ lock_guards \in [Peer -> Nat]
      /\ sent \in [Peer -> Seq(Sent)] /\ delivered \in [Peer -> Seq(Delivered)]
      /\ losses \in 0 .. MaxLosses
      /\ \A q \in Peer : Sound(q)
  BY DEF Basics, Typed
<1>2. /\ v \in SeqExState /\ gs \in SUBSET ReplyGuard /\ lg \in Nat /\ dl \in Seq(Delivered)
      /\ sn \in Seq(Sent)
  BY DEF Guarded, Written
<1>3. Typed'
  <2>1. seq' \in [Peer -> SeqExState] /\ guards' \in [Peer -> SUBSET ReplyGuard]
    BY <1>1, <1>2 DEF Moves
  <2>2. /\ lock_guards' \in [Peer -> Nat] /\ sent' \in [Peer -> Seq(Sent)]
        /\ delivered' \in [Peer -> Seq(Delivered)]
    BY <1>1, <1>2 DEF Moves
  <2>3. net' \in [Peer -> SUBSET Packet]
    BY <1>1 DEF Moves
  <2> QED
    BY <1>1, <2>1, <2>2, <2>3 DEF Typed, Moves
<1>4. ASSUME NEW q \in Peer PROVE Sound(q)'
  <2>1. CASE q = p
    <3>1. /\ seq'[q] = v /\ guards'[q] = gs /\ lock_guards'[q] = lg /\ sent'[q] = sn
          /\ delivered'[q] = dl
      BY <1>1, <2>1 DEF Moves
    <3> QED
      BY <2>1, <3>1 DEF Sound
  <2>2. CASE q # p
    <3>1. /\ seq'[q] = seq[q] /\ guards'[q] = guards[q] /\ lock_guards'[q] = lock_guards[q]
          /\ sent'[q] = sent[q] /\ delivered'[q] = delivered[q]
      BY <1>1, <2>2 DEF Moves
    <3> QED
      BY <1>1, <3>1 DEF Sound
  <2> QED
    BY <2>1, <2>2
<1> QED
  BY <1>3, <1>4 DEF Basics

\* What the layers of the proof use of one peer.
LEMMA BasicsFacts ==
    ASSUME Basics, NEW p \in Peer
    PROVE  /\ seq[p] \in SeqExState /\ Windows(seq[p]) /\ Timely(seq[p])
           /\ Guarded(seq[p], guards[p], lock_guards[p], delivered[p])
           /\ Written(sent[p], MaxPayloads[p], MaxReplies[p])
           /\ guards[p] \in SUBSET ReplyGuard /\ lock_guards[p] \in Nat
           /\ sent[p] \in Seq(Sent) /\ delivered[p] \in Seq(Delivered)
           /\ Len(sent[p]) \in Nat /\ Len(delivered[p]) \in Nat
           /\ net[p] \in SUBSET Packet /\ acked[p] \in SUBSET Data
           /\ acked \in [Peer -> SUBSET Data] /\ repeated \in BOOLEAN
           /\ Other(p) \in Peer
<1>1. Typed /\ Sound(p) /\ Other(p) \in Peer
  BY OtherPeer DEF Basics
<1> QED
  BY <1>1 DEF Typed, Sound, Timely
----------------------------------------------------------------------------
(* The actions, as calls of one peer.                                      *)

\* Reply and ReplyStayLocked are one call with two ways to treat the lock, and so are
\* AckGuard and DropGuard.
HandLock(p, g, unlock) ==
    /\ unlock \in BOOLEAN /\ (unlock => g.is_holding_lock)
    /\ lock_guards' = [lock_guards EXCEPT ![p] =
                        @ + (IF g.is_holding_lock /\ ~unlock THEN 1 ELSE 0)]
Answer(p, g, unlock, seq_cst) ==
    /\ g \in guards[p] /\ seq_cst \in SeqCstModes
    /\ ReplyTo(p, g, unlock, seq_cst)
    /\ HandLock(p, g, unlock)
    /\ UNCHANGED <<delivered, acked, losses, repeated>>
GiveUp(p, g, unlock) ==
    /\ g \in guards[p]
    /\ AckTo(p, g, unlock)
    /\ HandLock(p, g, unlock)
    /\ UNCHANGED <<sent, delivered, acked, losses, repeated>>

LEMMA AnswerCases ==
    ASSUME Basics, NEW p \in Peer, NEW g \in guards[p], NEW c \in SeqCstModes,
           Reply(p, g, c) \/ ReplyStayLocked(p, g, c)
    PROVE  \E unlock \in BOOLEAN : Answer(p, g, unlock, c)
<1>1. /\ lock_guards \in [Peer -> Nat] /\ g.is_holding_lock \in BOOLEAN
  BY DEF Basics, Typed, ReplyGuard
<1>2. CASE Reply(p, g, c)
  <2>1. HandLock(p, g, g.is_holding_lock)
    BY <1>1, <1>2 DEF HandLock, Reply
  <2> QED
    BY <1>1, <1>2, <2>1 DEF Answer, Reply
<1>3. CASE ReplyStayLocked(p, g, c)
  <2>1. HandLock(p, g, FALSE)
    BY <1>1, <1>3 DEF HandLock, ReplyStayLocked, ConsumeLock
  <2> QED
    BY <1>3, <2>1 DEF Answer, ReplyStayLocked
<1> QED
  BY <1>2, <1>3

LEMMA GiveUpCases ==
    ASSUME Basics, NEW p \in Peer, NEW g \in guards[p], AckGuard(p, g) \/ DropGuard(p, g)
    PROVE  \E unlock \in BOOLEAN : GiveUp(p, g, unlock)
<1>1. /\ lock_guards \in [Peer -> Nat] /\ g.is_holding_lock \in BOOLEAN
  BY DEF Basics, Typed, ReplyGuard
<1>2. CASE DropGuard(p, g)
  <2>1. HandLock(p, g, g.is_holding_lock)
    BY <1>1, <1>2 DEF HandLock, DropGuard
  <2> QED
    BY <1>1, <1>2, <2>1 DEF GiveUp, DropGuard
<1>3. CASE AckGuard(p, g)
  <2>1. HandLock(p, g, FALSE)
    BY <1>1, <1>3 DEF HandLock, AckGuard, ConsumeLock
  <2> QED
    BY <1>3, <2>1 DEF GiveUp, AckGuard
<1> QED
  BY <1>2, <1>3

\* The link of a delivery is None or something sent.
LEMMA TakenDataType ==
    ASSUME NEW s \in SeqExState, NEW r \in OptSeqNo
    PROVE  TakenData(s, r) \in Data \cup {None}
<1>1. CASE r = None
  BY <1>1 DEF TakenData
<1>2. CASE r # None
  <2>1. Idx(r) \in 0 .. CAP - 1
    BY <1>2, IdxType DEF OptSeqNo
  <2>2. s.send_window[Idx(r)] \in SendEntry \cup {None}
    BY <2>1 DEF SeqExState
  <2> QED
    BY <2>2 DEF TakenData, SentEntry, SendEntry
<1> QED
  BY <1>1, <1>2

\* Where an entry of the receive window sits.
LEMMA RecvNumbers ==
    ASSUME NEW s, Windows(s), NEW i \in 0 .. CAP - 1, s.recv_window[i] # Empty
    PROVE  /\ s.recv_window[i].seq_no \in SeqNo
           /\ Idx(s.recv_window[i].seq_no) = i
           /\ Wrap(s.recv_window[i].seq_no - s.next_recv_seq_no) \in 0 .. CAP - 1
<1>1. s \in SeqExState /\ RecvSlots(s)
  BY DEF Windows
<1>2. s.recv_window[i] \in RecvEntry
  BY <1>1 DEF SeqExState
<1> QED
  BY <1>1, <1>2, RecvEntryFacts DEF RecvSlots, Normalized

\* The packet at distance 0 is the one that is expected.
LEMMA NextNumber ==
    ASSUME NEW a \in SeqNo, NEW b \in SeqNo
    PROVE  Wrap(b - a) = 0 <=> b = a
<1>1. SeqNoMod \in Nat /\ SeqNoMod > 0 /\ a \in Int /\ b \in Int /\ a >= 0 /\ b >= 0
      /\ a < SeqNoMod /\ b < SeqNoMod
  BY SeqNoAssumption, CapAssumption DEF SeqNo
<1>2. Wrap(b - a) = IF b - a < 0 THEN b - a + SeqNoMod
                    ELSE IF b - a < SeqNoMod THEN b - a ELSE b - a - SeqNoMod
  BY <1>1, WrapOnce
<1> QED
  BY <1>1, <1>2

\* A number in the receive window finds its own entry in its slot, or none.
LEMMA OwnEntry ==
    ASSUME NEW s, Windows(s), NEW n \in SeqNo, Normalized(s, n) \in 0 .. CAP - 1,
           s.recv_window[Idx(n)] # Empty
    PROVE  s.recv_window[Idx(n)].seq_no = n
<1>1. s.next_recv_seq_no \in SeqNo
  BY DEF Windows, SeqExState
<1>2. /\ s.recv_window[Idx(n)].seq_no \in SeqNo /\ Idx(s.recv_window[Idx(n)].seq_no) = Idx(n)
      /\ Wrap(s.recv_window[Idx(n)].seq_no - s.next_recv_seq_no) \in 0 .. CAP - 1
  BY IdxType, RecvNumbers
<1> QED
  BY <1>1, <1>2, SlotUnique DEF Normalized

\* What may be handed to the application.
Handable(s, m, is_next) ==
    /\ m \in Acceptable /\ is_next \in BOOLEAN
    /\ IsFullInner(s, m.reply_no) = "Ok"
    /\ Normalized(s, m.seq_no) \in 0 .. CAP - 1
    /\ is_next <=> m.seq_no = s.next_recv_seq_no
    /\ m.seq_cst => is_next /\ ~s.is_locked

LEMMA ReceiveHandable ==
    ASSUME NEW s, Windows(s), NEW m \in DataPacket, ReceiveOutcome(s, m) = "Deliver"
    PROVE  /\ Handable(s, m, IsNext(s, m.seq_no))
           /\ Receive(s, m) = Accept(s, m, IsNext(s, m.seq_no))
<1>1. s \in SeqExState /\ s.next_recv_seq_no \in SeqNo
  BY DEF Windows, SeqExState
<1>2. /\ Normalized(s, m.seq_no) \in 0 .. CAP - 1
  BY <1>1, OutcomeFacts
<1>3. m \in Acceptable /\ m.seq_no \in SeqNo
  BY DEF Acceptable, DataPacket
<1>4. IsFullInner(s, m.reply_no) = "Ok" /\ ~AwaitsTurn(s, m) /\ ~AwaitsLock(s, m)
  BY <1>1, IsFullFacts DEF ReceiveOutcome, TryError
<1>5. IsNext(s, m.seq_no) <=> m.seq_no = s.next_recv_seq_no
  BY <1>1, <1>3, NextNumber DEF IsNext, Normalized
<1>6. m.seq_cst => IsNext(s, m.seq_no) /\ ~s.is_locked
  BY <1>4 DEF AwaitsTurn, AwaitsLock
<1>7. IsNext(s, m.seq_no) \in BOOLEAN
  BY DEF IsNext
<1>8. Receive(s, m) = Accept(s, m, IsNext(s, m.seq_no))
  BY DEF Receive, TryError
<1> QED
  BY <1>2, <1>3, <1>4, <1>5, <1>6, <1>7, <1>8 DEF Handable

LEMMA PumpHandable ==
    ASSUME NEW s, Windows(s), PumpOutcome(s) = "Deliver"
    PROVE  /\ Handable(s, NextEntry(s), TRUE)
           /\ Pump(s) = Accept(s, NextEntry(s), TRUE)
           /\ NextEntry(s).tag = "Occupied"
<1> DEFINE e == NextEntry(s)
<1>1. s \in SeqExState /\ s.next_recv_seq_no \in SeqNo /\ CAP \in Nat /\ CAP > 1
  BY CapAssumption DEF Windows, SeqExState
<1>2. e \in OccupiedEntry /\ (e.seq_cst => ~s.is_locked)
  BY <1>1, PumpEntry
<1>3. Idx(s.next_recv_seq_no) \in 0 .. CAP - 1 /\ e # Empty
  BY <1>1, <1>2, IdxType DEF OccupiedEntry, Empty
<1>5. Normalized(s, s.next_recv_seq_no) \in 0 .. CAP - 1
  BY <1>1, NextNumber DEF Normalized
<1>6. e.seq_no = s.next_recv_seq_no
  BY <1>1, <1>3, <1>5, OwnEntry DEF NextEntry
<1>7. IsFullInner(s, e.reply_no) = "Ok" /\ e.tag = "Occupied"
  BY <1>1, IsFullFacts DEF PumpOutcome, TryError
<1>8. Pump(s) = Accept(s, e, TRUE)
  BY DEF Pump
<1> HIDE DEF e
<1>9. Handable(s, e, TRUE)
  BY <1>2, <1>5, <1>6, <1>7 DEF Handable, Acceptable
<1> QED
  BY <1>7, <1>8, <1>9 DEF e

\* A packet is handed over, by receive or by try_pump.
Hands(p, m, is_next) ==
    /\ Handable(seq[p], m, is_next)
    /\ \/ m \in net[p] /\ m.type = "Data"
       \/ m = NextEntry(seq[p]) /\ m.tag = "Occupied"
    /\ Moves(p, Accept(seq[p], m, is_next),
             guards[p] \cup {Guard(m.seq_no, m.seq_cst, Len(delivered[p]) + 1)}, lock_guards[p],
             sent[p],
             Append(delivered[p], [data |-> m.data, link |-> TakenData(seq[p], m.reply_no)]), {})
    /\ repeated' = (repeated \/ IsRepeat(seq[p], m))
    /\ acked' = acked
\* receive saves a packet that has to wait, or answers an old one again.
Saves(p, m) ==
    /\ m \in net[p] /\ m \in DataPacket
    /\ Normalized(seq[p], m.seq_no) \in 0 .. CAP - 1
    /\ ~IsDuplicate(seq[p], m.seq_no)
    /\ Moves(p, [seq[p] EXCEPT !.recv_window[Idx(m.seq_no)] = Occupied(m)], guards[p],
             lock_guards[p], sent[p], delivered[p], {})
    /\ repeated' = repeated /\ acked' = acked
AcksAgain(p, m) ==
    /\ m \in net[p] /\ m \in DataPacket
    /\ IsBelowRange(seq[p], m.seq_no) /\ ~WillReply(seq[p], m.seq_no)
    /\ Moves(p, seq[p], guards[p], lock_guards[p], sent[p], delivered[p], {Ack(m.seq_no)})
    /\ repeated' = repeated /\ acked' = acked

LEMMA PumpHands ==
    ASSUME Basics, NEW p \in Peer, PumpNext(p)
    PROVE  Hands(p, NextEntry(seq[p]), TRUE)
<1> DEFINE s == seq[p]
           e == NextEntry(s)
<1>1. Windows(s) /\ PumpOutcome(s) = "Deliver" /\ s \in SeqExState
  BY BasicsFacts DEF PumpNext
<1>2. Handable(s, e, TRUE) /\ Pump(s) = Accept(s, e, TRUE) /\ e.tag = "Occupied"
  BY <1>1, PumpHandable
<1>3. ~IsRepeat(s, e)
  <2>1. e.seq_no = s.next_recv_seq_no
    BY <1>2 DEF Handable
  <2> QED
    BY <1>2, <2>1 DEF IsRepeat, NextEntry, Unlocked
<1>4. Moves(p, Accept(s, e, TRUE), guards[p] \cup {Guard(e.seq_no, e.seq_cst, Len(delivered[p]) + 1)},
            lock_guards[p], sent[p],
            Append(delivered[p], [data |-> e.data, link |-> TakenData(s, e.reply_no)]), {})
  <2>1. Typed /\ Other(p) \in Peer
    BY OtherPeer DEF Basics
  <2> QED
    BY <1>2, <2>1 DEF PumpNext, Deliver, Moves, Typed
<1>5. repeated' = (repeated \/ IsRepeat(s, e)) /\ acked' = acked
  BY <1>3 DEF PumpNext, Basics, Typed
<1> QED
  BY <1>2, <1>4, <1>5 DEF Hands

LEMMA ReceiveCases ==
    ASSUME Basics, NEW p \in Peer, NEW m \in net[p], ReceiveData(p, m)
    PROVE  \/ Hands(p, m, IsNext(seq[p], m.seq_no))
           \/ Saves(p, m)
           \/ AcksAgain(p, m)
           \/ UNCHANGED vars
<1> DEFINE s == seq[p]
           outcome == ReceiveOutcome(s, m)
<1>1. /\ Typed /\ Other(p) \in Peer /\ Windows(s) /\ s \in SeqExState
  BY BasicsFacts, OtherPeer DEF Basics
<1>2. m \in DataPacket /\ m.type = "Data"
  BY <1>1 DEF ReceiveData, Typed, Packet, AckPacket
<1>3. CASE outcome = "Deliver"
  <2>1. Handable(s, m, IsNext(s, m.seq_no)) /\ Receive(s, m) = Accept(s, m, IsNext(s, m.seq_no))
    BY <1>1, <1>2, <1>3, ReceiveHandable
  <2>2. Moves(p, Accept(s, m, IsNext(s, m.seq_no)),
              guards[p] \cup {Guard(m.seq_no, m.seq_cst, Len(delivered[p]) + 1)}, lock_guards[p],
              sent[p],
              Append(delivered[p], [data |-> m.data, link |-> TakenData(s, m.reply_no)]), {})
    BY <1>1, <1>3, <2>1 DEF ReceiveData, Deliver, Moves, Typed, Transmit
  <2>3. repeated' = (repeated \/ IsRepeat(s, m)) /\ acked' = acked
    BY <1>3 DEF ReceiveData
  <2> QED
    BY <1>2, <2>1, <2>2, <2>3 DEF Hands
<1>4. CASE outcome # "Deliver"
  <2>1. /\ UNCHANGED <<delivered, guards, lock_guards, sent, acked, losses>> /\ repeated' = repeated
        /\ seq' = [seq EXCEPT ![p] = Receive(s, m)]
        /\ Transmit(p, IF outcome = "DroppedDuplicateResendAck" THEN {Ack(m.seq_no)} ELSE {})
    BY <1>1, <1>4 DEF ReceiveData, Typed
  <2>2. CASE outcome \in TryError /\ ~IsDuplicate(s, m.seq_no)
    <3>1. Normalized(s, m.seq_no) \in 0 .. CAP - 1
      BY <1>1, <1>2, <2>2, OutcomeFacts
    <3>2. Receive(s, m) = [s EXCEPT !.recv_window[Idx(m.seq_no)] = Occupied(m)]
      BY <2>2 DEF Receive, TryError
    <3>3. outcome # "DroppedDuplicateResendAck"
      BY <2>2 DEF TryError
    <3>4. Moves(p, [s EXCEPT !.recv_window[Idx(m.seq_no)] = Occupied(m)], guards[p],
                lock_guards[p], sent[p], delivered[p], {})
      BY <1>1, <2>1, <3>2, <3>3 DEF Moves, Typed, Transmit
    <3> QED
      BY <1>2, <2>1, <2>2, <3>1, <3>4 DEF Saves
  <2>3. CASE ~(outcome \in TryError /\ ~IsDuplicate(s, m.seq_no))
    <3>1. Receive(s, m) = s
      BY <1>4, <2>3 DEF Receive
    <3>2. CASE outcome = "DroppedDuplicateResendAck"
      <4>1. IsBelowRange(s, m.seq_no) /\ ~WillReply(s, m.seq_no)
        <5>1. ASSUME ~IsBelowRange(s, m.seq_no) PROVE FALSE
          <6>1. IsFullInner(s, m.reply_no) \in {"Ok"} \cup TryError
            BY <1>1, IsFullFacts
          <6> QED
            BY <3>2, <5>1, <6>1 DEF ReceiveOutcome, TryError
        <5> QED
          BY <3>2, <5>1 DEF ReceiveOutcome
      <4>2. Moves(p, s, guards[p], lock_guards[p], sent[p], delivered[p], {Ack(m.seq_no)})
        BY <1>1, <2>1, <3>1, <3>2 DEF Moves, Typed, Transmit
      <4> QED
        BY <1>2, <2>1, <4>1, <4>2 DEF AcksAgain
    <3>3. CASE outcome # "DroppedDuplicateResendAck"
      BY <1>1, <2>1, <3>1, <3>3 DEF vars, Typed, Transmit
    <3> QED
      BY <3>2, <3>3
  <2> QED
    BY <2>2, <2>3
<1> QED
  BY <1>3, <1>4

LEMMA SendMoves ==
    ASSUME Basics, NEW p \in Peer, NEW c \in SeqCstModes, Send(p, c)
    PROVE  LET d == Len(sent[p]) + 1
           IN  /\ Moves(p, TrySend(seq[p], 0, c, d), guards[p], lock_guards[p],
                        Append(sent[p], [reply_to |-> None, seq_cst |-> c]), delivered[p],
                        {ToPacket(NewEntry(seq[p], 0, None, c, d))})
               /\ CanSend(seq[p]) /\ repeated' = repeated /\ acked' = acked
               /\ c \in BOOLEAN /\ d \in Data /\ d \in 1 .. MaxPayloads[p] + MaxReplies[p]
               /\ [reply_to |-> None, seq_cst |-> c] \in Sent
               /\ Written(Append(sent[p], [reply_to |-> None, seq_cst |-> c]),
                          MaxPayloads[p], MaxReplies[p])
<1> DEFINE d == Len(sent[p]) + 1
           x == [reply_to |-> None, seq_cst |-> c]
<1>1. Typed /\ Other(p) \in Peer /\ Written(sent[p], MaxPayloads[p], MaxReplies[p])
  BY BasicsFacts, OtherPeer DEF Basics
<1>2. c \in BOOLEAN /\ x \in Sent /\ x.reply_to = None
  BY BoundAssumption DEF Sent
<1>3. Cardinality(PayloadsOf(sent[p])) < MaxPayloads[p]
  BY DEF Send, Payloads, PayloadsOf
<1>4. Written(Append(sent[p], x), MaxPayloads[p], MaxReplies[p])
      /\ d \in 1 .. MaxPayloads[p] + MaxReplies[p]
  <2> HIDE DEF x
  <2> QED
    BY <1>1, <1>2, <1>3, WrittenAppend
<1>5. d \in Data
  BY <1>4, BoundAssumption
<1>6. Moves(p, TrySend(seq[p], 0, c, d), guards[p], lock_guards[p],
            Append(sent[p], x), delivered[p], {ToPacket(NewEntry(seq[p], 0, None, c, d))})
  BY <1>1 DEF Send, Moves, Typed, Transmit
<1> QED
  BY <1>2, <1>4, <1>5, <1>6 DEF Send

\* A packet made of an entry is of its type.
LEMMA ToPacketType ==
    ASSUME NEW e \in SendEntry
    PROVE  ToPacket(e) \in DataPacket /\ ToPacket(e) \in Packet
BY DEF ToPacket, SendEntry, DataPacket, Packet

\* Nothing is due before time 0.
LEMMA NotDueBeforeZero == ASSUME NEW s \in SeqExState PROVE NotDueBefore(s, 0)
<1>1. ASSUME NEW i \in 0 .. CAP - 1, s.send_window[i] # None
      PROVE  0 <= s.send_window[i].next_resend_time
  <2>1. s.send_window[i] \in SendEntry
    BY <1>1 DEF SeqExState
  <2> QED
    BY <2>1 DEF SendEntry
<1> QED
  BY <1>1 DEF NotDueBefore

LEMMA SendBasics ==
    ASSUME Basics, NEW p \in Peer, NEW c \in SeqCstModes, Send(p, c)
    PROVE  Basics'
<1> DEFINE d == Len(sent[p]) + 1
           s == seq[p]
           v == TrySend(s, 0, c, d)
           e == NewEntry(s, 0, None, c, d)
           sn == Append(sent[p], [reply_to |-> None, seq_cst |-> c])
<1>1. /\ Moves(p, v, guards[p], lock_guards[p], sn, delivered[p], {ToPacket(e)})
      /\ repeated' = repeated /\ acked' = acked
      /\ c \in BOOLEAN /\ d \in Data /\ Written(sn, MaxPayloads[p], MaxReplies[p])
  BY SendMoves
<1>2. /\ Timely(s) /\ Windows(s) /\ s \in SeqExState
      /\ Guarded(s, guards[p], lock_guards[p], delivered[p])
      /\ acked \in [Peer -> SUBSET Data] /\ repeated \in BOOLEAN
  BY BasicsFacts
<1> HIDE DEF d, sn
<1>3. Timely(v)
  <2>1. NotDueBefore(s, 0)
    BY <1>2, NotDueBeforeZero
  <2> QED
    BY <1>1, <1>2, <2>1, TrySendWindows, TimeAssumption DEF Timely
<1>4. v \in SeqExState /\ SameReplies(s, v)
  BY <1>1, <1>2, TrySendType
<1>5. Guarded(v, guards[p], lock_guards[p], delivered[p])
  BY <1>2, <1>4, GuardedSame
<1>6. {ToPacket(e)} \subseteq Packet
  <2>1. e \in SendEntry
    BY <1>1, <1>2, NewEntryFacts DEF OptSeqNo
  <2> QED
    BY <2>1, ToPacketType
<1> HIDE DEF v, e
<1> QED
  BY <1>1, <1>2, <1>3, <1>5, <1>6, BasicsMove

LEMMA AnswerMoves ==
    ASSUME Basics, NEW p \in Peer, NEW g, NEW u, NEW c, Answer(p, g, u, c)
    PROVE  LET d == Len(sent[p]) + 1
               x == [reply_to |-> delivered[p][g.ord].data, seq_cst |-> c]
               r == g.reply_no
           IN  /\ g \in guards[p] /\ g \in ReplyGuard /\ Reserved(seq[p], r)
               /\ g.ord \in 1 .. Len(delivered[p])
               /\ Moves(p, ReplyRaw(seq[p], 0, r, u, c, d), guards[p] \ {g},
                        lock_guards[p] + (IF g.is_holding_lock /\ ~u THEN 1 ELSE 0),
                        Append(sent[p], x), delivered[p],
                        {ToPacket(NewEntry(seq[p], 0, r, c, d))})
               /\ u \in BOOLEAN /\ (u => g.is_holding_lock)
               /\ repeated' = repeated /\ acked' = acked
               /\ c \in BOOLEAN /\ c \in SeqCstModes
               /\ d \in Data /\ d \in 1 .. MaxPayloads[p] + MaxReplies[p]
               /\ x \in Sent /\ x.reply_to # None
               /\ Written(Append(sent[p], x), MaxPayloads[p], MaxReplies[p])
<1> DEFINE d == Len(sent[p]) + 1
           x == [reply_to |-> delivered[p][g.ord].data, seq_cst |-> c]
           r == g.reply_no
<1>1. /\ Typed /\ Other(p) \in Peer /\ Written(sent[p], MaxPayloads[p], MaxReplies[p])
      /\ Guarded(seq[p], guards[p], lock_guards[p], delivered[p])
      /\ delivered[p] \in Seq(Delivered)
  BY BasicsFacts, OtherPeer DEF Basics
<1>2. g \in guards[p] /\ c \in SeqCstModes /\ c \in BOOLEAN
  BY BoundAssumption DEF Answer
<1>3. g \in ReplyGuard /\ Reserved(seq[p], r) /\ g.ord \in 1 .. Len(delivered[p])
  BY <1>1, <1>2, GuardReserved DEF Guarded
<1>4. x \in Sent /\ x.reply_to # None
  <2>1. delivered[p][g.ord] \in Delivered
    BY <1>1, <1>3
  <2>2. delivered[p][g.ord].data \in Data
    BY <2>1 DEF Delivered
  <2> QED
    BY <1>2, <2>2, NoneAssumption DEF Sent
<1>5. Cardinality(DOMAIN sent[p] \ PayloadsOf(sent[p])) < MaxReplies[p]
  BY DEF Answer, ReplyTo, Replies, Payloads, PayloadsOf
<1>6. Written(Append(sent[p], x), MaxPayloads[p], MaxReplies[p])
      /\ d \in 1 .. MaxPayloads[p] + MaxReplies[p]
  <2> HIDE DEF x
  <2> QED
    BY <1>1, <1>4, <1>5, WrittenAppend
<1>7. d \in Data
  BY <1>6, BoundAssumption
<1>8. /\ Moves(p, ReplyRaw(seq[p], 0, r, u, c, d), guards[p] \ {g},
               lock_guards[p] + (IF g.is_holding_lock /\ ~u THEN 1 ELSE 0),
               Append(sent[p], x), delivered[p], {ToPacket(NewEntry(seq[p], 0, r, c, d))})
  BY <1>1, <1>3 DEF Answer, ReplyTo, HandLock, Moves, Typed, Transmit
<1> QED
  BY <1>2, <1>3, <1>4, <1>6, <1>7, <1>8 DEF Answer, HandLock

LEMMA AnswerBasics ==
    ASSUME Basics, NEW p \in Peer, NEW g, NEW u, NEW c, Answer(p, g, u, c)
    PROVE  Basics'
<1> DEFINE d == Len(sent[p]) + 1
           x == [reply_to |-> delivered[p][g.ord].data, seq_cst |-> c]
           r == g.reply_no
           s == seq[p]
           v == ReplyRaw(s, 0, r, u, c, d)
           e == NewEntry(s, 0, r, c, d)
           lg == lock_guards[p] + (IF g.is_holding_lock /\ ~u THEN 1 ELSE 0)
           sn == Append(sent[p], x)
<1>1. /\ Moves(p, v, guards[p] \ {g}, lg, sn, delivered[p], {ToPacket(e)})
      /\ repeated' = repeated /\ acked' = acked /\ g \in guards[p] /\ g \in ReplyGuard
      /\ Reserved(s, r) /\ u \in BOOLEAN /\ (u => g.is_holding_lock)
      /\ c \in BOOLEAN /\ d \in Data /\ Written(sn, MaxPayloads[p], MaxReplies[p])
  BY AnswerMoves
<1>2. /\ Timely(s) /\ Windows(s) /\ s \in SeqExState
      /\ Guarded(s, guards[p], lock_guards[p], delivered[p])
      /\ acked \in [Peer -> SUBSET Data] /\ repeated \in BOOLEAN /\ r \in SeqNo
  BY <1>1, BasicsFacts DEF ReplyGuard
<1> HIDE DEF d, sn
<1>3. Timely(v)
  <2>1. NotDueBefore(s, 0)
    BY <1>2, NotDueBeforeZero
  <2> QED
    BY <1>1, <1>2, <2>1, ReplyRawWindows, TimeAssumption DEF Timely
<1>4. /\ v \in SeqExState /\ v.is_locked = (s.is_locked /\ ~u)
      /\ v.concurrent_replies = RemoveReservation(s, r).concurrent_replies
  BY <1>1, <1>2, ReplyRawType
<1>5. {ToPacket(e)} \subseteq Packet
  <2>1. e \in SendEntry
    BY <1>1, <1>2, NewEntryFacts DEF OptSeqNo
  <2> QED
    BY <2>1, ToPacketType
<1> HIDE DEF v, e
<1>6. Guarded(v, guards[p] \ {g}, lg, delivered[p])
  BY <1>1, <1>2, <1>4, GuardedConsume
<1> HIDE DEF lg
<1> QED
  BY <1>1, <1>2, <1>3, <1>5, <1>6, BasicsMove

LEMMA GiveUpMoves ==
    ASSUME Basics, NEW p \in Peer, NEW g, NEW u, GiveUp(p, g, u)
    PROVE  LET r == g.reply_no
           IN  /\ g \in guards[p] /\ g \in ReplyGuard /\ Reserved(seq[p], r)
               /\ g.ord \in 1 .. Len(delivered[p])
               /\ Moves(p, AckRaw(seq[p], r, u), guards[p] \ {g},
                        lock_guards[p] + (IF g.is_holding_lock /\ ~u THEN 1 ELSE 0),
                        sent[p], delivered[p], {Ack(r)})
               /\ u \in BOOLEAN /\ (u => g.is_holding_lock)
               /\ repeated' = repeated /\ acked' = acked
<1>1. /\ Typed /\ Other(p) \in Peer
      /\ Guarded(seq[p], guards[p], lock_guards[p], delivered[p])
  BY BasicsFacts, OtherPeer DEF Basics
<1>2. g \in guards[p]
  BY DEF GiveUp
<1>3. g \in ReplyGuard /\ Reserved(seq[p], g.reply_no) /\ g.ord \in 1 .. Len(delivered[p])
  BY <1>1, <1>2, GuardReserved DEF Guarded
<1>4. Moves(p, AckRaw(seq[p], g.reply_no, u), guards[p] \ {g},
            lock_guards[p] + (IF g.is_holding_lock /\ ~u THEN 1 ELSE 0),
            sent[p], delivered[p], {Ack(g.reply_no)})
  BY <1>1, <1>3 DEF GiveUp, AckTo, HandLock, Moves, Typed, Transmit
<1> QED
  BY <1>2, <1>3, <1>4 DEF GiveUp, HandLock

LEMMA GiveUpBasics ==
    ASSUME Basics, NEW p \in Peer, NEW g, NEW u, GiveUp(p, g, u)
    PROVE  Basics'
<1> DEFINE r == g.reply_no
           s == seq[p]
           v == AckRaw(s, r, u)
           lg == lock_guards[p] + (IF g.is_holding_lock /\ ~u THEN 1 ELSE 0)
<1>1. /\ Moves(p, v, guards[p] \ {g}, lg, sent[p], delivered[p], {Ack(r)})
      /\ repeated' = repeated /\ acked' = acked /\ g \in guards[p] /\ g \in ReplyGuard
      /\ Reserved(s, r) /\ u \in BOOLEAN /\ (u => g.is_holding_lock)
  BY GiveUpMoves
<1>2. /\ Timely(s) /\ Windows(s) /\ s \in SeqExState
      /\ Guarded(s, guards[p], lock_guards[p], delivered[p])
      /\ acked \in [Peer -> SUBSET Data] /\ repeated \in BOOLEAN /\ r \in SeqNo
      /\ Written(sent[p], MaxPayloads[p], MaxReplies[p])
  BY <1>1, BasicsFacts DEF ReplyGuard
<1>3. Timely(v)
  <2>1. Windows(v) /\ SameSendSide(s, v)
    BY <1>1, <1>2, AckRawWindows
  <2> QED
    BY <1>2, <2>1 DEF Timely, NotDueBefore, SameSendSide
<1>4. /\ v \in SeqExState /\ v.is_locked = (s.is_locked /\ ~u)
      /\ v.concurrent_replies = RemoveReservation(s, r).concurrent_replies
  BY <1>1, <1>2, AckRawType
<1>5. {Ack(r)} \subseteq Packet
  BY <1>2 DEF Ack, Packet, AckPacket
<1> HIDE DEF v
<1>6. Guarded(v, guards[p] \ {g}, lg, delivered[p])
  BY <1>1, <1>2, <1>4, GuardedConsume
<1> HIDE DEF lg
<1> QED
  BY <1>1, <1>2, <1>3, <1>5, <1>6, BasicsMove

LEMMA HandsBasics ==
    ASSUME Basics, NEW p \in Peer, NEW m, NEW is_next, Hands(p, m, is_next)
    PROVE  Basics'
<1> DEFINE s == seq[p]
           v == Accept(s, m, is_next)
           x == [data |-> m.data, link |-> TakenData(s, m.reply_no)]
           gs == guards[p] \cup {Guard(m.seq_no, m.seq_cst, Len(delivered[p]) + 1)}
           dl == Append(delivered[p], x)
<1>1. /\ Moves(p, v, gs, lock_guards[p], sent[p], dl, {})
      /\ Handable(s, m, is_next)
      /\ repeated' = (repeated \/ IsRepeat(s, m)) /\ acked' = acked
  BY DEF Hands
<1>2. /\ Timely(s) /\ Windows(s) /\ s \in SeqExState
      /\ Guarded(s, guards[p], lock_guards[p], delivered[p])
      /\ acked \in [Peer -> SUBSET Data] /\ repeated \in BOOLEAN
      /\ Written(sent[p], MaxPayloads[p], MaxReplies[p])
  BY BasicsFacts
<1>3. /\ m \in Acceptable /\ is_next \in BOOLEAN /\ (m.seq_cst => ~s.is_locked)
      /\ Len(s.concurrent_replies) + 1 <= CAP - 2
      /\ ~is_next => Normalized(s, m.seq_no) \in 0 .. CAP - 1
  BY <1>1, <1>2, IsFullFacts DEF Handable
<1>4. m.seq_no \in SeqNo /\ m.reply_no \in OptSeqNo /\ m.seq_cst \in BOOLEAN
  BY <1>3, AcceptableFacts
<1>5. x \in Delivered
  <2>1. m.data \in Data
    BY <1>3 DEF Acceptable, DataPacket, OccupiedEntry
  <2> QED
    BY <1>2, <1>4, <2>1, TakenDataType DEF Delivered
<1>6. v \in SeqExState /\ Issues(s, v, m.seq_no, m.seq_cst)
  BY <1>2, <1>3, AcceptType
<1>7. Timely(v)
  <2>1. Windows(v) /\ OnlyTakes(s, v)
    BY <1>2, <1>3, AcceptWindows
  <2> QED
    BY <1>2, <2>1, OnlyTakesTimer, NotDueBeforeZero DEF Timely
<1> HIDE DEF v, x
<1>8. Guarded(v, gs, lock_guards[p], dl)
  BY <1>2, <1>3, <1>4, <1>5, <1>6, GuardedIssue
<1>9. repeated' \in BOOLEAN /\ {} \subseteq Packet
  BY <1>1, <1>2 DEF IsRepeat
<1> HIDE DEF gs, dl
<1> QED
  BY <1>1, <1>2, <1>7, <1>8, <1>9, BasicsMove

\* The other calls neither issue a number nor return one, and add nothing to the send window.
LEMMA SameBasics ==
    ASSUME Basics, NEW p \in Peer, NEW v, NEW packets,
           Moves(p, v, guards[p], lock_guards[p], sent[p], delivered[p], packets),
           Timely(v), SameReplies(seq[p], v), packets \subseteq Packet,
           acked' \in [Peer -> SUBSET Data], repeated' = repeated
    PROVE  Basics'
<1>1. /\ Guarded(seq[p], guards[p], lock_guards[p], delivered[p]) /\ repeated \in BOOLEAN
      /\ Written(sent[p], MaxPayloads[p], MaxReplies[p])
  BY BasicsFacts
<1>2. Guarded(v, guards[p], lock_guards[p], delivered[p])
  BY <1>1, GuardedSame DEF Timely, Windows
<1> QED
  BY <1>1, <1>2, BasicsMove

LEMMA SavesBasics ==
    ASSUME Basics, NEW p \in Peer, NEW m, Saves(p, m)
    PROVE  Basics'
<1> DEFINE s == seq[p]
           v == [s EXCEPT !.recv_window[Idx(m.seq_no)] = Occupied(m)]
<1>1. /\ Timely(s) /\ Windows(s) /\ s \in SeqExState /\ RecvSlots(s)
      /\ acked \in [Peer -> SUBSET Data]
  BY BasicsFacts DEF Windows
<1>2. m \in DataPacket /\ m.seq_no \in SeqNo /\ Normalized(s, m.seq_no) \in 0 .. CAP - 1
  BY DEF Saves, DataPacket
<1>3. /\ Occupied(m) \in RecvEntry /\ Occupied(m).seq_no = m.seq_no
  BY <1>2, RecvEntryFacts
<1>4. /\ v \in SeqExState /\ RecvSlots(v) /\ SameSendSide(s, v)
      /\ v.concurrent_replies = s.concurrent_replies
  BY <1>1, <1>2, <1>3, FillSlotFacts
<1>5. v.is_locked = s.is_locked
  BY <1>1 DEF SeqExState
<1>6. /\ Moves(p, v, guards[p], lock_guards[p], sent[p], delivered[p], {})
      /\ repeated' = repeated /\ acked' = acked
  BY DEF Saves
<1> HIDE DEF v
<1>7. Timely(v)
  BY <1>1, <1>4 DEF Timely, Windows, SendSlots, NotDueBefore, SameSendSide
<1>8. SameReplies(s, v) /\ {} \subseteq Packet
  BY <1>4, <1>5 DEF SameReplies
<1> QED
  BY <1>1, <1>6, <1>7, <1>8, SameBasics

LEMMA AcksAgainBasics ==
    ASSUME Basics, NEW p \in Peer, NEW m, AcksAgain(p, m)
    PROVE  Basics'
<1>1. /\ Timely(seq[p]) /\ acked \in [Peer -> SUBSET Data] /\ SameReplies(seq[p], seq[p])
  BY BasicsFacts DEF SameReplies
<1>2. {Ack(m.seq_no)} \subseteq Packet
  BY DEF AcksAgain, DataPacket, Ack, Packet, AckPacket
<1> QED
  BY <1>1, <1>2, SameBasics DEF AcksAgain

\* receive of an Ack
LEMMA ReceiveAckMoves ==
    ASSUME Basics, NEW p \in Peer, NEW m \in net[p], ReceiveAck(p, m)
    PROVE  /\ m.reply_no \in SeqNo /\ m = Ack(m.reply_no)
           /\ Moves(p, TakeSend(seq[p], m.reply_no), guards[p], lock_guards[p], sent[p],
                    delivered[p], {})
           /\ repeated' = repeated
           /\ acked' = [acked EXCEPT ![p] = IF TakenData(seq[p], m.reply_no) = None THEN @
                                            ELSE @ \cup {TakenData(seq[p], m.reply_no)}]
<1>1. Typed /\ Other(p) \in Peer
  BY OtherPeer DEF Basics
<1>2. m \in AckPacket
  BY <1>1 DEF ReceiveAck, Typed, Packet, DataPacket
<1>3. m.reply_no \in SeqNo /\ m = Ack(m.reply_no)
  BY <1>2 DEF AckPacket, Ack
<1>4. Moves(p, TakeSend(seq[p], m.reply_no), guards[p], lock_guards[p], sent[p], delivered[p], {})
  BY <1>1 DEF ReceiveAck, Moves, Typed
<1> QED
  BY <1>3, <1>4 DEF ReceiveAck

LEMMA ReceiveAckBasics ==
    ASSUME Basics, NEW p \in Peer, NEW m \in net[p], ReceiveAck(p, m)
    PROVE  Basics'
<1> DEFINE s == seq[p]
           r == m.reply_no
           v == TakeSend(s, r)
<1>1. /\ Timely(s) /\ Windows(s) /\ s \in SeqExState
      /\ acked \in [Peer -> SUBSET Data] /\ acked[p] \in SUBSET Data
  BY BasicsFacts
<1>2. /\ r \in SeqNo /\ repeated' = repeated
      /\ Moves(p, v, guards[p], lock_guards[p], sent[p], delivered[p], {})
      /\ acked' = [acked EXCEPT ![p] = IF TakenData(s, r) = None THEN @ ELSE @ \cup {TakenData(s, r)}]
  BY ReceiveAckMoves
<1>3. Timely(v)
  <2>1. Windows(v) /\ OnlyTakes(s, v)
    BY <1>1, <1>2, TakeSendWindows
  <2> QED
    BY <1>1, <2>1, OnlyTakesTimer, NotDueBeforeZero DEF Timely
<1>4. SameReplies(s, v)
  BY <1>1, <1>2, TakeSendType
<1>5. acked' \in [Peer -> SUBSET Data]
  <2>1. TakenData(s, r) \in Data \cup {None}
    BY <1>1, <1>2, TakenDataType DEF OptSeqNo
  <2> QED
    BY <1>1, <1>2, <2>1
<1> HIDE DEF v
<1> QED
  BY <1>2, <1>3, <1>4, <1>5, SameBasics

LEMMA UnlockMoves ==
    ASSUME Basics, NEW p \in Peer, NEW g \in guards[p], UnlockGuard(p, g)
    PROVE  /\ Moves(p, UnlockRaw(seq[p]),
                    (guards[p] \ {g}) \cup {[g EXCEPT !.is_holding_lock = FALSE]},
                    lock_guards[p], sent[p], delivered[p], {})
           /\ g.is_holding_lock /\ repeated' = repeated /\ acked' = acked
<1>1. Typed /\ Other(p) \in Peer
  BY OtherPeer DEF Basics
<1> QED
  BY <1>1 DEF UnlockGuard, Moves, Typed

LEMMA UnlockBasics ==
    ASSUME Basics, NEW p \in Peer, NEW g \in guards[p], UnlockGuard(p, g)
    PROVE  Basics'
<1> DEFINE s == seq[p]
           v == UnlockRaw(s)
           gs == (guards[p] \ {g}) \cup {[g EXCEPT !.is_holding_lock = FALSE]}
<1>1. /\ Timely(s) /\ Windows(s)
      /\ Guarded(s, guards[p], lock_guards[p], delivered[p])
      /\ acked \in [Peer -> SUBSET Data] /\ repeated \in BOOLEAN
      /\ Written(sent[p], MaxPayloads[p], MaxReplies[p])
  BY BasicsFacts
<1>2. /\ Moves(p, v, gs, lock_guards[p], sent[p], delivered[p], {})
      /\ g.is_holding_lock /\ repeated' = repeated /\ acked' = acked
  BY UnlockMoves
<1>3. Guarded(v, gs, lock_guards[p], delivered[p])
  BY <1>1, <1>2, GuardedUnlock
<1>4. Timely(v)
  <2>1. Windows(v) /\ SameSendSide(s, v)
    BY <1>1, LockWindows DEF UnlockRaw
  <2> QED
    BY <1>1, <2>1 DEF Timely, NotDueBefore, SameSendSide
<1>5. {} \subseteq Packet
  OBVIOUS
<1> HIDE DEF v, gs
<1> QED
  BY <1>1, <1>2, <1>3, <1>4, <1>5, BasicsMove

LEMMA DropLockMoves ==
    ASSUME Basics, NEW p \in Peer, DropLockGuard(p)
    PROVE  /\ Moves(p, UnlockRaw(seq[p]), guards[p], lock_guards[p] - 1, sent[p], delivered[p], {})
           /\ lock_guards[p] > 0 /\ repeated' = repeated /\ acked' = acked
<1>1. Typed /\ Other(p) \in Peer
  BY OtherPeer DEF Basics
<1> QED
  BY <1>1 DEF DropLockGuard, Moves, Typed

LEMMA DropLockBasics ==
    ASSUME Basics, NEW p \in Peer, DropLockGuard(p)
    PROVE  Basics'
<1> DEFINE s == seq[p]
           v == UnlockRaw(s)
<1>1. /\ Timely(s) /\ Windows(s)
      /\ Guarded(s, guards[p], lock_guards[p], delivered[p])
      /\ acked \in [Peer -> SUBSET Data] /\ repeated \in BOOLEAN
      /\ Written(sent[p], MaxPayloads[p], MaxReplies[p])
  BY BasicsFacts
<1>2. /\ Moves(p, v, guards[p], lock_guards[p] - 1, sent[p], delivered[p], {})
      /\ lock_guards[p] > 0 /\ repeated' = repeated /\ acked' = acked
  BY DropLockMoves
<1>3. Guarded(v, guards[p], lock_guards[p] - 1, delivered[p])
  BY <1>1, <1>2, GuardedDropLock
<1>4. Timely(v)
  <2>1. Windows(v) /\ SameSendSide(s, v)
    BY <1>1, LockWindows DEF UnlockRaw
  <2> QED
    BY <1>1, <2>1 DEF Timely, NotDueBefore, SameSendSide
<1>5. {} \subseteq Packet
  OBVIOUS
<1> HIDE DEF v
<1> QED
  BY <1>1, <1>2, <1>3, <1>4, <1>5, BasicsMove

LEMMA ResendMoves ==
    ASSUME Basics, NEW p \in Peer, Resend(p)
    PROVE  /\ Moves(p, Service(seq[p], 0), guards[p], lock_guards[p], sent[p], delivered[p],
                    Resent(seq[p], 0))
           /\ repeated' = repeated /\ acked' = acked
           /\ \A m \in Resent(seq[p], 0) : \E i \in 0 .. CAP - 1 :
                seq[p].send_window[i] # None /\ m = ToPacket(seq[p].send_window[i])
<1>1. Typed /\ Other(p) \in Peer /\ seq[p] \in SeqExState
  BY BasicsFacts, OtherPeer DEF Basics
<1>2. Moves(p, Service(seq[p], 0), guards[p], lock_guards[p], sent[p], delivered[p],
            Resent(seq[p], 0))
  BY <1>1 DEF Resend, Moves, Typed, Transmit
<1>3. Visited(seq[p]) \subseteq 0 .. CAP - 1
  BY <1>1, VisitedType
<1> QED
  BY <1>2, <1>3 DEF Resend, Resent, Due

LEMMA ResendBasics ==
    ASSUME Basics, NEW p \in Peer, Resend(p)
    PROVE  Basics'
<1> DEFINE s == seq[p]
           v == Service(s, 0)
<1>1. /\ Timely(s) /\ Windows(s) /\ s \in SeqExState /\ acked \in [Peer -> SUBSET Data]
  BY BasicsFacts
<1>2. /\ Moves(p, v, guards[p], lock_guards[p], sent[p], delivered[p], Resent(s, 0))
      /\ repeated' = repeated /\ acked' = acked
      /\ \A m \in Resent(s, 0) : \E i \in 0 .. CAP - 1 :
            s.send_window[i] # None /\ m = ToPacket(s.send_window[i])
  BY ResendMoves
<1>3. Timely(v)
  BY <1>1, ServiceWindows, TimeAssumption DEF Timely
<1>4. SameReplies(s, v)
  BY <1>1, ServiceType
<1>5. Resent(s, 0) \subseteq Packet
  <2>1. ASSUME NEW m \in Resent(s, 0) PROVE m \in Packet
    <3>1. PICK i \in 0 .. CAP - 1 : s.send_window[i] # None /\ m = ToPacket(s.send_window[i])
      BY <1>2
    <3>2. s.send_window[i] \in SendEntry
      BY <1>1, <3>1 DEF SeqExState
    <3> QED
      BY <3>1, <3>2, ToPacketType
  <2> QED
    BY <2>1
<1> HIDE DEF v
<1> QED
  BY <1>1, <1>2, <1>3, <1>4, <1>5, SameBasics

\* A lost packet is missing from net, and nothing else is changed.
LEMMA LoseBasics ==
    ASSUME Basics, NEW p \in Peer, NEW m \in net[p], Lose(p, m)
    PROVE  Basics'
<1>1. Typed'
  BY BoundAssumption DEF Basics, Typed, Lose
<1>2. \A q \in Peer : Sound(q)'
  BY DEF Basics, Lose, Sound
<1> QED
  BY <1>1, <1>2 DEF Basics

----------------------------------------------------------------------------
(* The first layer: types, guards and locks.                               *)

\* Each step is a call of one peer, the loss of a packet, or nothing.
Call(p) ==
    \/ \E c \in SeqCstModes : Send(p, c)
    \/ \E m, is_next : Hands(p, m, is_next)
    \/ \E m : Saves(p, m)
    \/ \E m : AcksAgain(p, m)
    \/ \E m \in net[p] : ReceiveAck(p, m)
    \/ \E g, u, c : Answer(p, g, u, c)
    \/ \E g, u : GiveUp(p, g, u)
    \/ \E g \in guards[p] : UnlockGuard(p, g)
    \/ DropLockGuard(p)
    \/ Resend(p)
    \/ \E m \in net[p] : Lose(p, m)

LEMMA NextCalls ==
    ASSUME Basics, [Next]_vars
    PROVE  UNCHANGED vars \/ \E p \in Peer : Call(p)
<1>1. SUFFICES ASSUME NEW p \in Peer,
                      \/ \E c \in SeqCstModes : Send(p, c)
                      \/ ReceiveAny(p)
                      \/ PumpNext(p)
                      \/ \E g \in guards[p] :
                          \/ \E c \in SeqCstModes : Reply(p, g, c) \/ ReplyStayLocked(p, g, c)
                          \/ AckGuard(p, g) \/ DropGuard(p, g) \/ UnlockGuard(p, g)
                      \/ DropLockGuard(p)
                      \/ Resend(p)
                      \/ \E m \in net[p] : Lose(p, m)
               PROVE  UNCHANGED vars \/ Call(p)
  BY DEF Next
<1>2. ASSUME NEW m \in net[p], ReceiveData(p, m) PROVE UNCHANGED vars \/ Call(p)
  BY <1>2, ReceiveCases DEF Call
<1>3. CASE PumpNext(p)
  BY <1>3, PumpHands DEF Call
<1>4. ASSUME NEW g \in guards[p], NEW c \in SeqCstModes, Reply(p, g, c) \/ ReplyStayLocked(p, g, c)
      PROVE  Call(p)
  BY <1>4, AnswerCases DEF Call
<1>5. ASSUME NEW g \in guards[p], AckGuard(p, g) \/ DropGuard(p, g) PROVE Call(p)
  BY <1>5, GiveUpCases DEF Call
<1>6. ASSUME NEW m \in net[p], ReceiveAck(p, m) PROVE Call(p)
  BY <1>6 DEF Call
<1>7. ASSUME \/ \E c \in SeqCstModes : Send(p, c)
             \/ \E g \in guards[p] : UnlockGuard(p, g)
             \/ DropLockGuard(p) \/ Resend(p) \/ \E m \in net[p] : Lose(p, m)
      PROVE  Call(p)
  BY <1>7 DEF Call
<1> QED
  BY <1>1, <1>2, <1>3, <1>4, <1>5, <1>6, <1>7 DEF ReceiveAny

LEMMA CallBasics ==
    ASSUME Basics, NEW p \in Peer, Call(p)
    PROVE  Basics'
BY SendBasics, HandsBasics, SavesBasics, AcksAgainBasics, ReceiveAckBasics, AnswerBasics,
   GiveUpBasics, UnlockBasics, DropLockBasics, ResendBasics, LoseBasics DEF Call

LEMMA UnchangedBasics == Basics /\ UNCHANGED vars => Basics'
BY DEF vars, Basics, Typed, Sound

LEMMA InitBasics == Init => Basics
<1> SUFFICES ASSUME Init PROVE Basics
  OBVIOUS
<1>1. /\ NewSeqEx \in SeqExState
      /\ NewSeqEx.concurrent_replies = << >> /\ NewSeqEx.is_locked = FALSE
  BY NewSeqExType
<1>2. \A i \in 0 .. CAP - 1 : NewSeqEx.send_window[i] = None /\ NewSeqEx.recv_window[i] = Empty
  BY DEF NewSeqEx
<1>3. Timely(NewSeqEx)
  BY <1>1, <1>2, CapAssumption DEF Timely, Windows, SendSlots, RecvSlots, NotDueBefore
<1>4. Guarded(NewSeqEx, {}, 0, << >>)
  <2>1. \A r : WithNumber({}, r) = {} /\ Locking({}) = {}
    BY DEF WithNumber, Locking
  <2>2. \A r : Reservations(NewSeqEx, r) = 0
    <3>1. \A r : {i \in DOMAIN NewSeqEx.concurrent_replies :
                    NewSeqEx.concurrent_replies[i] = r} = {}
      BY <1>1
    <3> QED
      BY <3>1, FS_EmptySet DEF Reservations
  <2>3. << >> \in Seq(Delivered) /\ Len(<< >>) = 0
    OBVIOUS
  <2>4. Cardinality(Locking({})) + 0 = IF NewSeqEx.is_locked THEN 1 ELSE 0
    <3>1. Locking({}) = {} /\ ~NewSeqEx.is_locked
      BY <1>1, <2>1
    <3>2. Cardinality(Locking({})) = 0
      BY <3>1, FS_EmptySet
    <3>3. Cardinality(Locking({})) + 0 = 0
      BY <3>2
    <3> QED
      BY <3>1, <3>3, Zenon
  <2>5. \A r \in SeqNo : Cardinality(WithNumber({}, r)) = Reservations(NewSeqEx, r)
    BY <2>1, <2>2, FS_EmptySet
  <2> QED
    BY <1>1, <2>3, <2>4, <2>5, FS_EmptySet DEF Guarded
<1>5. ASSUME NEW p \in Peer PROVE Written(<< >>, MaxPayloads[p], MaxReplies[p])
  <2>1. PayloadsOf(<< >>) = {} /\ DOMAIN << >> \ PayloadsOf(<< >>) = {}
    BY DEF PayloadsOf
  <2>2. << >> \in Seq(Sent)
    OBVIOUS
  <2>3. MaxPayloads[p] \in Nat /\ MaxReplies[p] \in Nat
    BY BoundAssumption
  <2> QED
    BY <2>1, <2>2, <2>3, FS_EmptySet DEF Written
<1>6. Typed
  <2>1. << >> \in Seq(Delivered) /\ << >> \in Seq(Sent)
    OBVIOUS
  <2>2. 0 \in 0 .. MaxLosses
    BY BoundAssumption
  <2> QED
    BY <1>1, <2>1, <2>2 DEF Init, Typed
<1> QED
  BY <1>3, <1>4, <1>5, <1>6 DEF Init, Basics, Sound

\* The first layer holds in every state of the exchange.
LEMMA BasicsInvariance == Spec => []Basics
<1>1. Basics /\ [Next]_vars => Basics'
  BY NextCalls, CallBasics, UnchangedBasics
<1> QED
  BY <1>1, InitBasics, PTL DEF Spec

\* Every variable keeps its type, whatever the transport does: in particular the structs of
\* both peers, and every guard names a delivery.
THEOREM TypeCorrect == Spec => []TypeOK
<1>1. Basics => TypeOK
  <2>1. SUFFICES ASSUME Basics PROVE TypeOK
    OBVIOUS
  <2>2. ASSUME NEW p \in Peer, NEW g \in guards[p]
        PROVE  g \in [reply_no : SeqNo, is_holding_lock : BOOLEAN, ord : DOMAIN delivered[p]]
    <3>1. /\ g \in ReplyGuard /\ g.ord \in 1 .. Len(delivered[p])
          /\ DOMAIN delivered[p] = 1 .. Len(delivered[p])
      BY <2>1, BasicsFacts DEF Guarded
    <3> QED
      BY <3>1 DEF ReplyGuard
  <2> QED
    BY <2>1, <2>2 DEF Basics, Typed, TypeOK
<1> QED
  BY <1>1, BasicsInvariance, PTL

\* No reply and no ack of a guard is silently dropped: each guard has a reservation of its
\* own, whatever was received, repeated or lost.
THEOREM EveryGuardReserved == Spec => []GuardsReserved
<1>1. Basics => GuardsReserved
  <2>1. SUFFICES ASSUME Basics, NEW p \in Peer, NEW r \in SeqNo
                 PROVE  Cardinality({g \in guards[p] : g.reply_no = r}) = Reservations(seq[p], r)
    BY DEF GuardsReserved, Reservations
  <2>2. Guarded(seq[p], guards[p], lock_guards[p], delivered[p])
    BY <2>1, BasicsFacts
  <2>3. Cardinality(WithNumber(guards[p], r)) = Reservations(seq[p], r)
    BY <2>2 DEF Guarded
  <2> QED
    BY <2>3 DEF WithNumber
<1> QED
  BY <1>1, BasicsInvariance, PTL

\* At most one guard of a peer is in the SeqCst critical section, and is_locked says whether
\* one is: the lock is never taken twice nor released twice.
THEOREM OneInCriticalSection == Spec => []SeqCstExclusive
<1>1. Basics => SeqCstExclusive
  <2>1. SUFFICES ASSUME Basics, NEW p \in Peer
                 PROVE  Cardinality({g \in guards[p] : g.is_holding_lock}) + lock_guards[p]
                            = IF seq[p].is_locked THEN 1 ELSE 0
    BY DEF SeqCstExclusive
  <2>2. Guarded(seq[p], guards[p], lock_guards[p], delivered[p])
    BY <2>1, BasicsFacts
  <2>3. Cardinality(Locking(guards[p])) + lock_guards[p] = IF seq[p].is_locked THEN 1 ELSE 0
    BY <2>2 DEF Guarded
  <2> QED
    BY <2>3 DEF Locking
<1> QED
  BY <1>1, BasicsInvariance, PTL

\* A packet that passes the range check finds its own slot or an empty one, in the receive
\* windows of both peers and for whatever is on its way.
THEOREM SlotsNeverMixed == Spec => []OwnRecvSlot
<1>1. Basics => OwnRecvSlot
  <2>1. SUFFICES ASSUME Basics PROVE OwnRecvSlot
    OBVIOUS
  <2>2. ASSUME NEW p \in Peer, NEW n \in SeqNo, Normalized(seq[p], n) \in 0 .. CAP - 1,
               seq[p].recv_window[Idx(n)] # Empty
        PROVE  seq[p].recv_window[Idx(n)].seq_no = n
    BY <2>1, <2>2, BasicsFacts, OwnEntry
  <2>3. ASSUME NEW p \in Peer, NEW m \in net[p], m.type = "Data",
               ~IsBelowRange(seq[p], m.seq_no), ~IsAboveRange(seq[p], m.seq_no),
               IsDuplicate(seq[p], m.seq_no)
        PROVE  seq[p].recv_window[Idx(m.seq_no)].seq_no = m.seq_no
    <3>1. m.seq_no \in SeqNo /\ seq[p].next_recv_seq_no \in SeqNo
      BY <2>1, <2>3, BasicsFacts DEF Packet, DataPacket, AckPacket, SeqExState
    <3>2. Normalized(seq[p], m.seq_no) \in 0 .. CAP - 1
      <4>1. Normalized(seq[p], m.seq_no) \in SeqNo
        BY <3>1, WrapType, SeqNoAssumption DEF Normalized, SeqNo
      <4> QED
        BY <2>3, <4>1, CapAssumption, SeqNoAssumption DEF IsAboveRange, SeqNo
    <3>3. seq[p].recv_window[Idx(m.seq_no)] # Empty
      BY <2>3 DEF IsDuplicate, Empty
    <3> QED
      BY <2>2, <3>1, <3>2, <3>3
  <2>4. ASSUME NEW p \in Peer, NextEntry(seq[p]) # Empty
        PROVE  NextEntry(seq[p]).seq_no = seq[p].next_recv_seq_no
    <3>1. seq[p].next_recv_seq_no \in SeqNo
      BY <2>1, BasicsFacts DEF SeqExState
    <3>2. Normalized(seq[p], seq[p].next_recv_seq_no) \in 0 .. CAP - 1
      BY <3>1, NextNumber, CapAssumption DEF Normalized
    <3> QED
      BY <2>2, <2>4, <3>1, <3>2 DEF NextEntry
  <2> QED
    BY <2>3, <2>4 DEF OwnRecvSlot
<1> QED
  BY <1>1, BasicsInvariance, PTL
=============================================================================
