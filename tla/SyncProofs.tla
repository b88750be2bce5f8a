----------------------------- MODULE SyncProofs -----------------------------
(***************************************************************************)
(* Proofs about Sync, for any number of threads, any packets of the remote *)
(* peer and every window size: the condition variables are counted right,  *)
(* every reservation and the SeqCst lock have exactly one owner, and no    *)
(* sender waits for a guard that nobody holds.                             *)
(***************************************************************************)
EXTENDS Sync, SeqExProofs

----------------------------------------------------------------------------
(* Bags of guards.                                                         *)

\* How many copies there are.
LEMMA CopiesType ==
    ASSUME NEW B, IsABag(B), NEW e
    PROVE  Copies(e, B) \in Nat /\ (BagIn(e, B) <=> Copies(e, B) > 0)
BY DEF IsABag, Copies, BagIn, BagToSet

\* One more guard ...
LEMMA BagAddOne ==
    ASSUME NEW B, IsABag(B), NEW g
    PROVE  LET C == B (+) SetToBag({g})
           IN  /\ IsABag(C) /\ BagToSet(C) = BagToSet(B) \cup {g}
               /\ \A e : Copies(e, C) = Copies(e, B) + (IF e = g THEN 1 ELSE 0)
BY DEF IsABag, Copies, BagIn, BagToSet, SetToBag, (+)

\* ... none ...
LEMMA BagAddNone ==
    ASSUME NEW B, IsABag(B)
    PROVE  LET C == B (+) EmptyBag
           IN  /\ IsABag(C) /\ BagToSet(C) = BagToSet(B)
               /\ \A e : Copies(e, C) = Copies(e, B)
BY DEF IsABag, Copies, BagIn, BagToSet, SetToBag, EmptyBag, (+)

\* ... and one less.
LEMMA BagTakeOne ==
    ASSUME NEW B, IsABag(B), NEW g, BagIn(g, B)
    PROVE  LET C == B (-) SetToBag({g})
           IN  /\ IsABag(C) /\ BagToSet(C) \subseteq BagToSet(B)
               /\ \A e : Copies(e, C) = Copies(e, B) - (IF e = g THEN 1 ELSE 0)
BY DEF IsABag, Copies, BagIn, BagToSet, SetToBag, (-)

\* A call that returns no guard, or one.
LEMMA ReturningFacts ==
    /\ IsABag(EmptyBag) /\ BagToSet(EmptyBag) = {} /\ \A e : ~BagIn(e, EmptyBag)
    /\ \A g : /\ IsABag(SetToBag({g})) /\ BagToSet(SetToBag({g})) = {g}
              /\ \A e : BagIn(e, SetToBag({g})) <=> e = g
BY DEF IsABag, BagIn, BagToSet, SetToBag, EmptyBag

----------------------------------------------------------------------------
(* The places of the threads.                                              *)

\* Where the threads are that recv_waiters counts, and those that wait in pump.
OnRecv == {"wait_on_recv", "woken_on_recv"}
InPump == {"wait_to_pump", "woken_to_pump"}

\* One thread goes somewhere else.
LEMMA AtMoves ==
    ASSUME NEW t \in Thread, NEW p, pc \in [Thread -> Place], Goto(t, p), NEW S
    PROVE  /\ Cardinality(At(S)) \in Nat
           /\ Cardinality(At(S))' = (Cardinality(At(S)) - (IF pc[t] \in S THEN 1 ELSE 0))
                                        + (IF p \in S THEN 1 ELSE 0)
<1> DEFINE rest == {u \in Thread \ {t} : pc[u] \in S}
<1>1. rest \in SUBSET Thread /\ t \notin rest
  OBVIOUS
<1>2. IsFiniteSet(rest) /\ Cardinality(rest) \in Nat
  BY <1>1, ThreadAssumption, FS_Subset, FS_CardinalityType
<1>3. At(S) = IF pc[t] \in S THEN rest \cup {t} ELSE rest
  BY DEF At
<1>4. At(S)' = IF p \in S THEN rest \cup {t} ELSE rest
  BY DEF At, Goto
<1> HIDE DEF rest
<1>5. Cardinality(rest \cup {t}) = Cardinality(rest) + 1
  BY <1>1, <1>2, FS_AddElement
<1> QED
  BY <1>2, <1>3, <1>4, <1>5

\* A thread that is there is counted.
LEMMA AtCounted ==
    ASSUME NEW S
    PROVE  /\ Cardinality(At(S)) \in Nat
           /\ \A t \in Thread : pc[t] \in S => Cardinality(At(S)) >= 1
<1>1. At(S) \in SUBSET Thread
  BY DEF At
<1>2. IsFiniteSet(At(S))
  BY <1>1, ThreadAssumption, FS_Subset
<1>3. Cardinality(At(S)) \in Nat /\ (Cardinality(At(S)) = 0 <=> At(S) = {})
  BY <1>2, FS_CardinalityType, FS_EmptySet
<1> QED
  BY <1>3 DEF At

----------------------------------------------------------------------------
(***************************************************************************)
(* The inductive invariant.  Only a call that is about to notify_recv has  *)
(* a guard to return.  For every reply number the guards, held or about to *)
(* be returned, are as many as the reservations, and the lock has one      *)
(* holder.  ReplyWakeUpDue rests on that: a sender is told to wait for a   *)
(* reply only if a number is reserved, so somebody has a guard.  With      *)
(* CAP = 2 is_full_inner always says so, and nobody may ever come.         *)
(***************************************************************************)
ReturnsLast == \A t \in Thread : returning[t] # EmptyBag => pc[t] = "notify_recv"

ReservationsOwned == \A r \in SeqNo :
    Owners(r, TRUE) + Owners(r, FALSE) = Reservations(seq, r)

OneHolder ==
    \/ /\ ~seq.is_locked /\ lock_guards = 0
       /\ \A r \in SeqNo : Owners(r, TRUE) = 0
    \/ /\ seq.is_locked /\ lock_guards = 1
       /\ \A r \in SeqNo : Owners(r, TRUE) = 0
    \/ /\ seq.is_locked /\ lock_guards = 0
       /\ \E q \in SeqNo : /\ Owners(q, TRUE) = 1
                           /\ \A r \in SeqNo \ {q} : Owners(r, TRUE) = 0

Owned == ReservationsOwned /\ OneHolder

IInv ==
    /\ TypeOK
    /\ RecvWaitersCounted
    /\ OnePumpWaiter
    /\ ReturnsLast
    /\ ~closed => Owned
    /\ CAP > 2 => ReplyWakeUpDue

----------------------------------------------------------------------------
(* Who owns the reply numbers.                                             *)

\* The calls that are about to return guard g.
Returns(g) == {t \in Thread : BagIn(g, returning[t])}

LEMMA OwnersType ==
    ASSUME TypeOK, NEW r \in SeqNo, NEW b \in BOOLEAN
    PROVE  /\ Owners(r, b) \in Nat
           /\ Owners(r, b) > 0 =>
                BagIn(Guard(r, b), guards) \/ \E t \in Thread : BagIn(Guard(r, b), returning[t])
           /\ BagIn(Guard(r, b), guards) => Owners(r, b) > 0
<1> DEFINE g == Guard(r, b)
<1>1. Copies(g, guards) \in Nat /\ (BagIn(g, guards) <=> Copies(g, guards) > 0)
  BY CopiesType DEF TypeOK
<1>2. Returns(g) \in SUBSET Thread
  BY DEF Returns
<1>3. IsFiniteSet(Returns(g))
  BY <1>2, ThreadAssumption, FS_Subset
<1>4. Cardinality(Returns(g)) \in Nat /\ (Cardinality(Returns(g)) = 0 <=> Returns(g) = {})
  BY <1>3, FS_CardinalityType, FS_EmptySet
<1>5. Owners(r, b) = Copies(g, guards) + Cardinality(Returns(g))
  BY DEF Owners, Returns
<1>6. Returns(g) # {} => \E t \in Thread : BagIn(g, returning[t])
  BY DEF Returns
<1> HIDE DEF g
<1>7. /\ Owners(r, b) \in Nat
      /\ Owners(r, b) > 0 => BagIn(g, guards) \/ \E t \in Thread : BagIn(g, returning[t])
      /\ BagIn(g, guards) => Owners(r, b) > 0
  BY <1>1, <1>4, <1>5, <1>6
<1> QED
  BY <1>7 DEF g

\* A call that returns guard g has a new owner for its number ...
LEMMA OwnersReturned ==
    ASSUME TypeOK, NEW t \in Thread, returning[t] = EmptyBag, NEW g, NotifyRecv(t, SetToBag({g})),
           NEW r \in SeqNo, NEW b \in BOOLEAN
    PROVE  Owners(r, b)' = Owners(r, b) + (IF Guard(r, b) = g THEN 1 ELSE 0)
<1> DEFINE h == Guard(r, b)
<1>1. IsABag(guards) /\ DOMAIN returning = Thread
  BY DEF TypeOK
<1>2. Copies(h, guards) \in Nat
  BY <1>1, CopiesType
<1>3. Returns(h) \in SUBSET Thread /\ t \notin Returns(h)
  BY ReturningFacts DEF Returns
<1>4. IsFiniteSet(Returns(h)) /\ Cardinality(Returns(h)) \in Nat
  BY <1>3, ThreadAssumption, FS_Subset, FS_CardinalityType
<1>5. /\ Owners(r, b) = Copies(h, guards) + Cardinality(Returns(h))
      /\ Owners(r, b)' = Copies(h, guards') + Cardinality(Returns(h)')
  BY DEF Owners, Returns, Copies
<1> HIDE DEF h
<1>6. CASE recv_waiters > 0
  <2>1. guards' = guards /\ returning' = [returning EXCEPT ![t] = SetToBag({g})]
    BY <1>6 DEF NotifyRecv
  <2>2. Returns(h)' = IF h = g THEN Returns(h) \cup {t} ELSE Returns(h)
    <3>1. BagIn(h, SetToBag({g})) <=> h = g
      BY ReturningFacts
    <3>2. \A u \in Thread : returning'[u] = IF u = t THEN SetToBag({g}) ELSE returning[u]
      BY <1>1, <2>1
    <3>3. \A u \in Thread : u \in Returns(h)' <=> IF u = t THEN h = g ELSE u \in Returns(h)
      BY <3>1, <3>2 DEF Returns
    <3>4. Returns(h)' \subseteq Thread
      BY DEF Returns
    <3> QED
      BY <1>3, <3>3, <3>4
  <2>3. Cardinality(Returns(h)') = IF h = g THEN Cardinality(Returns(h)) + 1
                                  ELSE Cardinality(Returns(h))
    BY <1>3, <1>4, <2>2, FS_AddElement
  <2> QED
    BY <1>2, <1>4, <1>5, <2>1, <2>3 DEF h
<1>7. CASE ~(recv_waiters > 0)
  <2>1. guards' = guards (+) SetToBag({g}) /\ returning' = returning
    BY <1>7 DEF NotifyRecv
  <2>2. Copies(h, guards') = Copies(h, guards) + (IF h = g THEN 1 ELSE 0)
    BY <1>1, <2>1, BagAddOne
  <2>3. Returns(h)' = Returns(h)
    BY <2>1 DEF Returns
  <2> QED
    BY <1>2, <1>4, <1>5, <2>2, <2>3 DEF h
<1> QED
  BY <1>6, <1>7

\* ... and one that returns none changes nothing.
LEMMA OwnersNotReturned ==
    ASSUME TypeOK, NEW t \in Thread, returning[t] = EmptyBag, NotifyRecv(t, EmptyBag),
           NEW r \in SeqNo, NEW b \in BOOLEAN
    PROVE  Owners(r, b)' = Owners(r, b)
<1> DEFINE h == Guard(r, b)
<1>1. IsABag(guards) /\ returning' = returning
  BY DEF TypeOK, NotifyRecv
<1>2. Copies(h, guards') = Copies(h, guards)
  BY <1>1, BagAddNone DEF NotifyRecv
<1> QED
  BY <1>1, <1>2 DEF Owners

\* What notify_recv has waited for: the application gets the guard.
LEMMA OwnersNotified ==
    ASSUME TypeOK, NEW t \in Thread, NotifyOne(t), NEW r \in SeqNo, NEW b \in BOOLEAN
    PROVE  Owners(r, b)' = Owners(r, b)
<1> DEFINE h == Guard(r, b)
           C == {u \in Thread \ {t} : BagIn(h, returning[u])}
<1>1. /\ IsABag(guards) /\ DOMAIN returning = Thread
      /\ guards' = guards (+) returning[t]
      /\ returning' = [returning EXCEPT ![t] = EmptyBag]
  BY DEF TypeOK, NotifyOne
<1>2. Copies(h, guards) \in Nat
  BY <1>1, CopiesType
<1>3. C \in SUBSET Thread /\ t \notin C
  OBVIOUS
<1>4. IsFiniteSet(C) /\ Cardinality(C) \in Nat
  BY <1>3, ThreadAssumption, FS_Subset, FS_CardinalityType
<1>5. /\ Owners(r, b) = Copies(h, guards) + Cardinality(Returns(h))
      /\ Owners(r, b)' = Copies(h, guards') + Cardinality(Returns(h)')
  BY DEF Owners, Returns, Copies
<1>6. Returns(h)' = C
  BY <1>1, ReturningFacts DEF Returns
<1>7. CASE returning[t] = EmptyBag
  <2>1. Returns(h) = C
    BY <1>7, ReturningFacts DEF Returns
  <2>2. Copies(h, guards') = Copies(h, guards)
    BY <1>1, <1>7, BagAddNone
  <2> QED
    BY <1>5, <1>6, <2>1, <2>2
<1>8. CASE \E g \in ReplyGuard : returning[t] = SetToBag({g})
  <2>1. PICK g \in ReplyGuard : returning[t] = SetToBag({g})
    BY <1>8
  <2>2. Returns(h) = IF h = g THEN C \cup {t} ELSE C
    <3>1. BagIn(h, returning[t]) <=> h = g
      BY <2>1, ReturningFacts
    <3> QED
      BY <3>1 DEF Returns
  <2> HIDE DEF h, C
  <2>3. Copies(h, guards') = Copies(h, guards) + (IF h = g THEN 1 ELSE 0)
    <3>1. IsABag(guards) /\ guards' = guards (+) SetToBag({g})
      BY <1>1, <2>1
    <3> QED
      BY <3>1, BagAddOne
  <2>4. Cardinality(C \cup {t}) = Cardinality(C) + 1
    BY <1>3, <1>4, FS_AddElement
  <2> QED
    BY <1>2, <1>4, <1>5, <1>6, <2>2, <2>3, <2>4
<1> QED
  BY <1>7, <1>8 DEF TypeOK

\* The application consumes a guard.
LEMMA OwnersConsumed ==
    ASSUME TypeOK, NEW g, BagIn(g, guards), guards' = guards (-) SetToBag({g}),
           UNCHANGED returning, NEW r \in SeqNo, NEW b \in BOOLEAN
    PROVE  Owners(r, b)' = Owners(r, b) - (IF Guard(r, b) = g THEN 1 ELSE 0)
<1> DEFINE h == Guard(r, b)
<1>1. Copies(h, guards') = Copies(h, guards) - (IF h = g THEN 1 ELSE 0)
  BY BagTakeOne DEF TypeOK
<1>2. Copies(h, guards) \in Nat
  BY CopiesType DEF TypeOK
<1>3. Returns(h) \in SUBSET Thread
  BY DEF Returns
<1>4. Cardinality(Returns(h)) \in Nat
  BY <1>3, ThreadAssumption, FS_Subset, FS_CardinalityType
<1>5. /\ Owners(r, b) = Copies(h, guards) + Cardinality(Returns(h))
      /\ Owners(r, b)' = Copies(h, guards') + Cardinality(Returns(h))
  BY DEF Owners, Returns, Copies
<1> HIDE DEF h
<1>6. Owners(r, b)' = Owners(r, b) - (IF h = g THEN 1 ELSE 0)
  BY <1>1, <1>2, <1>4, <1>5
<1> QED
  BY <1>6 DEF h

OneIf(h, g) == IF h = g THEN 1 ELSE 0

\* ReplyGuard::unlock: the guard stays, without the lock.
LEMMA OwnersUnlocked ==
    ASSUME TypeOK, NEW g, BagIn(g, guards), NEW k,
           guards' = (guards (-) SetToBag({g})) (+) SetToBag({k}),
           UNCHANGED returning, NEW r \in SeqNo, NEW b \in BOOLEAN
    PROVE  Owners(r, b)' = (Owners(r, b) - OneIf(Guard(r, b), g)) + OneIf(Guard(r, b), k)
<1> DEFINE h == Guard(r, b)
           rest == guards (-) SetToBag({g})
<1>1. IsABag(rest) /\ Copies(h, rest) = Copies(h, guards) - (IF h = g THEN 1 ELSE 0)
  BY BagTakeOne DEF TypeOK
<1>2. Copies(h, guards') = Copies(h, rest) + (IF h = k THEN 1 ELSE 0)
  BY <1>1, BagAddOne
<1>3. Copies(h, guards) \in Nat
  BY CopiesType DEF TypeOK
<1>4. Returns(h) \in SUBSET Thread
  BY DEF Returns
<1>5. Cardinality(Returns(h)) \in Nat
  BY <1>4, ThreadAssumption, FS_Subset, FS_CardinalityType
<1>6. /\ Owners(r, b) = Copies(h, guards) + Cardinality(Returns(h))
      /\ Owners(r, b)' = Copies(h, guards') + Cardinality(Returns(h))
  BY DEF Owners, Returns, Copies
<1> HIDE DEF h, rest
<1>7. Owners(r, b)' = (Owners(r, b) - OneIf(h, g)) + OneIf(h, k)
  BY <1>1, <1>2, <1>3, <1>5, <1>6 DEF OneIf
<1> QED
  BY <1>7 DEF h

----------------------------------------------------------------------------
(* The kinds of steps that a thread takes, and that there is no other.     *)

\* send!, at its beginning or after a wait.
Sends(t) ==
    /\ pc[t] \in {"idle", "woken_on_recv", "woken_on_reply"} /\ ~closed
    /\ TrySendOrWait(t, Waiters(t))
    /\ UNCHANGED <<returning, held, gave_up>>

\* A call hands a packet to the application.
Delivers(t, n, c) ==
    /\ pc[t] \in {"idle", "pump", "woken_to_pump"}
    /\ seq' \in SeqExState /\ Issues(seq, seq', n, c) /\ (c => ~seq.is_locked)
    /\ NotifyRecv(t, SetToBag({Guard(n, c)}))
    /\ reply_receiver_waiters' = (reply_receiver_waiters /\ pc[t] # "woken_to_pump")
    /\ UNCHANGED <<recv_waiters, reply_sender_waiters, closed, lock_guards, gave_up>>

\* It has no guard to return.
ReturnsNone(t) ==
    /\ pc[t] = "idle"
    /\ seq' \in SeqExState /\ SameReplies(seq, seq')
    /\ NotifyRecv(t, EmptyBag)
    /\ closed' \in {closed, TRUE}
    /\ UNCHANGED <<recv_waiters, reply_sender_waiters, reply_receiver_waiters, lock_guards,
                   gave_up>>

\* There is nothing to hand over: the thread goes on to p.
Receives(t, p) ==
    /\ pc[t] \in {"idle", "pump", "woken_to_pump"} /\ p \in {"idle", "pump", "wait_to_pump"}
    /\ seq' \in SeqExState /\ SameReplies(seq, seq')
    /\ Goto(t, p)
    /\ IF p = "wait_to_pump"
       THEN reply_receiver_waiters' = TRUE /\ (reply_receiver_waiters => pc[t] = "woken_to_pump")
       ELSE reply_receiver_waiters' = (reply_receiver_waiters /\ pc[t] # "woken_to_pump")
    /\ UNCHANGED <<recv_waiters, reply_sender_waiters, closed, returning, held, gave_up>>

\* A guard is consumed.  Its owner gives the lock back, or keeps it as a SeqCstGuard.
Consumes(t, g, unlock) ==
    /\ pc[t] = "idle" /\ g \in ReplyGuard /\ BagIn(g, guards)
    /\ guards' = guards (-) SetToBag({g})
    /\ seq' \in SeqExState
    /\ ~closed /\ Reserved(seq, g.reply_no) =>
        /\ seq'.concurrent_replies = RemoveReservation(seq, g.reply_no).concurrent_replies
        /\ seq'.is_locked = (seq.is_locked /\ ~unlock)
    /\ \/ unlock = g.is_holding_lock /\ NotifyReply(t) /\ UNCHANGED lock_guards
       \/ /\ g.is_holding_lock /\ ~unlock
          /\ lock_guards' = lock_guards + 1 /\ UNCHANGED <<pc, reply_sender_waiters>>
    /\ UNCHANGED <<recv_waiters, reply_receiver_waiters, closed, returning, gave_up>>

\* The guards in the application's hands.
LEMMA GuardFacts ==
    /\ \A r \in SeqNo, b \in BOOLEAN : Guard(r, b) \in ReplyGuard
    /\ \A g \in ReplyGuard : g = Guard(g.reply_no, g.is_holding_lock)
    /\ \A g \in ReplyGuard : g.reply_no \in SeqNo /\ g.is_holding_lock \in BOOLEAN
    /\ \A r, s \in SeqNo, b, c \in BOOLEAN : Guard(r, b) = Guard(s, c) <=> r = s /\ b = c
BY DEF Guard, ReplyGuard

LEMMA GuardEqual ==
    ASSUME NEW r \in SeqNo, NEW n \in SeqNo, NEW b \in BOOLEAN, NEW c \in BOOLEAN
    PROVE  Guard(r, b) = Guard(n, c) <=> r = n /\ b = c
BY DEF Guard

\* try_receive and receive.
LEMMA ReceiveDataKind ==
    ASSUME TypeOK, NEW t \in Thread, NEW m \in Remote, NEW blocking \in BOOLEAN,
           ReceiveData(t, m, blocking)
    PROVE  (\E n \in SeqNo, c \in BOOLEAN : Delivers(t, n, c)) \/ \E p \in Place : Receives(t, p)
<1>1. m \in DataPacket /\ seq \in SeqExState
  BY RemoteAssumption DEF TypeOK
<1>2. m.seq_no \in SeqNo /\ m.seq_cst \in BOOLEAN
  BY <1>1 DEF DataPacket
<1>3. pc[t] = "idle" /\ seq' = Receive(seq, m) /\ reply_receiver_waiters \in BOOLEAN
  BY DEF ReceiveData, TypeOK
<1>4. CASE ReceiveOutcome(seq, m) = "Deliver"
  <2>1. seq' \in SeqExState /\ Issues(seq, seq', m.seq_no, m.seq_cst) /\ (m.seq_cst => ~seq.is_locked)
    BY <1>1, <1>3, <1>4, ReceiveType
  <2>2. Delivers(t, m.seq_no, m.seq_cst)
    BY <1>3, <1>4, <2>1 DEF ReceiveData, Delivers, NewGuard
  <2> QED
    BY <1>2, <2>2
<1>5. CASE ReceiveOutcome(seq, m) # "Deliver"
  <2>1. seq' \in SeqExState /\ SameReplies(seq, seq')
    BY <1>1, <1>3, <1>5, ReceiveType
  <2>2. \E p \in {"idle", "pump"} : Receives(t, p)
    BY <1>3, <1>5, <2>1 DEF ReceiveData, Receives, held
  <2> QED
    BY <2>2 DEF Place
<1> QED
  BY <1>4, <1>5

\* pump and try_pump.
LEMMA PumpKind ==
    ASSUME TypeOK, NEW t \in Thread, CallPump(t) \/ RetryPump(t) \/ TryPump(t)
    PROVE  (\E n \in SeqNo, c \in BOOLEAN : Delivers(t, n, c)) \/ \E p \in Place : Receives(t, p)
<1> DEFINE e == NextEntry(seq)
<1>1. seq \in SeqExState /\ reply_receiver_waiters \in BOOLEAN
  BY DEF TypeOK
<1>2. ASSUME PumpOutcome(seq) = "Deliver", seq' = Pump(seq),
             pc[t] \in {"idle", "pump", "woken_to_pump"},
             NotifyRecv(t, NewGuard(e)),
             reply_receiver_waiters' = (reply_receiver_waiters /\ pc[t] # "woken_to_pump"),
             UNCHANGED <<recv_waiters, reply_sender_waiters, closed, lock_guards, gave_up>>
      PROVE  \E n \in SeqNo, c \in BOOLEAN : Delivers(t, n, c)
  <2>1. e \in OccupiedEntry /\ (e.seq_cst => ~seq.is_locked)
    BY <1>1, <1>2, PumpEntry
  <2>2. e.seq_no \in SeqNo /\ e.seq_cst \in BOOLEAN
    BY <2>1 DEF OccupiedEntry
  <2>3. seq' \in SeqExState /\ Issues(seq, seq', e.seq_no, e.seq_cst)
    BY <1>1, <1>2, PumpType
  <2>4. Delivers(t, e.seq_no, e.seq_cst)
    BY <1>2, <2>1, <2>3 DEF Delivers, NewGuard
  <2> QED
    BY <2>2, <2>4
<1>3. ASSUME TryPumpOrWait(t), pc[t] \in {"idle", "pump", "woken_to_pump"},
             reply_receiver_waiters => pc[t] = "woken_to_pump"
      PROVE  (\E n \in SeqNo, c \in BOOLEAN : Delivers(t, n, c)) \/ \E p \in Place : Receives(t, p)
  <2>1. CASE PumpOutcome(seq) = "Deliver"
    BY <1>1, <1>2, <1>3, <2>1 DEF TryPumpOrWait
  <2>2. CASE PumpOutcome(seq) # "Deliver"
    <3>1. seq' \in SeqExState /\ SameReplies(seq, seq')
      BY <1>1, <1>3, <2>2, PumpType DEF TryPumpOrWait
    <3>2. \E p \in {"idle", "wait_to_pump"} : Receives(t, p)
      BY <1>1, <1>3, <2>2, <3>1 DEF TryPumpOrWait, Receives, held
    <3> QED
      BY <3>2 DEF Place, Waiting
  <2> QED
    BY <2>1, <2>2
<1>4. CASE CallPump(t)
  <2>1. CASE ~reply_receiver_waiters
    BY <1>3, <1>4, <2>1 DEF CallPump
  <2>2. CASE reply_receiver_waiters
    <3>1. Receives(t, "idle")
      BY <1>1, <1>4, <2>2 DEF CallPump, Receives, SameReplies, inner
    <3> QED
      BY <3>1 DEF Place
  <2> QED
    BY <2>1, <2>2
<1>5. CASE RetryPump(t)
  BY <1>3, <1>5 DEF RetryPump
<1>6. CASE TryPump(t)
  BY <1>1, <1>2, <1>6 DEF TryPump
<1> QED
  BY <1>4, <1>5, <1>6

\* Consume, and what becomes of the lock.
LEMMA ConsumeKind ==
    ASSUME TypeOK, NEW t \in Thread, NEW g \in BagToSet(guards), NEW after \in SeqExState,
           NEW unlock \in BOOLEAN, Consume(t, g, after),
           Reserved(seq, g.reply_no) =>
                /\ after.concurrent_replies = RemoveReservation(seq, g.reply_no).concurrent_replies
                /\ after.is_locked = (seq.is_locked /\ ~unlock),
           \/ unlock = g.is_holding_lock /\ NotifyReply(t) /\ UNCHANGED lock_guards
           \/ unlock = FALSE /\ ConsumeLock(t, g)
    PROVE  Consumes(t, g, unlock)
<1>1. g \in ReplyGuard /\ g.is_holding_lock \in BOOLEAN /\ seq \in SeqExState
  BY GuardFacts DEF TypeOK
<1> QED
  BY <1>1 DEF Consume, ConsumeLock, Consumes

\* The guard is acked or dropped ...
LEMMA AckKind ==
    ASSUME TypeOK, NEW t \in Thread, NEW g \in BagToSet(guards), AckGuard(t, g) \/ DropGuard(t, g)
    PROVE  \E unlock \in BOOLEAN : Consumes(t, g, unlock)
<1> DEFINE r == g.reply_no
           b == g.is_holding_lock
<1>1. r \in SeqNo /\ b \in BOOLEAN /\ seq \in SeqExState
  BY GuardFacts DEF TypeOK
<1>2. ASSUME NEW unlock \in BOOLEAN
      PROVE  /\ AckRaw(seq, r, unlock) \in SeqExState
             /\ Reserved(seq, r) =>
                  /\ AckRaw(seq, r, unlock).concurrent_replies
                        = RemoveReservation(seq, r).concurrent_replies
                  /\ AckRaw(seq, r, unlock).is_locked = (seq.is_locked /\ ~unlock)
  BY <1>1, AckRawType DEF AckRaw
<1>3. CASE AckGuard(t, g)
  <2>1. Consumes(t, g, FALSE)
    BY <1>1, <1>2, <1>3, ConsumeKind DEF AckGuard
  <2> QED
    BY <2>1
<1>4. CASE DropGuard(t, g)
  <2>1. Consumes(t, g, b)
    BY <1>1, <1>2, <1>4, ConsumeKind DEF DropGuard
  <2> QED
    BY <1>1, <2>1
<1> QED
  BY <1>3, <1>4

\* ... or replied to.
LEMMA ReplyKind ==
    ASSUME TypeOK, NEW t \in Thread, NEW g \in BagToSet(guards), NEW c \in BOOLEAN, NEW d \in Data,
           Reply(t, g, c, d) \/ ReplyStayLocked(t, g, c, d)
    PROVE  \E unlock \in BOOLEAN : Consumes(t, g, unlock)
<1> DEFINE r == g.reply_no
           b == g.is_holding_lock
           after(unlock) == ReplyRaw(seq, 0, r, unlock, c, d)
<1>1. r \in SeqNo /\ b \in BOOLEAN /\ seq \in SeqExState
  BY GuardFacts DEF TypeOK
<1>2. ASSUME NEW unlock \in BOOLEAN
      PROVE  /\ after(unlock) \in SeqExState
             /\ Reserved(seq, r) =>
                  /\ after(unlock).concurrent_replies
                        = RemoveReservation(seq, r).concurrent_replies
                  /\ after(unlock).is_locked = (seq.is_locked /\ ~unlock)
  BY <1>1, ReplyRawType DEF ReplyRaw
<1>3. CASE ReplyStayLocked(t, g, c, d)
  <2>1. Consumes(t, g, FALSE)
    BY <1>1, <1>2, <1>3, ConsumeKind DEF ReplyStayLocked
  <2> QED
    BY <2>1
<1>4. CASE Reply(t, g, c, d)
  <2>1. Consumes(t, g, b)
    BY <1>1, <1>2, <1>4, ConsumeKind DEF Reply
  <2> QED
    BY <1>1, <2>1
<1> QED
  BY <1>3, <1>4

\* Whatever a thread does, inside a call or as the application, is one of these.
LEMMA StepKinds ==
    ASSUME TypeOK, Next
    PROVE  \E t \in Thread :
            \/ Wake(t) \/ NotifyOne(t) \/ NotifyAll(t)
            \/ Sends(t)
            \/ \E expired \in BOOLEAN : Fail(t, expired)
            \/ \E n \in SeqNo, c \in BOOLEAN : Delivers(t, n, c)
            \/ ReturnsNone(t)
            \/ \E p \in Place : Receives(t, p)
            \/ \E g \in ReplyGuard, unlock \in BOOLEAN : Consumes(t, g, unlock)
            \/ \E g \in ReplyGuard : UnlockGuard(t, g)
            \/ DropLockGuard(t)
<1>1. /\ Senders \subseteq Thread /\ Receivers \subseteq Thread /\ Handlers \subseteq Thread
      /\ SeqCstModes \subseteq BOOLEAN
      /\ seq \in SeqExState /\ reply_receiver_waiters \in BOOLEAN /\ closed \in BOOLEAN
      /\ BagToSet(guards) \subseteq ReplyGuard
  BY RemoteAssumption DEF Thread, TypeOK
<1>2. ASSUME NEW t \in Thread, Send(t) \/ Retry(t) PROVE Sends(t)
  BY <1>2 DEF Send, Retry, Sends, Waiters
<1>3. ASSUME NEW t \in Thread, NEW r \in SeqNo, ReceiveAck(t, r) PROVE ReturnsNone(t)
  <2>1. seq' \in SeqExState /\ SameReplies(seq, seq')
    BY <1>1, <1>3, TakeSendType DEF ReceiveAck
  <2> QED
    BY <1>1, <1>3, <2>1 DEF ReceiveAck, ReturnsNone
<1>4. ASSUME NEW t \in Thread, Close(t) PROVE ReturnsNone(t)
  BY <1>1, <1>4 DEF Close, ReturnsNone, SameReplies
<1>5. ASSUME NEW t \in Thread, ServiceCall(t) PROVE \E p \in Place : Receives(t, p)
  <2>1. seq' \in SeqExState /\ SameReplies(seq, seq')
    BY <1>1, <1>5, ServiceType DEF ServiceCall
  <2>2. Goto(t, "idle")
    BY <1>5 DEF ServiceCall, Goto, TypeOK
  <2>3. Receives(t, "idle")
    BY <1>1, <1>5, <2>1, <2>2 DEF ServiceCall, Receives
  <2> QED
    BY <2>3 DEF Place
<1>6. CASE SendCalls
  BY <1>1, <1>2, <1>6 DEF SendCalls
<1>7. CASE ReceiveCalls
  BY <1>1, <1>3, <1>7, ReceiveDataKind, PumpKind DEF ReceiveCalls
<1>8. CASE HandlerCalls
  <2>1. PICK t \in Handlers :
          \/ \E g \in BagToSet(guards) :
              \/ \E c \in SeqCstModes, d \in Data : Reply(t, g, c, d) \/ ReplyStayLocked(t, g, c, d)
              \/ AckGuard(t, g) \/ DropGuard(t, g) \/ UnlockGuard(t, g)
          \/ DropLockGuard(t)
          \/ ServiceCall(t)
          \/ Close(t)
    BY <1>8 DEF HandlerCalls
  <2>2. ASSUME NEW g \in BagToSet(guards), AckGuard(t, g) \/ DropGuard(t, g)
        PROVE  \E h \in ReplyGuard, unlock \in BOOLEAN : Consumes(t, h, unlock)
    BY <1>1, <2>2, AckKind
  <2>3. ASSUME NEW g \in BagToSet(guards), NEW c \in SeqCstModes, NEW d \in Data,
               Reply(t, g, c, d) \/ ReplyStayLocked(t, g, c, d)
        PROVE  \E h \in ReplyGuard, unlock \in BOOLEAN : Consumes(t, h, unlock)
    BY <1>1, <2>3, ReplyKind
  <2> QED
    BY <1>1, <1>4, <1>5, <2>1, <2>2, <2>3
<1>9. ASSUME NEW t \in Thread, Step(t) \/ Wake(t)
      PROVE  \/ Wake(t) \/ NotifyOne(t) \/ NotifyAll(t) \/ Sends(t)
             \/ \E expired \in BOOLEAN : Fail(t, expired)
             \/ \E n \in SeqNo, c \in BOOLEAN : Delivers(t, n, c)
             \/ \E p \in Place : Receives(t, p)
  BY <1>2, <1>9, PumpKind DEF Step
<1> QED
  BY <1>6, <1>7, <1>8, <1>9 DEF Next

----------------------------------------------------------------------------
(* What the steps leave of the counts and of the owners.                   *)

\* One thread moves: the counts follow it, if recv_waiters and reply_receiver_waiters do.
LEMMA CountsMove ==
    ASSUME TypeOK, RecvWaitersCounted, OnePumpWaiter, ReturnsLast,
           NEW t \in Thread, NEW p \in Place, Goto(t, p),
           recv_waiters' = (recv_waiters - (IF pc[t] \in OnRecv THEN 1 ELSE 0))
                                + (IF p \in OnRecv THEN 1 ELSE 0),
           reply_receiver_waiters' = (p \in InPump \/ (reply_receiver_waiters /\ pc[t] \notin InPump)),
           p \in InPump => (reply_receiver_waiters <=> pc[t] \in InPump),
           pc[t] # "notify_recv", returning' = returning \/ p = "notify_recv",
           \A u \in Thread \ {t} : returning'[u] = returning[u]
    PROVE  RecvWaitersCounted' /\ OnePumpWaiter' /\ ReturnsLast' /\ recv_waiters' \in Nat
<1>1. pc \in [Thread -> Place] /\ recv_waiters \in Nat /\ reply_receiver_waiters \in BOOLEAN
  BY DEF TypeOK
<1>2. recv_waiters = Cardinality(At(OnRecv))
  BY DEF RecvWaitersCounted, OnRecv
<1>3. Cardinality(At(OnRecv))' = recv_waiters' /\ Cardinality(At(OnRecv))' \in Nat
  <2>1. Cardinality(At(OnRecv))' = recv_waiters'
    BY <1>1, <1>2, AtMoves
  <2>2. pc[t] \in OnRecv => recv_waiters >= 1
    BY <1>2, AtCounted
  <2> QED
    BY <1>1, <2>1, <2>2
<1>4. RecvWaitersCounted' /\ recv_waiters' \in Nat
  BY <1>3 DEF RecvWaitersCounted, OnRecv
<1>5. /\ Cardinality(At(InPump)) = IF reply_receiver_waiters THEN 1 ELSE 0
      /\ Cardinality(At(InPump))' = (Cardinality(At(InPump)) - (IF pc[t] \in InPump THEN 1 ELSE 0))
                                        + (IF p \in InPump THEN 1 ELSE 0)
      /\ pc[t] \in InPump => Cardinality(At(InPump)) >= 1
  BY <1>1, AtMoves, AtCounted DEF OnePumpWaiter, InPump
<1>6. Cardinality(At(InPump))' = IF reply_receiver_waiters' THEN 1 ELSE 0
  <2>1. CASE p \in InPump
    <3>1. reply_receiver_waiters' = TRUE
      BY <2>1
    <3> QED
      BY <1>1, <1>5, <2>1, <3>1
  <2>2. CASE p \notin InPump /\ pc[t] \in InPump
    <3>1. reply_receiver_waiters' = FALSE
      BY <2>2
    <3> QED
      BY <1>1, <1>5, <2>2, <3>1
  <2>3. CASE p \notin InPump /\ pc[t] \notin InPump
    <3>1. reply_receiver_waiters' = reply_receiver_waiters
      BY <1>1, <2>3
    <3> QED
      BY <1>1, <1>5, <2>3, <3>1
  <2> QED
    BY <2>1, <2>2, <2>3
<1>7. OnePumpWaiter'
  BY <1>6 DEF OnePumpWaiter, InPump
<1>8. ReturnsLast'
  <2>1. SUFFICES ASSUME NEW u \in Thread, returning'[u] # EmptyBag PROVE pc'[u] = "notify_recv"
    BY DEF ReturnsLast
  <2>2. pc'[u] = IF u = t THEN p ELSE pc[u]
    BY <1>1 DEF Goto
  <2> QED
    BY <2>1, <2>2 DEF ReturnsLast
<1> QED
  BY <1>4, <1>7, <1>8

\* The guards and the reservations stay as they are.
LEMMA OwnedKept ==
    ASSUME ~closed => Owned, closed => closed', SameReplies(seq, seq'), UNCHANGED lock_guards,
           \A r \in SeqNo, b \in BOOLEAN : Owners(r, b)' = Owners(r, b)
    PROVE  ~closed' => Owned'
<1>1. \A r \in SeqNo : Reservations(seq', r) = Reservations(seq, r)
  BY DEF SameReplies, Reservations
<1>2. /\ seq'.is_locked = seq.is_locked
      /\ \A r \in SeqNo : Owners(r, TRUE)' = Owners(r, TRUE)
      /\ \A r \in SeqNo : Owners(r, FALSE)' = Owners(r, FALSE)
  BY DEF SameReplies
<1>3. Owned => Owned'
  <2>1. ReservationsOwned => ReservationsOwned'
    BY <1>1, <1>2 DEF ReservationsOwned
  <2>2. OneHolder => OneHolder'
    BY <1>2 DEF OneHolder
  <2> QED
    BY <2>1, <2>2 DEF Owned
<1> QED
  BY <1>3

\* A step that touches no guard changes no owner.
LEMMA OwnersUntouched ==
    ASSUME UNCHANGED <<guards, returning>>, NEW r \in SeqNo, NEW b \in BOOLEAN
    PROVE  Owners(r, b)' = Owners(r, b)
BY DEF Owners, Copies

----------------------------------------------------------------------------
(* Who wakes a sender that waits on wait_on_reply.                         *)

\* There is somebody, in terms of guards.
LEMMA SomeoneHolds ==
    ASSUME TypeOK
    PROVE  /\ \A r \in SeqNo, b \in BOOLEAN : Owners(r, b) > 0 => SomeoneWillNotify
           /\ lock_guards > 0 => SomeoneWillNotify
<1>1. ASSUME NEW r \in SeqNo, NEW b \in BOOLEAN, Owners(r, b) > 0 PROVE SomeoneWillNotify
  <2>1. BagIn(Guard(r, b), guards) \/ \E t \in Thread : BagIn(Guard(r, b), returning[t])
    BY <1>1, OwnersType
  <2> QED
    BY <2>1 DEF SomeoneWillNotify, BagIn
<1> QED
  BY <1>1 DEF SomeoneWillNotify

\* A thread that neither comes to wait_on_reply nor leaves notify_reply lets the others wait,
\* as long as it leaves the flag and somebody to call notify_reply.
LEMMA WakeUpStays ==
    ASSUME TypeOK, ReplyWakeUpDue, NEW t \in Thread, NEW p \in Place, Goto(t, p),
           pc[t] # "notify_reply", p # "wait_on_reply",
           reply_sender_waiters => reply_sender_waiters', SomeoneWillNotify => SomeoneWillNotify'
    PROVE  ReplyWakeUpDue'
<1>1. pc' = [pc EXCEPT ![t] = p] /\ pc \in [Thread -> Place]
  BY DEF Goto, TypeOK
<1>2. At({"wait_on_reply"})' \subseteq At({"wait_on_reply"})
  BY <1>1 DEF At
<1>3. At({"notify_reply"}) \subseteq At({"notify_reply"})'
  BY <1>1 DEF At
<1> QED
  BY <1>2, <1>3 DEF ReplyWakeUpDue

\* notify_reply, under the mutex: if it notifies nobody, nobody waits, or another thread is
\* about to notify everyone.
LEMMA WakeUpNotified ==
    ASSUME TypeOK, ReplyWakeUpDue, NEW t \in Thread, pc[t] = "idle", NotifyReply(t)
    PROVE  ReplyWakeUpDue'
<1>1. pc \in [Thread -> Place] /\ reply_sender_waiters \in BOOLEAN
  BY DEF TypeOK
<1>2. CASE reply_sender_waiters \/ reply_receiver_waiters
  <2>1. t \in At({"notify_reply"})'
    BY <1>1, <1>2 DEF NotifyReply, Goto, At
  <2> QED
    BY <2>1 DEF ReplyWakeUpDue, SomeoneWillNotify
<1>3. CASE ~(reply_sender_waiters \/ reply_receiver_waiters)
  <2>1. pc' = pc
    BY <1>1, <1>3 DEF NotifyReply, Goto
  <2>2. At({"wait_on_reply"})' = At({"wait_on_reply"}) /\ At({"notify_reply"})' = At({"notify_reply"})
    BY <2>1 DEF At
  <2> QED
    BY <1>3, <2>2 DEF ReplyWakeUpDue, SomeoneWillNotify
<1> QED
  BY <1>2, <1>3

----------------------------------------------------------------------------
(* The invariant is inductive: one lemma per kind of step.                 *)

\* A wait ends.
LEMMA WakeStep ==
    ASSUME IInv, NEW t \in Thread, Wake(t)
    PROVE  IInv'
<1> DEFINE p == WakeUp(pc[t])
<1>1. /\ TypeOK /\ RecvWaitersCounted /\ OnePumpWaiter /\ ReturnsLast
      /\ (~closed => Owned) /\ (CAP > 2 => ReplyWakeUpDue)
  BY DEF IInv
<1>2. /\ pc[t] \in Waiting /\ Goto(t, p)
      /\ UNCHANGED <<seq, recv_waiters, reply_sender_waiters, reply_receiver_waiters, closed,
                     returning, guards, lock_guards, gave_up>>
  BY DEF Wake, inner, held
<1>3. /\ p \in Woken /\ p \in Place /\ (p \in OnRecv <=> pc[t] \in OnRecv)
      /\ (p \in InPump <=> pc[t] \in InPump)
  BY <1>2 DEF WakeUp, Waiting, Woken, Place, OnRecv, InPump
<1> HIDE DEF p
<1>4. /\ recv_waiters \in Nat /\ reply_receiver_waiters \in BOOLEAN
      /\ pc[t] \in InPump => reply_receiver_waiters
  <2>1. pc[t] \in InPump => Cardinality(At(InPump)) >= 1
    BY AtCounted
  <2> QED
    BY <1>1, <2>1 DEF TypeOK, OnePumpWaiter, InPump
<1>5. recv_waiters' = (recv_waiters - (IF pc[t] \in OnRecv THEN 1 ELSE 0))
                            + (IF p \in OnRecv THEN 1 ELSE 0)
  BY <1>2, <1>3, <1>4
<1>6. pc[t] # "notify_recv" /\ pc[t] # "notify_reply" /\ p # "wait_on_reply"
  BY <1>2, <1>3 DEF Waiting, Woken
<1>7. RecvWaitersCounted' /\ OnePumpWaiter' /\ ReturnsLast'
  <2>1. /\ reply_receiver_waiters' = (p \in InPump \/ (reply_receiver_waiters /\ pc[t] \notin InPump))
        /\ p \in InPump => (reply_receiver_waiters <=> pc[t] \in InPump)
    BY <1>2, <1>3, <1>4
  <2> QED
    BY <1>1, <1>2, <1>3, <1>5, <1>6, <2>1, CountsMove
<1>8. TypeOK'
  BY <1>1, <1>2, <1>3 DEF TypeOK, Goto
<1>9. ~closed' => Owned'
  BY <1>1, <1>2, OwnersUntouched, OwnedKept DEF SameReplies
<1>10. CAP > 2 => ReplyWakeUpDue'
  <2>1. SomeoneWillNotify => SomeoneWillNotify'
    BY <1>2, <1>6, <1>1 DEF SomeoneWillNotify, Goto, At, TypeOK
  <2> QED
    BY <1>1, <1>2, <1>3, <1>6, <2>1, WakeUpStays
<1> QED
  BY <1>7, <1>8, <1>9, <1>10 DEF IInv

\* send returns an error.
LEMMA FailStep ==
    ASSUME IInv, NEW t \in Thread, NEW expired \in BOOLEAN, Fail(t, expired)
    PROVE  IInv'
<1>1. /\ TypeOK /\ RecvWaitersCounted /\ OnePumpWaiter /\ ReturnsLast
      /\ (~closed => Owned) /\ (CAP > 2 => ReplyWakeUpDue)
  BY DEF IInv
<1>2. /\ pc[t] \in {"woken_on_recv", "woken_on_reply"} /\ Goto(t, "idle")
      /\ recv_waiters' = Waiters(t) /\ gave_up' = (gave_up \/ expired)
      /\ UNCHANGED <<seq, reply_sender_waiters, reply_receiver_waiters, closed, returning,
                     guards, lock_guards>>
  BY DEF Fail, held
<1>3. /\ "idle" \in Place /\ "idle" \notin OnRecv /\ "idle" \notin InPump
      /\ pc[t] \notin InPump /\ (pc[t] \in OnRecv <=> pc[t] = "woken_on_recv")
  BY <1>2 DEF Place, OnRecv, InPump
<1>4. recv_waiters \in Nat /\ reply_receiver_waiters \in BOOLEAN
  BY <1>1 DEF TypeOK
<1>5. recv_waiters' = (recv_waiters - (IF pc[t] \in OnRecv THEN 1 ELSE 0))
                            + (IF "idle" \in OnRecv THEN 1 ELSE 0)
  BY <1>2, <1>3, <1>4 DEF Waiters
<1>6. RecvWaitersCounted' /\ OnePumpWaiter' /\ ReturnsLast' /\ recv_waiters' \in Nat
  BY <1>1, <1>2, <1>3, <1>4, <1>5, CountsMove
<1>7. TypeOK'
  BY <1>1, <1>2, <1>3, <1>6 DEF TypeOK, Goto
<1>8. ~closed' => Owned'
  BY <1>1, <1>2, OwnersUntouched, OwnedKept DEF SameReplies
<1>9. CAP > 2 => ReplyWakeUpDue'
  <2>1. SomeoneWillNotify => SomeoneWillNotify'
    BY <1>1, <1>2 DEF SomeoneWillNotify, Goto, At, TypeOK
  <2> QED
    BY <1>1, <1>2, <1>3, <2>1, WakeUpStays
<1> QED
  BY <1>6, <1>7, <1>8, <1>9 DEF IInv

\* send sends, or waits: for a reply only while somebody holds a guard.
LEMMA SendsStep ==
    ASSUME IInv, NEW t \in Thread, Sends(t)
    PROVE  IInv'
<1> DEFINE full == IsFullInner(seq, None)
           p == CASE full = "Ok" -> "idle"
                  [] full = "WaitingForRecv" -> "wait_on_recv"
                  [] full = "WaitingForReply" -> "wait_on_reply"
<1>1. /\ TypeOK /\ RecvWaitersCounted /\ OnePumpWaiter /\ ReturnsLast
      /\ (~closed => Owned) /\ (CAP > 2 => ReplyWakeUpDue)
  BY DEF IInv
<1>2. /\ pc[t] \in {"idle", "woken_on_recv", "woken_on_reply"} /\ ~closed /\ Goto(t, p)
      /\ recv_waiters' = IF full = "WaitingForRecv" THEN Waiters(t) + 1 ELSE Waiters(t)
      /\ reply_sender_waiters' = (reply_sender_waiters \/ full = "WaitingForReply")
      /\ UNCHANGED <<reply_receiver_waiters, closed, returning, guards, lock_guards, gave_up>>
      /\ \E c \in SeqCstModes, d \in Data :
            seq' = IF full = "Ok" THEN TrySend(seq, 0, c, d) ELSE seq
  BY DEF Sends, TrySendOrWait, held
<1>3. full \in {"Ok", "WaitingForRecv", "WaitingForReply"}
  BY DEF IsFullInner
<1>4. /\ p \in Place /\ p \notin InPump /\ pc[t] \notin InPump
      /\ (p \in OnRecv <=> full = "WaitingForRecv")
      /\ (p = "wait_on_reply" <=> full = "WaitingForReply")
      /\ (pc[t] \in OnRecv <=> pc[t] = "woken_on_recv")
  BY <1>2, <1>3 DEF Place, Waiting, OnRecv, InPump
<1>5. recv_waiters \in Nat /\ reply_receiver_waiters \in BOOLEAN /\ seq \in SeqExState
  BY <1>1 DEF TypeOK
<1>6. seq' \in SeqExState /\ SameReplies(seq, seq')
  <2>1. PICK c \in SeqCstModes, d \in Data :
                seq' = IF full = "Ok" THEN TrySend(seq, 0, c, d) ELSE seq
    BY <1>2
  <2>2. c \in BOOLEAN
    BY RemoteAssumption
  <2>3. CASE full = "Ok"
    BY <1>5, <2>1, <2>2, <2>3, TrySendType
  <2>4. CASE full # "Ok"
    BY <1>5, <2>1, <2>4 DEF SameReplies
  <2> QED
    BY <2>3, <2>4
<1> HIDE DEF p
<1>7. recv_waiters' = (recv_waiters - (IF pc[t] \in OnRecv THEN 1 ELSE 0))
                            + (IF p \in OnRecv THEN 1 ELSE 0)
  BY <1>2, <1>4, <1>5 DEF Waiters
<1>8. RecvWaitersCounted' /\ OnePumpWaiter' /\ ReturnsLast' /\ recv_waiters' \in Nat
  <2>1. reply_receiver_waiters' = (p \in InPump \/ (reply_receiver_waiters /\ pc[t] \notin InPump))
    BY <1>2, <1>4, <1>5
  <2>2. pc[t] # "notify_recv" /\ returning' = returning /\ pc[t] # "notify_reply"
    BY <1>2
  <2> QED
    BY <1>1, <1>2, <1>4, <1>7, <2>1, <2>2, CountsMove
<1>9. TypeOK'
  <2>1. (reply_sender_waiters \/ full = "WaitingForReply") \in BOOLEAN
    OBVIOUS
  <2> HIDE DEF full
  <2> QED
    BY <1>1, <1>2, <1>4, <1>6, <1>8, <2>1 DEF TypeOK, Goto
<1>10. ~closed' => Owned'
  BY <1>1, <1>2, <1>6, OwnersUntouched, OwnedKept
<1>11. CAP > 2 => ReplyWakeUpDue'
  <2>1. SomeoneWillNotify => SomeoneWillNotify'
    BY <1>1, <1>2, <1>4 DEF SomeoneWillNotify, Goto, At, TypeOK
  <2>2. CASE full # "WaitingForReply"
    BY <1>1, <1>2, <1>4, <2>1, <2>2, WakeUpStays
  <2>3. CASE full = "WaitingForReply"
    <3>1. SUFFICES ASSUME CAP > 2 PROVE ReplyWakeUpDue'
      OBVIOUS
    <3>2. PICK r \in SeqNo : Reservations(seq, r) > 0
      BY <1>5, <2>3, <3>1, WaitsForReserved
    <3>3. Owners(r, TRUE) + Owners(r, FALSE) > 0
      BY <1>1, <1>2, <3>2 DEF Owned, ReservationsOwned
    <3>4. Owners(r, TRUE) > 0 \/ Owners(r, FALSE) > 0
      <4> DEFINE a == Owners(r, TRUE)
                 b == Owners(r, FALSE)
      <4>1. a \in Nat /\ b \in Nat /\ a + b > 0
        BY <1>1, <3>3, OwnersType
      <4> HIDE DEF a, b
      <4>2. a > 0 \/ b > 0
        BY <4>1
      <4> QED
        BY <4>2 DEF a, b
    <3>5. SomeoneWillNotify
      BY <1>1, <3>4, SomeoneHolds
    <3>6. reply_sender_waiters' = TRUE
      BY <1>2, <2>3
    <3> QED
      BY <2>1, <3>5, <3>6 DEF ReplyWakeUpDue
  <2> QED
    BY <2>2, <2>3
<1> QED
  BY <1>8, <1>9, <1>10, <1>11 DEF IInv

\* What a call returns under the mutex: NotifyRecv gives a guard to the application, or to the
\* call that has yet to notify.
LEMMA NotifyRecvFacts ==
    ASSUME IInv, NEW t \in Thread, pc[t] \in {"idle", "pump", "woken_to_pump"},
           NEW bag, NotifyRecv(t, bag), bag \in {EmptyBag} \cup {SetToBag({g}) : g \in ReplyGuard},
           UNCHANGED recv_waiters,
           reply_receiver_waiters' = (reply_receiver_waiters /\ pc[t] # "woken_to_pump")
    PROVE  /\ returning[t] = EmptyBag
           /\ pc' \in [Thread -> Place]
           /\ returning' \in [Thread -> {EmptyBag} \cup {SetToBag({g}) : g \in ReplyGuard}]
           /\ IsABag(guards') /\ BagToSet(guards') \subseteq ReplyGuard
           /\ RecvWaitersCounted' /\ OnePumpWaiter' /\ ReturnsLast'
           /\ (CAP > 2 /\ reply_sender_waiters' = reply_sender_waiters
                /\ lock_guards' = lock_guards => ReplyWakeUpDue')
<1> DEFINE p == IF recv_waiters > 0 THEN "notify_recv" ELSE "idle"
<1>1. /\ TypeOK /\ RecvWaitersCounted /\ OnePumpWaiter /\ ReturnsLast
      /\ (CAP > 2 => ReplyWakeUpDue)
  BY DEF IInv
<1>2. Goto(t, p) /\ returning[t] = EmptyBag
  BY <1>1 DEF NotifyRecv, ReturnsLast
<1>3. /\ returning' = returning \/ (p = "notify_recv" /\ returning' = [returning EXCEPT ![t] = bag])
      /\ guards' = guards \/ guards' = guards (+) bag
  BY DEF NotifyRecv
<1>4. /\ p \in Place /\ p \notin OnRecv /\ p \notin InPump /\ pc[t] \notin OnRecv
      /\ (pc[t] \in InPump <=> pc[t] = "woken_to_pump")
      /\ pc[t] # "notify_recv" /\ pc[t] # "notify_reply" /\ p # "wait_on_reply"
  BY DEF Place, OnRecv, InPump
<1> HIDE DEF p
<1>5. recv_waiters \in Nat /\ reply_receiver_waiters \in BOOLEAN /\ IsABag(guards)
      /\ BagToSet(guards) \subseteq ReplyGuard /\ DOMAIN returning = Thread
  BY <1>1 DEF TypeOK
<1>6. recv_waiters' = (recv_waiters - (IF pc[t] \in OnRecv THEN 1 ELSE 0))
                            + (IF p \in OnRecv THEN 1 ELSE 0)
  BY <1>4, <1>5
<1>7. RecvWaitersCounted' /\ OnePumpWaiter' /\ ReturnsLast'
  <2>1. reply_receiver_waiters' = (p \in InPump \/ (reply_receiver_waiters /\ pc[t] \notin InPump))
    BY <1>4, <1>5
  <2>2. \A u \in Thread \ {t} : returning'[u] = returning[u]
    BY <1>3, <1>5
  <2> QED
    BY <1>1, <1>2, <1>3, <1>4, <1>6, <2>1, <2>2, CountsMove
<1>8. IsABag(guards (+) bag) /\ BagToSet(guards (+) bag) = BagToSet(guards) \cup BagToSet(bag)
  <2>1. CASE bag = EmptyBag
    BY <1>5, <2>1, BagAddNone, ReturningFacts
  <2>2. ASSUME NEW g \in ReplyGuard, bag = SetToBag({g})
        PROVE  IsABag(guards (+) bag) /\ BagToSet(guards (+) bag) = BagToSet(guards) \cup BagToSet(bag)
    <3>1. /\ IsABag(guards (+) SetToBag({g}))
          /\ BagToSet(guards (+) SetToBag({g})) = BagToSet(guards) \cup {g}
      BY <1>5, BagAddOne
    <3>2. BagToSet(SetToBag({g})) = {g}
      BY ReturningFacts
    <3> QED
      BY <2>2, <3>1, <3>2
  <2> QED
    BY <2>1, <2>2
<1>9. BagToSet(bag) \subseteq ReplyGuard
  BY ReturningFacts
<1>10. /\ pc' \in [Thread -> Place]
       /\ returning' \in [Thread -> {EmptyBag} \cup {SetToBag({g}) : g \in ReplyGuard}]
       /\ IsABag(guards') /\ BagToSet(guards') \subseteq ReplyGuard
  BY <1>1, <1>2, <1>3, <1>4, <1>5, <1>8, <1>9 DEF TypeOK, Goto
<1>11. ASSUME CAP > 2, reply_sender_waiters' = reply_sender_waiters, lock_guards' = lock_guards
       PROVE  ReplyWakeUpDue'
  <2>1. BagToSet(guards) \subseteq BagToSet(guards')
    BY <1>3, <1>8
  <2>2. \A u \in Thread : BagToSet(returning[u]) # {} => returning'[u] = returning[u]
    BY <1>2, <1>3, <1>5, ReturningFacts
  <2>3. At({"notify_reply"}) \subseteq At({"notify_reply"})'
    BY <1>1, <1>2, <1>4 DEF Goto, At, TypeOK
  <2>4. SomeoneWillNotify => SomeoneWillNotify'
    BY <1>11, <2>1, <2>2, <2>3 DEF SomeoneWillNotify
  <2> QED
    BY <1>1, <1>2, <1>4, <1>11, <2>4, WakeUpStays
<1> QED
  BY <1>2, <1>7, <1>10, <1>11

\* A packet is handed over: its number has an owner, and so has the lock if it takes it.
LEMMA DeliversStep ==
    ASSUME IInv, NEW t \in Thread, NEW n \in SeqNo, NEW c \in BOOLEAN, Delivers(t, n, c)
    PROVE  IInv'
<1> DEFINE g == Guard(n, c)
<1>1. TypeOK /\ (~closed => Owned)
  BY DEF IInv
<1>2. /\ pc[t] \in {"idle", "pump", "woken_to_pump"} /\ NotifyRecv(t, SetToBag({g}))
      /\ seq' \in SeqExState /\ Issues(seq, seq', n, c) /\ (c => ~seq.is_locked)
      /\ reply_receiver_waiters' = (reply_receiver_waiters /\ pc[t] # "woken_to_pump")
      /\ UNCHANGED <<recv_waiters, reply_sender_waiters, closed, lock_guards, gave_up>>
  BY DEF Delivers
<1>3. g \in ReplyGuard
  BY GuardFacts
<1> HIDE DEF g
<1>4. /\ returning[t] = EmptyBag
      /\ pc' \in [Thread -> Place]
      /\ returning' \in [Thread -> {EmptyBag} \cup {SetToBag({h}) : h \in ReplyGuard}]
      /\ IsABag(guards') /\ BagToSet(guards') \subseteq ReplyGuard
      /\ RecvWaitersCounted' /\ OnePumpWaiter' /\ ReturnsLast'
      /\ CAP > 2 => ReplyWakeUpDue'
  BY <1>2, <1>3, NotifyRecvFacts
<1>5. TypeOK'
  <2>1. (reply_receiver_waiters /\ pc[t] # "woken_to_pump") \in BOOLEAN
    OBVIOUS
  <2> QED
    BY <1>1, <1>2, <1>4, <2>1 DEF TypeOK
<1>6. \A r \in SeqNo, b \in BOOLEAN :
        Owners(r, b)' = Owners(r, b) + (IF Guard(r, b) = g THEN 1 ELSE 0)
  BY <1>1, <1>2, <1>4, OwnersReturned
<1>7. \A r \in SeqNo, b \in BOOLEAN : Guard(r, b) = g <=> r = n /\ b = c
  BY GuardFacts DEF g
<1>8. \A r \in SeqNo, b \in BOOLEAN : Owners(r, b) \in Nat
  BY <1>1, OwnersType
<1>9. ~closed' => Owned'
  <2>1. SUFFICES ASSUME ReservationsOwned, OneHolder PROVE ReservationsOwned' /\ OneHolder'
    BY <1>1, <1>2 DEF Owned
  <2>2. ReservationsOwned'
    <3>1. SUFFICES ASSUME NEW r \in SeqNo
                   PROVE  Owners(r, TRUE)' + Owners(r, FALSE)' = Reservations(seq', r)
      BY DEF ReservationsOwned
    <3>2. Reservations(seq', r) = Reservations(seq, r) + (IF r = n THEN 1 ELSE 0)
      BY <1>1, <1>2, ReservationsIssued DEF TypeOK
    <3> DEFINE a == Owners(r, TRUE)
               b == Owners(r, FALSE)
    <3>3. /\ a' = a + (IF r = n /\ c = TRUE THEN 1 ELSE 0)
          /\ b' = b + (IF r = n /\ c = FALSE THEN 1 ELSE 0)
      BY <1>6, <1>7
    <3>4. a \in Nat /\ b \in Nat
      BY <1>8
    <3>5. a + b = Reservations(seq, r)
      BY <2>1 DEF ReservationsOwned
    <3> HIDE DEF a, b
    <3>6. a' + b' = Reservations(seq', r)
      BY <3>2, <3>3, <3>4, <3>5
    <3> QED
      BY <3>6 DEF a, b
  <2>3. OneHolder'
    <3>1. seq'.is_locked = (seq.is_locked \/ c)
      BY <1>2 DEF Issues
    <3>2. CASE c = FALSE
      <4>1. ASSUME NEW r \in SeqNo PROVE Owners(r, TRUE)' = Owners(r, TRUE)
        <5>1. Guard(r, TRUE) # g
          BY <1>7, <3>2
        <5> DEFINE a == Owners(r, TRUE)
        <5>2. a' = a + 0 /\ a \in Nat
          BY <1>6, <1>8, <5>1
        <5> HIDE DEF a
        <5>3. a' = a
          BY <5>2
        <5> QED
          BY <5>3 DEF a
      <4>2. seq'.is_locked = seq.is_locked
        BY <1>1, <3>1, <3>2 DEF TypeOK, SeqExState
      <4> QED
        BY <1>2, <2>1, <4>1, <4>2 DEF OneHolder
    <3>3. CASE c = TRUE
      <4>1. lock_guards = 0 /\ \A r \in SeqNo : Owners(r, TRUE) = 0
        BY <1>2, <2>1, <3>3 DEF OneHolder
      <4>2. Owners(n, TRUE)' = 1 /\ \A r \in SeqNo \ {n} : Owners(r, TRUE)' = 0
        <5>1. \A r \in SeqNo : Guard(r, TRUE) = g <=> r = n
          BY <1>7, <3>3
        <5> DEFINE a(r) == Owners(r, TRUE)
        <5>2. \A r \in SeqNo : a(r)' = 0 + (IF r = n THEN 1 ELSE 0)
          BY <1>6, <4>1, <5>1
        <5> HIDE DEF a
        <5>3. a(n)' = 1 /\ \A r \in SeqNo \ {n} : a(r)' = 0
          BY <5>2
        <5> QED
          BY <5>3 DEF a
      <4> QED
        BY <1>2, <3>1, <3>3, <4>1, <4>2 DEF OneHolder
    <3> QED
      BY <3>2, <3>3
  <2> QED
    BY <2>2, <2>3
<1> QED
  BY <1>4, <1>5, <1>9 DEF IInv

\* A call returns without a guard.
LEMMA ReturnsNoneStep ==
    ASSUME IInv, NEW t \in Thread, ReturnsNone(t)
    PROVE  IInv'
<1>1. TypeOK /\ (~closed => Owned)
  BY DEF IInv
<1>2. /\ pc[t] = "idle" /\ NotifyRecv(t, EmptyBag)
      /\ seq' \in SeqExState /\ SameReplies(seq, seq') /\ closed' \in {closed, TRUE}
      /\ UNCHANGED <<recv_waiters, reply_sender_waiters, reply_receiver_waiters, lock_guards,
                     gave_up>>
  BY DEF ReturnsNone
<1>3. reply_receiver_waiters' = (reply_receiver_waiters /\ pc[t] # "woken_to_pump")
  BY <1>1, <1>2 DEF TypeOK
<1>4. /\ returning[t] = EmptyBag
      /\ pc' \in [Thread -> Place]
      /\ returning' \in [Thread -> {EmptyBag} \cup {SetToBag({h}) : h \in ReplyGuard}]
      /\ IsABag(guards') /\ BagToSet(guards') \subseteq ReplyGuard
      /\ RecvWaitersCounted' /\ OnePumpWaiter' /\ ReturnsLast'
      /\ CAP > 2 => ReplyWakeUpDue'
  BY <1>2, <1>3, NotifyRecvFacts
<1>5. TypeOK'
  BY <1>1, <1>2, <1>4 DEF TypeOK
<1>6. ~closed' => Owned'
  <2>1. \A r \in SeqNo, b \in BOOLEAN : Owners(r, b)' = Owners(r, b)
    BY <1>1, <1>2, <1>4, OwnersNotReturned
  <2>2. closed => closed'
    BY <1>2
  <2> QED
    BY <1>1, <1>2, <2>1, <2>2, OwnedKept
<1> QED
  BY <1>4, <1>5, <1>6 DEF IInv

\* Nothing is handed over.
LEMMA ReceivesStep ==
    ASSUME IInv, NEW t \in Thread, NEW p \in Place, Receives(t, p)
    PROVE  IInv'
<1>1. /\ TypeOK /\ RecvWaitersCounted /\ OnePumpWaiter /\ ReturnsLast
      /\ (~closed => Owned) /\ (CAP > 2 => ReplyWakeUpDue)
  BY DEF IInv
<1>2. /\ pc[t] \in {"idle", "pump", "woken_to_pump"} /\ p \in {"idle", "pump", "wait_to_pump"}
      /\ seq' \in SeqExState /\ SameReplies(seq, seq') /\ Goto(t, p)
      /\ IF p = "wait_to_pump"
         THEN reply_receiver_waiters' = TRUE /\ (reply_receiver_waiters => pc[t] = "woken_to_pump")
         ELSE reply_receiver_waiters' = (reply_receiver_waiters /\ pc[t] # "woken_to_pump")
      /\ UNCHANGED <<recv_waiters, reply_sender_waiters, closed, returning, guards, lock_guards,
                     gave_up>>
  BY DEF Receives, held
<1>3. /\ p \notin OnRecv /\ (p \in InPump <=> p = "wait_to_pump") /\ pc[t] \notin OnRecv
      /\ (pc[t] \in InPump <=> pc[t] = "woken_to_pump")
  BY <1>2 DEF OnRecv, InPump
<1>4. /\ recv_waiters \in Nat /\ reply_receiver_waiters \in BOOLEAN
      /\ pc[t] \in InPump => reply_receiver_waiters
  <2>1. pc[t] \in InPump => Cardinality(At(InPump)) >= 1
    BY AtCounted
  <2> QED
    BY <1>1, <2>1 DEF TypeOK, OnePumpWaiter, InPump
<1>5. recv_waiters' = (recv_waiters - (IF pc[t] \in OnRecv THEN 1 ELSE 0))
                            + (IF p \in OnRecv THEN 1 ELSE 0)
  BY <1>2, <1>3, <1>4
<1>6. reply_receiver_waiters' = (p \in InPump \/ (reply_receiver_waiters /\ pc[t] \notin InPump))
      /\ (p \in InPump => (reply_receiver_waiters <=> pc[t] \in InPump))
  BY <1>2, <1>3, <1>4
<1>7. pc[t] # "notify_recv" /\ pc[t] # "notify_reply" /\ p # "wait_on_reply"
  BY <1>2
<1>8. RecvWaitersCounted' /\ OnePumpWaiter' /\ ReturnsLast'
  BY <1>1, <1>2, <1>5, <1>6, <1>7, CountsMove
<1>9. TypeOK'
  <2>1. reply_receiver_waiters' \in BOOLEAN
    BY <1>2
  <2> QED
    BY <1>1, <1>2, <2>1 DEF TypeOK, Goto
<1>10. ~closed' => Owned'
  BY <1>1, <1>2, OwnersUntouched, OwnedKept
<1>11. CAP > 2 => ReplyWakeUpDue'
  <2>1. SomeoneWillNotify => SomeoneWillNotify'
    BY <1>1, <1>2, <1>7 DEF SomeoneWillNotify, Goto, At, TypeOK
  <2> QED
    BY <1>1, <1>2, <1>7, <2>1, WakeUpStays
<1> QED
  BY <1>8, <1>9, <1>10, <1>11 DEF IInv

\* notify_recv wakes a sender and lets the call return.
LEMMA NotifyOneStep ==
    ASSUME IInv, NEW t \in Thread, NotifyOne(t)
    PROVE  IInv'
<1>1. /\ TypeOK /\ RecvWaitersCounted /\ OnePumpWaiter /\ ReturnsLast
      /\ (~closed => Owned) /\ (CAP > 2 => ReplyWakeUpDue)
  BY DEF IInv
<1>2. /\ pc[t] = "notify_recv"
      /\ guards' = guards (+) returning[t] /\ returning' = [returning EXCEPT ![t] = EmptyBag]
      /\ UNCHANGED <<seq, recv_waiters, reply_sender_waiters, reply_receiver_waiters, closed,
                     lock_guards, gave_up>>
      /\ \/ pc' = [pc EXCEPT ![t] = "idle"]
         \/ \E u \in Thread : /\ pc[u] = "wait_on_recv"
                              /\ pc' = [pc EXCEPT ![t] = "idle", ![u] = "woken_on_recv"]
  BY DEF NotifyOne, inner, Goto
<1>3. pc \in [Thread -> Place] /\ {"idle", "woken_on_recv"} \subseteq Place
  BY <1>1 DEF TypeOK, Place, Woken
<1>4. /\ pc' \in [Thread -> Place]
      /\ \A u \in Thread : \/ pc'[u] = pc[u] /\ u # t
                           \/ u = t /\ pc[u] = "notify_recv" /\ pc'[u] = "idle"
                           \/ pc[u] = "wait_on_recv" /\ pc'[u] = "woken_on_recv"
  BY <1>2, <1>3
<1>5. /\ At(OnRecv)' = At(OnRecv) /\ At(InPump)' = At(InPump)
      /\ At({"wait_on_reply"})' = At({"wait_on_reply"})
      /\ At({"notify_reply"})' = At({"notify_reply"})
  BY <1>4 DEF At, OnRecv, InPump
<1>6. RecvWaitersCounted' /\ OnePumpWaiter'
  BY <1>1, <1>2, <1>5 DEF RecvWaitersCounted, OnePumpWaiter, OnRecv, InPump
<1>7. DOMAIN returning = Thread /\ IsABag(guards) /\ BagToSet(guards) \subseteq ReplyGuard
  BY <1>1 DEF TypeOK
<1>8. ReturnsLast'
  <2>1. SUFFICES ASSUME NEW u \in Thread, returning'[u] # EmptyBag PROVE pc'[u] = "notify_recv"
    BY DEF ReturnsLast
  <2>2. u # t /\ returning[u] # EmptyBag
    BY <1>2, <1>7, <2>1
  <2>3. pc[u] = "notify_recv"
    BY <1>1, <2>2 DEF ReturnsLast
  <2> QED
    BY <1>4, <2>2, <2>3
<1>9. /\ IsABag(guards') /\ BagToSet(guards') = BagToSet(guards) \cup BagToSet(returning[t])
      /\ BagToSet(returning[t]) \subseteq ReplyGuard
  <2>1. CASE returning[t] = EmptyBag
    BY <1>2, <1>7, <2>1, BagAddNone, ReturningFacts
  <2>2. ASSUME NEW g \in ReplyGuard, returning[t] = SetToBag({g})
        PROVE  /\ IsABag(guards') /\ BagToSet(guards') = BagToSet(guards) \cup BagToSet(returning[t])
               /\ BagToSet(returning[t]) \subseteq ReplyGuard
    <3>1. guards' = guards (+) SetToBag({g})
      BY <1>2, <2>2
    <3>2. IsABag(guards') /\ BagToSet(guards') = BagToSet(guards) \cup {g}
      BY <1>7, <3>1, BagAddOne
    <3>3. BagToSet(returning[t]) = {g}
      BY <2>2, ReturningFacts
    <3> QED
      BY <3>2, <3>3
  <2> QED
    BY <1>1, <2>1, <2>2 DEF TypeOK
<1>10. TypeOK'
  BY <1>1, <1>2, <1>4, <1>7, <1>9 DEF TypeOK
<1>11. ~closed' => Owned'
  BY <1>1, <1>2, OwnersNotified, OwnedKept DEF SameReplies
<1>12. CAP > 2 => ReplyWakeUpDue'
  <2>1. SomeoneWillNotify => SomeoneWillNotify'
    <3>1. ASSUME NEW u \in Thread, BagToSet(returning[u]) # {}
          PROVE  BagToSet(guards') # {} \/ BagToSet(returning'[u]) # {}
      BY <1>2, <1>7, <1>9, <3>1
    <3> QED
      BY <1>2, <1>5, <1>9, <3>1 DEF SomeoneWillNotify
  <2> QED
    BY <1>1, <1>2, <1>5, <2>1 DEF ReplyWakeUpDue
<1> QED
  BY <1>6, <1>8, <1>10, <1>11, <1>12 DEF IInv

\* notify_reply wakes everyone.
LEMMA NotifyAllStep ==
    ASSUME IInv, NEW t \in Thread, NotifyAll(t)
    PROVE  IInv'
<1>1. /\ TypeOK /\ RecvWaitersCounted /\ OnePumpWaiter /\ ReturnsLast
      /\ (~closed => Owned)
  BY DEF IInv
<1>2. /\ pc[t] = "notify_reply"
      /\ pc' = [u \in Thread |->
                IF u = t THEN "idle"
                ELSE IF pc[u] \in {"wait_on_reply", "wait_to_pump"} THEN WakeUp(pc[u]) ELSE pc[u]]
      /\ UNCHANGED <<seq, recv_waiters, reply_sender_waiters, reply_receiver_waiters, closed,
                     returning, guards, lock_guards, gave_up>>
  BY DEF NotifyAll, inner, held
<1>3. ASSUME NEW u \in Thread
      PROVE  /\ pc'[u] \in Place
             /\ \/ u = t /\ pc'[u] = "idle"
                \/ pc[u] = "wait_on_reply" /\ pc'[u] = "woken_on_reply"
                \/ pc[u] = "wait_to_pump" /\ pc'[u] = "woken_to_pump"
                \/ pc'[u] = pc[u] /\ pc[u] # "wait_on_reply"
  BY <1>1, <1>2 DEF WakeUp, TypeOK, Place, Woken
<1>4. pc' \in [Thread -> Place]
  BY <1>2, <1>3
<1>5. /\ At(OnRecv)' = At(OnRecv) /\ At(InPump)' = At(InPump)
      /\ At({"wait_on_reply"})' = {}
  BY <1>2, <1>3 DEF At, OnRecv, InPump
<1>6. RecvWaitersCounted' /\ OnePumpWaiter'
  BY <1>1, <1>2, <1>5 DEF RecvWaitersCounted, OnePumpWaiter, OnRecv, InPump
<1>7. ReturnsLast'
  <2>1. SUFFICES ASSUME NEW u \in Thread, returning[u] # EmptyBag PROVE pc'[u] = "notify_recv"
    BY <1>2 DEF ReturnsLast
  <2>2. pc[u] = "notify_recv" /\ u # t
    BY <1>1, <1>2, <2>1 DEF ReturnsLast
  <2> QED
    BY <1>2, <2>2
<1>8. TypeOK'
  BY <1>1, <1>2, <1>4 DEF TypeOK
<1>9. ~closed' => Owned'
  BY <1>1, <1>2, OwnersUntouched, OwnedKept DEF SameReplies
<1>10. ReplyWakeUpDue'
  BY <1>5 DEF ReplyWakeUpDue
<1> QED
  BY <1>6, <1>7, <1>8, <1>9, <1>10 DEF IInv

\* Only the handler t may have moved, to notify_reply.
LEMMA NotifyReplyCounts ==
    ASSUME IInv, NEW t \in Thread, pc[t] = "idle", NotifyReply(t) \/ UNCHANGED <<pc, reply_sender_waiters>>,
           UNCHANGED <<recv_waiters, reply_receiver_waiters, returning>>
    PROVE  /\ pc' \in [Thread -> Place] /\ reply_sender_waiters' \in BOOLEAN
           /\ RecvWaitersCounted' /\ OnePumpWaiter' /\ ReturnsLast'
<1> DEFINE p == pc'[t]
<1>1. TypeOK /\ RecvWaitersCounted /\ OnePumpWaiter /\ ReturnsLast
  BY DEF IInv
<1>2. p \in {"idle", "notify_reply"} /\ Goto(t, p) /\ reply_sender_waiters' \in BOOLEAN
  BY <1>1 DEF NotifyReply, Goto, TypeOK
<1> HIDE DEF p
<1>3. p \in Place /\ p \notin OnRecv /\ p \notin InPump /\ pc[t] \notin OnRecv /\ pc[t] \notin InPump
  BY <1>2 DEF Place, OnRecv, InPump
<1>4. recv_waiters \in Nat /\ reply_receiver_waiters \in BOOLEAN
  BY <1>1 DEF TypeOK
<1>5. /\ recv_waiters' = (recv_waiters - (IF pc[t] \in OnRecv THEN 1 ELSE 0))
                            + (IF p \in OnRecv THEN 1 ELSE 0)
      /\ reply_receiver_waiters' = (p \in InPump \/ (reply_receiver_waiters /\ pc[t] \notin InPump))
  BY <1>3, <1>4
<1>6. RecvWaitersCounted' /\ OnePumpWaiter' /\ ReturnsLast'
  BY <1>1, <1>2, <1>3, <1>5, CountsMove
<1>7. pc' \in [Thread -> Place]
  BY <1>1, <1>2, <1>3 DEF TypeOK, Goto
<1> QED
  BY <1>2, <1>6, <1>7

\* A guard is consumed: with the reservation goes its owner, and the lock goes or stays with
\* the SeqCstGuard.
LEMMA ConsumesOwned ==
    ASSUME TypeOK, Owned, ~closed, NEW t \in Thread, NEW g \in ReplyGuard, NEW unlock \in BOOLEAN,
           Consumes(t, g, unlock)
    PROVE  Owned'
<1> DEFINE n == g.reply_no
           c == g.is_holding_lock
           oT(r) == Owners(r, TRUE)
           oF(r) == Owners(r, FALSE)
<1>1. n \in SeqNo /\ c \in BOOLEAN /\ g = Guard(n, c) /\ seq \in SeqExState
      /\ lock_guards \in Nat
  BY GuardFacts DEF TypeOK
<1>2. /\ BagIn(g, guards) /\ guards' = guards (-) SetToBag({g}) /\ UNCHANGED returning
      /\ Reserved(seq, n) =>
            /\ seq'.concurrent_replies = RemoveReservation(seq, n).concurrent_replies
            /\ seq'.is_locked = (seq.is_locked /\ ~unlock)
      /\ \/ unlock = c /\ lock_guards' = lock_guards
         \/ c = TRUE /\ unlock = FALSE /\ lock_guards' = lock_guards + 1
  BY <1>1 DEF Consumes
<1>3. \A r \in SeqNo, b \in BOOLEAN :
        Owners(r, b)' = Owners(r, b) - (IF Guard(r, b) = g THEN 1 ELSE 0)
  BY <1>2, OwnersConsumed
<1>4. \A r \in SeqNo, b \in BOOLEAN : Guard(r, b) = g <=> r = n /\ b = c
  BY <1>1, GuardFacts
<1>5. /\ \A r \in SeqNo : oT(r) \in Nat /\ oF(r) \in Nat
      /\ IF c THEN oT(n) > 0 ELSE oF(n) > 0
  BY <1>1, <1>2, OwnersType
<1>6. \A r \in SeqNo : /\ oT(r)' = oT(r) - (IF r = n /\ c = TRUE THEN 1 ELSE 0)
                       /\ oF(r)' = oF(r) - (IF r = n /\ c = FALSE THEN 1 ELSE 0)
  BY <1>3, <1>4
<1>7. \A r \in SeqNo : oT(r) + oF(r) = Reservations(seq, r)
  BY DEF Owned, ReservationsOwned
<1>8. \/ ~seq.is_locked /\ lock_guards = 0 /\ \A r \in SeqNo : oT(r) = 0
      \/ seq.is_locked /\ lock_guards = 1 /\ \A r \in SeqNo : oT(r) = 0
      \/ /\ seq.is_locked /\ lock_guards = 0
         /\ \E q \in SeqNo : oT(q) = 1 /\ \A r \in SeqNo \ {q} : oT(r) = 0
  BY DEF Owned, OneHolder
<1> HIDE DEF n, c, oT, oF
<1>9. Reserved(seq, n)
  <2>1. Reservations(seq, n) > 0
    BY <1>1, <1>5, <1>7
  <2> QED
    BY <1>1, <2>1, ReservationsType
<1>10. \A r \in SeqNo : oT(r)' + oF(r)' = Reservations(seq', r)
  <2>1. SUFFICES ASSUME NEW r \in SeqNo PROVE oT(r)' + oF(r)' = Reservations(seq', r)
    OBVIOUS
  <2>2. Reservations(seq', r) = Reservations(seq, r) - (IF r = n THEN 1 ELSE 0)
    <3>1. Reservations(seq', r) = Reservations(RemoveReservation(seq, n), r)
      BY <1>2, <1>9 DEF Reservations
    <3> QED
      BY <1>1, <1>9, <3>1, ReservationsRemoved
  <2>3. CASE r = n
    BY <1>1, <1>5, <1>6, <1>7, <2>2, <2>3
  <2>4. CASE r # n
    BY <1>5, <1>6, <1>7, <2>2, <2>4
  <2> QED
    BY <2>3, <2>4
<1>11. seq'.is_locked = (seq.is_locked /\ ~unlock)
  BY <1>2, <1>9
<1>12. \/ ~seq'.is_locked /\ lock_guards' = 0 /\ \A r \in SeqNo : oT(r)' = 0
       \/ seq'.is_locked /\ lock_guards' = 1 /\ \A r \in SeqNo : oT(r)' = 0
       \/ /\ seq'.is_locked /\ lock_guards' = 0
          /\ \E q \in SeqNo : oT(q)' = 1 /\ \A r \in SeqNo \ {q} : oT(r)' = 0
  <2>1. CASE c = FALSE
    <3>1. \A r \in SeqNo : oT(r)' = oT(r)
      BY <1>5, <1>6, <2>1
    <3>2. unlock = FALSE /\ lock_guards' = lock_guards
      BY <1>2, <2>1
    <3>3. seq'.is_locked <=> seq.is_locked
      BY <1>11, <3>2
    <3> QED
      BY <1>8, <3>1, <3>2, <3>3
  <2>2. CASE c = TRUE
    <3>1. seq.is_locked /\ lock_guards = 0 /\ oT(n) = 1 /\ \A r \in SeqNo \ {n} : oT(r) = 0
      BY <1>1, <1>5, <1>8, <2>2
    <3>2. \A r \in SeqNo : oT(r)' = 0
      BY <1>6, <2>2, <3>1
    <3>3. CASE unlock = TRUE
      BY <1>2, <1>11, <2>2, <3>1, <3>2, <3>3
    <3>4. CASE unlock = FALSE
      <4>1. seq'.is_locked
        BY <1>11, <3>1, <3>4
      <4>2. lock_guards' = 0 + 1
        BY <1>2, <2>2, <3>1, <3>4
      <4> QED
        BY <3>2, <4>1, <4>2
    <3> QED
      BY <3>3, <3>4
  <2> QED
    BY <1>1, <2>1, <2>2
<1>13. ReservationsOwned'
  BY <1>10 DEF ReservationsOwned, oT, oF
<1>14. OneHolder'
  BY <1>12 DEF OneHolder, oT
<1> QED
  BY <1>13, <1>14 DEF Owned

\* ReplyGuard::unlock gives the lock back and keeps the reservation.
LEMMA UnlocksOwned ==
    ASSUME TypeOK, Owned, NEW t \in Thread, NEW g \in ReplyGuard, UnlockGuard(t, g)
    PROVE  Owned'
<1> DEFINE n == g.reply_no
           k == Guard(n, FALSE)
           oT(r) == Owners(r, TRUE)
           oF(r) == Owners(r, FALSE)
<1>1. n \in SeqNo /\ g = Guard(n, TRUE) /\ seq \in SeqExState
      /\ [g EXCEPT !.is_holding_lock = FALSE] = k
  <2>1. n \in SeqNo /\ seq \in SeqExState /\ g.is_holding_lock = TRUE
    BY GuardFacts DEF TypeOK, UnlockGuard
  <2>2. g = Guard(n, TRUE)
    BY <2>1, GuardFacts
  <2>3. [g EXCEPT !.is_holding_lock = FALSE] = k
    <3> DEFINE h == [g EXCEPT !.is_holding_lock = FALSE]
    <3>1. h \in ReplyGuard /\ h.reply_no = n /\ h.is_holding_lock = FALSE
      BY DEF ReplyGuard
    <3> HIDE DEF h
    <3>2. h = Guard(h.reply_no, h.is_holding_lock)
      BY <3>1, GuardFacts
    <3>3. h = k
      BY <3>1, <3>2
    <3> QED
      BY <3>3 DEF h
  <2> QED
    BY <2>1, <2>2, <2>3
<1>2. /\ BagIn(g, guards) /\ guards' = (guards (-) SetToBag({g})) (+) SetToBag({k})
      /\ returning' = returning /\ lock_guards' = lock_guards /\ seq' = UnlockRaw(seq)
  BY <1>1 DEF UnlockGuard
<1>3. \A r \in SeqNo, b \in BOOLEAN :
        Owners(r, b)' = (Owners(r, b) - OneIf(Guard(r, b), g)) + OneIf(Guard(r, b), k)
  <2> HIDE DEF n, k, oT, oF
  <2> QED
    BY <1>2, OwnersUnlocked
<1>4. \A r \in SeqNo, b \in BOOLEAN : /\ Guard(r, b) = g <=> r = n /\ b = TRUE
                                      /\ Guard(r, b) = k <=> r = n /\ b = FALSE
  <2> HIDE DEF n, oT, oF
  <2>1. SUFFICES ASSUME NEW r \in SeqNo, NEW b \in BOOLEAN
                 PROVE  /\ Guard(r, b) = g <=> r = n /\ b = TRUE
                        /\ Guard(r, b) = k <=> r = n /\ b = FALSE
    OBVIOUS
  <2>2. Guard(r, b) = Guard(n, TRUE) <=> r = n /\ b = TRUE
    BY <1>1, GuardEqual
  <2>3. Guard(r, b) = Guard(n, FALSE) <=> r = n /\ b = FALSE
    BY <1>1, GuardEqual
  <2> QED
    BY <1>1, <2>2, <2>3, Zenon
<1>5. (\A r \in SeqNo : oT(r) \in Nat /\ oF(r) \in Nat) /\ oT(n) > 0
  BY <1>1, <1>2, OwnersType
<1>6. \A r \in SeqNo : /\ oT(r)' = (oT(r) - (IF r = n THEN 1 ELSE 0)) + 0
                       /\ oF(r)' = (oF(r) - 0) + (IF r = n THEN 1 ELSE 0)
  BY <1>3, <1>4 DEF OneIf
<1>7. \A r \in SeqNo : oT(r) + oF(r) = Reservations(seq, r)
  BY DEF Owned, ReservationsOwned
<1>8. /\ lock_guards = 0
      /\ \E q \in SeqNo : oT(q) = 1 /\ \A r \in SeqNo \ {q} : oT(r) = 0
  <2>1. \/ lock_guards \in {0, 1} /\ \A r \in SeqNo : oT(r) = 0
        \/ /\ lock_guards = 0
           /\ \E q \in SeqNo : oT(q) = 1 /\ \A r \in SeqNo \ {q} : oT(r) = 0
    BY DEF Owned, OneHolder
  <2> HIDE DEF n, oT
  <2> QED
    BY <1>1, <1>5, <2>1
<1>9. seq'.is_locked = FALSE /\ seq'.concurrent_replies = seq.concurrent_replies
  BY <1>1, <1>2, UnlockRawType
<1> HIDE DEF n, oT, oF
<1>10. \A r \in SeqNo : oT(r)' = 0 /\ oT(r)' + oF(r)' = Reservations(seq', r)
  <2>1. SUFFICES ASSUME NEW r \in SeqNo
                 PROVE  oT(r)' = 0 /\ oT(r)' + oF(r)' = Reservations(seq', r)
    OBVIOUS
  <2>2. Reservations(seq', r) = Reservations(seq, r)
    BY <1>9 DEF Reservations
  <2>3. oT(r) = IF r = n THEN 1 ELSE 0
    BY <1>1, <1>5, <1>8
  <2> QED
    BY <1>5, <1>6, <1>7, <2>2, <2>3
<1>11. ReservationsOwned'
  BY <1>10 DEF ReservationsOwned, oT, oF
<1>12. OneHolder'
  BY <1>2, <1>8, <1>9, <1>10 DEF OneHolder, oT
<1> QED
  BY <1>11, <1>12 DEF Owned

\* Drop for SeqCstGuard gives the lock back.
LEMMA DropsLockOwned ==
    ASSUME TypeOK, Owned, NEW t \in Thread, DropLockGuard(t)
    PROVE  Owned'
<1>1. /\ lock_guards > 0 /\ lock_guards' = lock_guards - 1 /\ seq' = UnlockRaw(seq)
      /\ UNCHANGED <<guards, returning>>
  BY DEF DropLockGuard
<1>2. /\ seq'.is_locked = FALSE /\ seq'.concurrent_replies = seq.concurrent_replies
  BY <1>1, UnlockRawType DEF TypeOK
<1>3. \A r \in SeqNo, b \in BOOLEAN : Owners(r, b)' = Owners(r, b)
  BY <1>1, OwnersUntouched
<1>4. /\ \A r \in SeqNo : Owners(r, TRUE)' = Owners(r, TRUE)
      /\ \A r \in SeqNo : Owners(r, FALSE)' = Owners(r, FALSE)
  BY <1>3
<1>5. \A r \in SeqNo : Reservations(seq', r) = Reservations(seq, r)
  BY <1>2 DEF Reservations
<1>6. ReservationsOwned'
  BY <1>4, <1>5 DEF Owned, ReservationsOwned
<1>7. lock_guards = 1 /\ \A r \in SeqNo : Owners(r, TRUE) = 0
  <2>1. lock_guards # 0
    BY <1>1
  <2> QED
    BY <2>1 DEF Owned, OneHolder
<1>8. ~seq'.is_locked /\ lock_guards' = 0
  BY <1>1, <1>2, <1>7
<1>9. OneHolder'
  BY <1>4, <1>7, <1>8 DEF OneHolder
<1> QED
  BY <1>6, <1>9 DEF Owned

\* The handler's steps.
LEMMA HandlerStep ==
    ASSUME IInv, NEW t \in Thread,
           \/ \E g \in ReplyGuard, unlock \in BOOLEAN : Consumes(t, g, unlock)
           \/ \E g \in ReplyGuard : UnlockGuard(t, g)
           \/ DropLockGuard(t)
    PROVE  IInv'
<1>1. /\ TypeOK /\ (~closed => Owned) /\ (CAP > 2 => ReplyWakeUpDue)
      /\ seq \in SeqExState /\ lock_guards \in Nat /\ IsABag(guards)
      /\ BagToSet(guards) \subseteq ReplyGuard
  BY DEF IInv, TypeOK
<1>2. ASSUME pc[t] = "idle", NotifyReply(t) \/ UNCHANGED <<pc, reply_sender_waiters>>,
             UNCHANGED <<recv_waiters, reply_receiver_waiters, closed, returning, gave_up>>,
             seq' \in SeqExState, lock_guards' \in Nat,
             IsABag(guards') /\ BagToSet(guards') \subseteq ReplyGuard,
             ~closed => Owned', CAP > 2 => ReplyWakeUpDue'
      PROVE  IInv'
  <2>1. /\ pc' \in [Thread -> Place] /\ reply_sender_waiters' \in BOOLEAN
        /\ RecvWaitersCounted' /\ OnePumpWaiter' /\ ReturnsLast'
    BY <1>2, NotifyReplyCounts
  <2>2. TypeOK'
    BY <1>1, <1>2, <2>1 DEF TypeOK
  <2> QED
    BY <1>2, <2>1, <2>2 DEF IInv
<1>3. ASSUME pc[t] = "idle", NotifyReply(t) PROVE CAP > 2 => ReplyWakeUpDue'
  BY <1>1, <1>3, WakeUpNotified
<1>4. ASSUME NEW g \in ReplyGuard, NEW unlock \in BOOLEAN, Consumes(t, g, unlock) PROVE IInv'
  <2>1. IsABag(guards') /\ BagToSet(guards') \subseteq ReplyGuard
    BY <1>1, <1>4, BagTakeOne DEF Consumes
  <2>2. ~closed => Owned'
    BY <1>1, <1>4, ConsumesOwned
  <2>3. CASE NotifyReply(t) /\ lock_guards' = lock_guards
    BY <1>1, <1>2, <1>3, <1>4, <2>1, <2>2, <2>3 DEF Consumes
  <2>4. CASE lock_guards' = lock_guards + 1 /\ UNCHANGED <<pc, reply_sender_waiters>>
    <3>1. SomeoneWillNotify'
      BY <1>1, <2>4 DEF SomeoneWillNotify
    <3>2. At({"wait_on_reply"})' = At({"wait_on_reply"})
          /\ At({"notify_reply"})' = At({"notify_reply"})
      BY <2>4 DEF At
    <3>3. CAP > 2 => ReplyWakeUpDue'
      BY <1>1, <2>4, <3>1, <3>2 DEF ReplyWakeUpDue
    <3> QED
      BY <1>1, <1>2, <1>4, <2>1, <2>2, <2>4, <3>3 DEF Consumes
  <2> QED
    BY <1>4, <2>3, <2>4 DEF Consumes
<1>5. ASSUME NEW g \in ReplyGuard, UnlockGuard(t, g) PROVE IInv'
  <2> DEFINE k == [g EXCEPT !.is_holding_lock = FALSE]
             rest == guards (-) SetToBag({g})
  <2>1. BagIn(g, guards) /\ guards' = rest (+) SetToBag({k}) /\ seq' = UnlockRaw(seq)
        /\ pc[t] = "idle" /\ NotifyReply(t)
        /\ UNCHANGED <<recv_waiters, reply_receiver_waiters, closed, returning, lock_guards, gave_up>>
    BY <1>5 DEF UnlockGuard
  <2>2. k \in ReplyGuard
    BY DEF ReplyGuard
  <2>3. IsABag(rest) /\ BagToSet(rest) \subseteq BagToSet(guards)
    BY <1>1, <2>1, BagTakeOne
  <2> HIDE DEF rest, k
  <2>4. IsABag(guards') /\ BagToSet(guards') = BagToSet(rest) \cup {k}
    BY <2>1, <2>3, BagAddOne
  <2>5. seq' \in SeqExState
    BY <1>1, <2>1, UnlockRawType
  <2>6. ~closed => Owned'
    BY <1>1, <1>5, UnlocksOwned
  <2> QED
    BY <1>1, <1>2, <1>3, <2>1, <2>2, <2>3, <2>4, <2>5, <2>6
<1>6. ASSUME DropLockGuard(t) PROVE IInv'
  <2>1. seq' = UnlockRaw(seq) /\ lock_guards > 0 /\ lock_guards' = lock_guards - 1
    BY <1>6 DEF DropLockGuard
  <2>2. seq' \in SeqExState /\ lock_guards' \in Nat
    <3>1. seq' \in SeqExState
      BY <1>1, <2>1, UnlockRawType
    <3>2. lock_guards' \in Nat
      BY <1>1, <2>1
    <3> QED
      BY <3>1, <3>2
  <2>3. ~closed => Owned'
    BY <1>1, <1>6, DropsLockOwned
  <2> QED
    BY <1>1, <1>2, <1>3, <1>6, <2>2, <2>3 DEF DropLockGuard
<1> QED
  BY <1>4, <1>5, <1>6

----------------------------------------------------------------------------
(* The theorems.                                                           *)

LEMMA InitIInv == Init => IInv
<1> SUFFICES ASSUME Init PROVE IInv
  OBVIOUS
<1>1. /\ seq = NewSeqEx /\ recv_waiters = 0 /\ reply_sender_waiters = FALSE
      /\ reply_receiver_waiters = FALSE /\ closed = FALSE
      /\ pc = [t \in Thread |-> "idle"] /\ returning = [t \in Thread |-> EmptyBag]
      /\ guards = EmptyBag /\ lock_guards = 0 /\ gave_up = FALSE
  BY DEF Init
<1>2. TypeOK
  <2>1. seq \in SeqExState
    BY <1>1, NewSeqExType
  <2>2. "idle" \in Place
    BY DEF Place
  <2> QED
    BY <1>1, <2>1, <2>2, ReturningFacts DEF TypeOK
<1>3. \A places : "idle" \notin places => At(places) = {}
  BY <1>1 DEF At
<1>4. Cardinality({}) = 0
  BY FS_EmptySet
<1>5. RecvWaitersCounted /\ OnePumpWaiter /\ ReturnsLast /\ ReplyWakeUpDue
  BY <1>1, <1>3, <1>4 DEF RecvWaitersCounted, OnePumpWaiter, ReturnsLast, ReplyWakeUpDue
<1>6. ASSUME NEW r \in SeqNo, NEW b \in BOOLEAN PROVE Owners(r, b) = 0
  <2>1. {t \in Thread : BagIn(Guard(r, b), returning[t])} = {}
    BY <1>1, ReturningFacts
  <2>2. Copies(Guard(r, b), guards) = 0
    BY <1>1, ReturningFacts DEF Copies
  <2>3. Owners(r, b) = 0 + 0
    BY <1>4, <2>1, <2>2 DEF Owners
  <2> QED
    BY <2>3
<1>7. seq.is_locked = FALSE /\ \A r \in SeqNo : Reservations(seq, r) = 0
  <2>1. seq.concurrent_replies = << >> /\ seq.is_locked = FALSE
    BY <1>1, NewSeqExType
  <2>2. ASSUME NEW r PROVE {i \in DOMAIN seq.concurrent_replies : seq.concurrent_replies[i] = r} = {}
    BY <2>1
  <2> QED
    BY <1>4, <2>1, <2>2 DEF Reservations
<1>8. Owned
  <2>1. ReservationsOwned
    <3>1. SUFFICES ASSUME NEW r \in SeqNo
                   PROVE  Owners(r, TRUE) + Owners(r, FALSE) = Reservations(seq, r)
      BY DEF ReservationsOwned
    <3> DEFINE a == Owners(r, TRUE)
               b == Owners(r, FALSE)
    <3>2. a = 0 /\ b = 0 /\ Reservations(seq, r) = 0
      BY <1>6, <1>7
    <3> HIDE DEF a, b
    <3>3. a + b = Reservations(seq, r)
      BY <3>2
    <3> QED
      BY <3>3 DEF a, b
  <2>2. OneHolder
    BY <1>1, <1>6, <1>7 DEF OneHolder
  <2> QED
    BY <2>1, <2>2 DEF Owned
<1> QED
  BY <1>2, <1>5, <1>8 DEF IInv

LEMMA NextIInv == IInv /\ [Next]_vars => IInv'
<1> SUFFICES ASSUME IInv, [Next]_vars PROVE IInv'
  OBVIOUS
<1>1. CASE Next
  <2>1. TypeOK
    BY DEF IInv
  <2>2. PICK t \in Thread :
            \/ Wake(t) \/ NotifyOne(t) \/ NotifyAll(t)
            \/ Sends(t)
            \/ \E expired \in BOOLEAN : Fail(t, expired)
            \/ \E n \in SeqNo, c \in BOOLEAN : Delivers(t, n, c)
            \/ ReturnsNone(t)
            \/ \E p \in Place : Receives(t, p)
            \/ \E g \in ReplyGuard, unlock \in BOOLEAN : Consumes(t, g, unlock)
            \/ \E g \in ReplyGuard : UnlockGuard(t, g)
            \/ DropLockGuard(t)
    BY <1>1, <2>1, StepKinds
  <2>3. CASE Wake(t)
    BY <2>3, WakeStep
  <2>4. CASE NotifyOne(t)
    BY <2>4, NotifyOneStep
  <2>5. CASE NotifyAll(t)
    BY <2>5, NotifyAllStep
  <2>6. CASE Sends(t)
    BY <2>6, SendsStep
  <2>7. CASE \E expired \in BOOLEAN : Fail(t, expired)
    BY <2>7, FailStep
  <2>8. CASE \E n \in SeqNo, c \in BOOLEAN : Delivers(t, n, c)
    BY <2>8, DeliversStep
  <2>9. CASE ReturnsNone(t)
    BY <2>9, ReturnsNoneStep
  <2>10. CASE \E p \in Place : Receives(t, p)
    BY <2>10, ReceivesStep
  <2>11. CASE \/ \E g \in ReplyGuard, unlock \in BOOLEAN : Consumes(t, g, unlock)
              \/ \E g \in ReplyGuard : UnlockGuard(t, g)
              \/ DropLockGuard(t)
    BY <2>11, HandlerStep
  <2> QED
    BY <2>2, <2>3, <2>4, <2>5, <2>6, <2>7, <2>8, <2>9, <2>10, <2>11
<1>2. CASE UNCHANGED vars
  <2>1. UNCHANGED <<seq, recv_waiters, reply_sender_waiters, reply_receiver_waiters, closed, pc,
                    returning, guards, lock_guards, gave_up>>
    BY <1>2 DEF vars, inner, held
  <2>2. \A places : At(places)' = At(places)
    BY <2>1 DEF At
  <2>3. TypeOK' /\ RecvWaitersCounted' /\ OnePumpWaiter' /\ ReturnsLast'
    BY <2>1, <2>2 DEF IInv, TypeOK, RecvWaitersCounted, OnePumpWaiter, ReturnsLast
  <2>4. ~closed' => Owned'
    BY <2>1, OwnersUntouched, OwnedKept DEF IInv, SameReplies
  <2>5. CAP > 2 => ReplyWakeUpDue'
    BY <2>1, <2>2 DEF IInv, ReplyWakeUpDue, SomeoneWillNotify
  <2> QED
    BY <2>3, <2>4, <2>5 DEF IInv
<1> QED
  BY <1>1, <1>2

\* The inductive invariant holds, whatever the threads do and in whatever order.
THEOREM Invariance == Spec => []IInv
<1> QED
  BY InitIInv, NextIInv, PTL DEF Spec

\* Every variable keeps its type: in particular recv_waiters never underflows.
THEOREM TypeCorrect == Spec => []TypeOK
<1>1. IInv => TypeOK
  BY DEF IInv
<1> QED
  BY <1>1, Invariance, PTL

\* recv_waiters counts the senders that are in wait_on_recv or on their way back from it,
\* so notify_recv overlooks none of them.
THEOREM WaitersAlwaysCounted == Spec => []RecvWaitersCounted
<1>1. IInv => RecvWaitersCounted
  BY DEF IInv
<1> QED
  BY <1>1, Invariance, PTL

\* At most one thread waits in pump, and reply_receiver_waiters says whether one does.
THEOREM OnlyOneInPump == Spec => []OnePumpWaiter
<1>1. IInv => OnePumpWaiter
  BY DEF IInv
<1> QED
  BY <1>1, Invariance, PTL

\* Who owns the reservations and who the lock, as GuardsMatch counts them.
LEMMA OwnedMatches ==
    ASSUME TypeOK, ~closed => Owned
    PROVE  GuardsMatch
<1> SUFFICES ASSUME ~closed PROVE GuardsMatch
  BY DEF GuardsMatch
<1> DEFINE oT(r) == Owners(r, TRUE)
           locking == {r \in SeqNo : oT(r) > 0}
<1>1. \A r \in SeqNo : Owners(r, TRUE) + Owners(r, FALSE)
        = Cardinality({i \in DOMAIN seq.concurrent_replies : seq.concurrent_replies[i] = r})
  BY DEF Owned, ReservationsOwned, Reservations
<1>2. \/ ~seq.is_locked /\ lock_guards = 0 /\ \A r \in SeqNo : oT(r) = 0
      \/ seq.is_locked /\ lock_guards = 1 /\ \A r \in SeqNo : oT(r) = 0
      \/ /\ seq.is_locked /\ lock_guards = 0
         /\ \E q \in SeqNo : oT(q) = 1 /\ \A r \in SeqNo \ {q} : oT(r) = 0
  BY DEF Owned, OneHolder
<1> HIDE DEF oT
<1>3. /\ Cardinality(locking) + lock_guards = IF seq.is_locked THEN 1 ELSE 0
      /\ \A r \in locking : oT(r) = 1
  <2>1. CASE lock_guards = (IF seq.is_locked THEN 1 ELSE 0) /\ \A r \in SeqNo : oT(r) = 0
    <3>1. locking = {}
      BY <2>1
    <3>2. Cardinality(locking) = 0
      BY <3>1, FS_EmptySet
    <3> HIDE DEF locking
    <3> QED
      BY <2>1, <3>1, <3>2
  <2>2. ASSUME seq.is_locked, lock_guards = 0,
               NEW q \in SeqNo, oT(q) = 1, \A r \in SeqNo \ {q} : oT(r) = 0
        PROVE  /\ Cardinality(locking) + lock_guards = IF seq.is_locked THEN 1 ELSE 0
               /\ \A r \in locking : oT(r) = 1
    <3>1. locking = {q}
      BY <2>2
    <3>2. Cardinality(locking) = 1
      BY <3>1, FS_Singleton
    <3> HIDE DEF locking
    <3> QED
      BY <2>2, <3>1, <3>2
  <2> QED
    BY <1>2, <2>1, <2>2
<1> QED
  BY <1>1, <1>3 DEF GuardsMatch, oT

\* Until closed, every reservation has exactly one guard, and the SeqCst lock exactly one
\* owner, so that the asserts of unlock and of the drops of guards hold.
THEOREM OneGuardPerReservation == Spec => []GuardsMatch
<1>1. IInv => GuardsMatch
  BY OwnedMatches DEF IInv
<1> QED
  BY <1>1, Invariance, PTL

\* With more than two slots, no sender waits on wait_on_reply without a notify_all on its way
\* or a guard that somebody holds or is about to be given.
THEOREM ReplyWakeUpNeverLost ==
    ASSUME CAP > 2
    PROVE  Spec => []ReplyWakeUpDue
<1>1. IInv => ReplyWakeUpDue
  BY DEF IInv
<1> QED
  BY <1>1, Invariance, PTL
=============================================================================
