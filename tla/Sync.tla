-------------------------------- MODULE Sync --------------------------------
(***************************************************************************)
(* The thread-safe wrapper of src/sync.rs: one SeqEx behind a mutex, with  *)
(* the condition variables wait_on_recv and wait_on_reply.  Senders block  *)
(* in send and send_timeout, receivers in receive and pump, and handlers   *)
(* consume the guards, call service and close.  What a thread does under   *)
(* the mutex is one step.  A notification is a step of its own, because    *)
(* notify_reply and notify_recv release the mutex before they notify.      *)
(*                                                                         *)
(* The remote peer sends the packets of Remote, each any number of times,  *)
(* and acks what it does not reply to; what is sent to it is left out.     *)
(* Time stands still, except that a send_timeout may find its time is up.  *)
(***************************************************************************)
EXTENDS SeqEx, Bags

CONSTANTS
    Senders, Receivers, Handlers,  \* the threads, by what they call
    TimedSenders,                  \* the senders that call send_timeout
    Remote,      \* the packets of the remote peer
    SeqCstModes, \* the values of the seq_cst argument the application uses
    MaxPackets   \* bound: no call that sends starts after this many

Thread == Senders \cup Receivers \cup Handlers

ASSUME ThreadAssumption == IsFiniteSet(Thread) /\ TimedSenders \subseteq Senders
ASSUME RemoteAssumption == Remote \subseteq DataPacket /\ SeqCstModes \subseteq BOOLEAN
ASSUME PacketsAssumption == MaxPackets \in Nat

VARIABLES
    seq, recv_waiters, reply_sender_waiters, reply_receiver_waiters, closed, \* SeqExInner
    pc,           \* pc[t]: where thread t is, "idle" outside of any call
    returning,    \* returning[t]: the guard that the call of t is about to return
    guards,       \* the ReplyGuards the application holds, a bag
    lock_guards,  \* how many SeqCstGuards it holds
    gave_up       \* history: a send_timeout has timed out

inner == <<seq, recv_waiters, reply_sender_waiters, reply_receiver_waiters, closed>>
held  == <<guards, lock_guards>>
vars  == <<inner, pc, returning, held, gave_up>>

ReplyGuard == [reply_no : SeqNo, is_holding_lock : BOOLEAN]
Waiting == {"wait_on_recv", "wait_on_reply", "wait_to_pump"}
Woken   == {"woken_on_recv", "woken_on_reply", "woken_to_pump"}
Place   == {"idle", "pump", "notify_recv", "notify_reply"} \cup Waiting \cup Woken

Init ==
    /\ seq = NewSeqEx
    /\ recv_waiters = 0 /\ reply_sender_waiters = FALSE /\ reply_receiver_waiters = FALSE
    /\ closed = FALSE
    /\ pc = [t \in Thread |-> "idle"]
    /\ returning = [t \in Thread |-> EmptyBag]
    /\ guards = EmptyBag /\ lock_guards = 0
    /\ gave_up = FALSE

Goto(t, place) == pc' = [pc EXCEPT ![t] = place]

----------------------------------------------------------------------------
\* std::sync::Condvar: what a thread that is notified, or wakes for no reason, goes on with.
WakeUp(place) == CASE place = "wait_on_recv"  -> "woken_on_recv"
                   [] place = "wait_on_reply" -> "woken_on_reply"
                   [] place = "wait_to_pump"  -> "woken_to_pump"
                   [] OTHER -> place

\* A wait may end without a notification, with its timeout or for no reason.
Wake(t) ==
    /\ pc[t] \in Waiting
    /\ Goto(t, WakeUp(pc[t]))
    /\ UNCHANGED <<inner, returning, held, gave_up>>

\* notify_recv: with the mutex released, one of the waiting senders wakes, if there is any ...
NotifyOne(t) ==
    /\ pc[t] = "notify_recv"
    /\ LET waiting == {u \in Thread : pc[u] = "wait_on_recv"}
       IN  \/ waiting = {} /\ Goto(t, "idle")
           \/ \E u \in waiting : pc' = [pc EXCEPT ![t] = "idle", ![u] = "woken_on_recv"]
    /\ guards' = guards (+) returning[t]
    /\ returning' = [returning EXCEPT ![t] = EmptyBag]
    /\ UNCHANGED <<inner, lock_guards, gave_up>>

\* ... notify_reply: everyone on wait_on_reply does, senders and the thread in pump.
NotifyAll(t) ==
    /\ pc[t] = "notify_reply"
    /\ pc' = [u \in Thread |->
                IF u = t THEN "idle"
                ELSE IF pc[u] \in {"wait_on_reply", "wait_to_pump"} THEN WakeUp(pc[u]) ELSE pc[u]]
    /\ UNCHANGED <<inner, returning, held, gave_up>>

\* A mistake: the last waiting sender is overlooked.
NotifyRecv_OffByOne(t, g) ==
    IF recv_waiters > 1
    THEN /\ Goto(t, "notify_recv")
         /\ returning' = [returning EXCEPT ![t] = g]
         /\ UNCHANGED guards
    ELSE /\ Goto(t, "idle")
         /\ guards' = guards (+) g
         /\ UNCHANGED returning

\* notify_recv, under the mutex, at the end of a call that returns the guard g, if any.
NotifyRecv(t, g) ==
    IF recv_waiters > 0
    THEN /\ Goto(t, "notify_recv")
         /\ returning' = [returning EXCEPT ![t] = g]
         /\ UNCHANGED guards
    ELSE /\ Goto(t, "idle")
         /\ guards' = guards (+) g
         /\ UNCHANGED returning

\* A mistake: a thread that waits in pump is not worth a notification.
NotifyReply_SendersOnly(t) ==
    /\ Goto(t, IF reply_sender_waiters THEN "notify_reply" ELSE "idle")
    /\ reply_sender_waiters' = FALSE
\* notify_reply, under the mutex.
NotifyReply(t) ==
    /\ Goto(t, IF reply_sender_waiters \/ reply_receiver_waiters THEN "notify_reply" ELSE "idle")
    /\ reply_sender_waiters' = FALSE

----------------------------------------------------------------------------
\* How many sequence numbers have been given out.
Issued == Wrap(seq.next_send_seq_no - InitialSeqNo)

(***************************************************************************)
(* The loop of send!: send, or wait for what is_full_inner says.  The      *)
(* caller comes here with "waiters" threads on wait_on_recv besides it.    *)
(***************************************************************************)
TrySendOrWait(t, waiters) ==
    LET full == IsFullInner(seq, None)
    IN  /\ \E c \in SeqCstModes, d \in Data :
            seq' = IF full = "Ok" THEN TrySend(seq, 0, c, d) ELSE seq
        /\ recv_waiters' = IF full = "WaitingForRecv" THEN waiters + 1 ELSE waiters
        /\ reply_sender_waiters' = (reply_sender_waiters \/ full = "WaitingForReply")
        /\ Goto(t, CASE full = "Ok" -> "idle"
                     [] full = "WaitingForRecv" -> "wait_on_recv"
                     [] full = "WaitingForReply" -> "wait_on_reply")
        /\ UNCHANGED <<reply_receiver_waiters, closed>>

\* send, send_with, send_timeout, send_with_timeout, and the calls of try_send and
\* try_send_with that succeed: one that fails changes nothing.
Send(t) ==
    /\ pc[t] = "idle" /\ ~closed
    /\ Issued < MaxPackets
    /\ TrySendOrWait(t, recv_waiters)
    /\ UNCHANGED <<returning, held, gave_up>>

\* Mistakes: recv_waiters goes down after either wait; it does not go down at all.
Waiters_Always(t) == recv_waiters - 1
Waiters_Never(t)  == recv_waiters
\* A sender has woken and holds the mutex again: the others on wait_on_recv.
Waiters(t) == IF pc[t] = "woken_on_recv" THEN recv_waiters - 1 ELSE recv_waiters

\* It tries again ...
Retry(t) ==
    /\ pc[t] \in {"woken_on_recv", "woken_on_reply"} /\ ~closed
    /\ TrySendOrWait(t, Waiters(t))
    /\ UNCHANGED <<returning, held, gave_up>>

\* ... or returns an error: closed, or out of time.
Fail(t, expired) ==
    /\ pc[t] \in {"woken_on_recv", "woken_on_reply"}
    /\ IF expired THEN t \in TimedSenders ELSE closed
    /\ recv_waiters' = Waiters(t)
    /\ Goto(t, "idle")
    /\ gave_up' = (gave_up \/ expired)
    /\ UNCHANGED <<seq, reply_sender_waiters, reply_receiver_waiters, closed, returning, held>>

----------------------------------------------------------------------------
\* RecvOk::from_raw: the guard that comes with packet m.
Guard(reply_no, is_holding_lock) == [reply_no |-> reply_no, is_holding_lock |-> is_holding_lock]
NewGuard(m) == SetToBag({Guard(m.seq_no, m.seq_cst)})

\* What may arrive by now: the remote peer numbers its packets as it sends them, replies only
\* to what was sent, and sends no second copy of an unordered packet that was processed early
\* (that one would be handed over again, as the run exchange_exactly_once shows, for ever).
Nth(seq_no) == Wrap(seq_no - InitialSeqNo)
Arrives(m) ==
    /\ \A n \in Remote : Nth(n.seq_no) <= Nth(m.seq_no) /\ n.reply_no # None
        => Nth(n.reply_no) < Issued
    /\ ~m.seq_cst => seq.recv_window[Idx(m.seq_no)] # Unlocked(m.seq_no)
Acks(r) == Nth(r) < Issued /\ \A m \in Remote : m.reply_no # r

\* try_receive of a Payload or a Reply, and receive (blocking), which goes on with pump.
ReceiveData(t, m, blocking) ==
    LET outcome == ReceiveOutcome(seq, m)
    IN  /\ pc[t] = "idle" /\ ~closed /\ Arrives(m)
        /\ seq' = Receive(seq, m)
        /\ IF outcome = "Deliver" THEN NotifyRecv(t, NewGuard(m))
           ELSE /\ Goto(t, IF outcome = "WaitingForReply" /\ blocking THEN "pump" ELSE "idle")
                /\ UNCHANGED <<returning, guards>>
        /\ UNCHANGED <<recv_waiters, reply_sender_waiters, reply_receiver_waiters, closed,
                       lock_guards, gave_up>>

\* try_receive and receive of an Ack: one that is not awaited is dropped.
ReceiveAck(t, r) ==
    /\ pc[t] = "idle" /\ ~closed
    /\ SentEntry(seq, r) # None /\ Acks(r)
    /\ seq' = TakeSend(seq, r)
    /\ NotifyRecv(t, EmptyBag)
    /\ UNCHANGED <<recv_waiters, reply_sender_waiters, reply_receiver_waiters, closed,
                   lock_guards, gave_up>>

\* The loop of pump: deliver, or return None, or wait until a guard is consumed.
TryPumpOrWait(t) ==
    LET outcome == PumpOutcome(seq)
    IN  /\ seq' = Pump(seq)
        /\ reply_receiver_waiters' = (outcome = "WaitingForReply")
        /\ IF outcome = "Deliver" THEN NotifyRecv(t, NewGuard(NextEntry(seq)))
           ELSE /\ Goto(t, IF outcome = "WaitingForReply" THEN "wait_to_pump" ELSE "idle")
                /\ UNCHANGED <<returning, guards>>
        /\ UNCHANGED <<recv_waiters, reply_sender_waiters, closed, lock_guards, gave_up>>

\* A mistake: pump does not look whether another thread waits in pump.
CallPump_AnyNumber(t) == pc[t] \in {"idle", "pump"} /\ TryPumpOrWait(t)

\* pump, called by the application, by RecvIter::next or by receive.
CallPump(t) ==
    /\ pc[t] \in {"idle", "pump"}
    /\ \/ ~reply_receiver_waiters /\ TryPumpOrWait(t)
       \/ /\ reply_receiver_waiters
          /\ Goto(t, "idle")
          /\ UNCHANGED <<inner, returning, held, gave_up>>

\* pump has woken and holds the mutex again.
RetryPump(t) == pc[t] = "woken_to_pump" /\ TryPumpOrWait(t)

\* try_pump, also called by RecvIter::next, when it has something to return.
TryPump(t) ==
    /\ pc[t] = "idle" /\ PumpOutcome(seq) = "Deliver"
    /\ seq' = Pump(seq)
    /\ NotifyRecv(t, NewGuard(NextEntry(seq)))
    /\ UNCHANGED <<recv_waiters, reply_sender_waiters, reply_receiver_waiters, closed,
                   lock_guards, gave_up>>

----------------------------------------------------------------------------
\* Handler t consumes guard g: once closed, SEQEX is not told.
Consume(t, g, after) ==
    /\ pc[t] = "idle" /\ BagIn(g, guards)
    /\ guards' = guards (-) SetToBag({g})
    /\ seq' = IF closed THEN seq ELSE after
    /\ UNCHANGED <<recv_waiters, reply_receiver_waiters, closed, returning, gave_up>>

\* consume_lock: a guard that holds the lock becomes a SeqCstGuard and nobody is told.
ConsumeLock(t, g) ==
    IF g.is_holding_lock
    THEN lock_guards' = lock_guards + 1 /\ UNCHANGED <<pc, reply_sender_waiters>>
    ELSE UNCHANGED lock_guards /\ NotifyReply(t)

\* ReplyGuard::reply_with, reply; once closed it is dropped instead.
Reply(t, g, c, d) ==
    /\ ~closed => Issued < MaxPackets
    /\ Consume(t, g, ReplyRaw(seq, 0, g.reply_no, g.is_holding_lock, c, d))
    /\ NotifyReply(t)
    /\ UNCHANGED lock_guards

\* ReplyGuard::reply_with_stay_locked, reply_stay_locked
ReplyStayLocked(t, g, c, d) ==
    /\ ~closed => Issued < MaxPackets
    /\ Consume(t, g, ReplyRaw(seq, 0, g.reply_no, FALSE, c, d))
    /\ ConsumeLock(t, g)

\* A mistake: ack gives the lock back, and hands out a SeqCstGuard all the same.
AckGuard_Unlocks(t, g) ==
    /\ Consume(t, g, AckRaw(seq, g.reply_no, g.is_holding_lock))
    /\ ConsumeLock(t, g)
\* ReplyGuard::ack
AckGuard(t, g) ==
    /\ Consume(t, g, AckRaw(seq, g.reply_no, FALSE))
    /\ ConsumeLock(t, g)

\* A mistake: once closed, nobody is told that a guard is gone.
DropGuard_SilentWhenClosed(t, g) ==
    /\ Consume(t, g, AckRaw(seq, g.reply_no, g.is_holding_lock))
    /\ IF closed THEN UNCHANGED <<pc, reply_sender_waiters>> ELSE NotifyReply(t)
    /\ UNCHANGED lock_guards
\* Drop for ReplyGuard
DropGuard(t, g) ==
    /\ Consume(t, g, AckRaw(seq, g.reply_no, g.is_holding_lock))
    /\ NotifyReply(t)
    /\ UNCHANGED lock_guards

\* ReplyGuard::unlock
UnlockGuard(t, g) ==
    /\ pc[t] = "idle" /\ BagIn(g, guards) /\ g.is_holding_lock
    /\ guards' = (guards (-) SetToBag({g})) (+) SetToBag({[g EXCEPT !.is_holding_lock = FALSE]})
    /\ seq' = UnlockRaw(seq)
    /\ NotifyReply(t)
    /\ UNCHANGED <<recv_waiters, reply_receiver_waiters, closed, returning, lock_guards,
                   gave_up>>

\* Drop for SeqCstGuard
DropLockGuard(t) ==
    /\ pc[t] = "idle" /\ lock_guards > 0
    /\ lock_guards' = lock_guards - 1
    /\ seq' = UnlockRaw(seq)
    /\ NotifyReply(t)
    /\ UNCHANGED <<recv_waiters, reply_receiver_waiters, closed, returning, guards, gave_up>>

\* service, and service_scheduled, which does nothing once closed.
ServiceCall(t) ==
    /\ pc[t] = "idle"
    /\ seq' = Service(seq, 0)
    /\ UNCHANGED <<recv_waiters, reply_sender_waiters, reply_receiver_waiters, closed, pc,
                   returning, held, gave_up>>

\* close
Close(t) ==
    /\ pc[t] = "idle"
    /\ closed' = TRUE
    /\ NotifyRecv(t, EmptyBag)
    /\ UNCHANGED <<seq, recv_waiters, reply_sender_waiters, reply_receiver_waiters,
                   lock_guards, gave_up>>

----------------------------------------------------------------------------
\* A step that a thread inside a call takes by itself.
Step(t) == \/ NotifyOne(t) \/ NotifyAll(t)
           \/ Retry(t) \/ \E expired \in BOOLEAN : Fail(t, expired)
           \/ pc[t] = "pump" /\ CallPump(t)
           \/ RetryPump(t)

\* An Ack or a reply arrives.
ReceiveAnswer(t) == \/ \E r \in SeqNo : ReceiveAck(t, r)
                    \/ \E m \in Remote : m.reply_no # None /\ ReceiveData(t, m, TRUE)
Release(t) == (\E g \in BagToSet(guards) : DropGuard(t, g)) \/ DropLockGuard(t)

SendCalls    == \E t \in Senders : Send(t)
ReceiveCalls == \E t \in Receivers :
    \/ \E m \in Remote, blocking \in BOOLEAN : ReceiveData(t, m, blocking)
    \/ \E r \in SeqNo : ReceiveAck(t, r)
    \/ pc[t] = "idle" /\ CallPump(t)
    \/ TryPump(t)
HandlerCalls == \E t \in Handlers :
    \/ \E g \in BagToSet(guards) :
        \/ \E c \in SeqCstModes, d \in Data : Reply(t, g, c, d) \/ ReplyStayLocked(t, g, c, d)
        \/ AckGuard(t, g) \/ DropGuard(t, g) \/ UnlockGuard(t, g)
    \/ DropLockGuard(t)
    \/ ServiceCall(t)
    \/ Close(t)

Next == \/ SendCalls \/ ReceiveCalls \/ HandlerCalls
        \/ \E t \in Thread : Step(t) \/ Wake(t)

Spec == Init /\ [][Next]_vars

(***************************************************************************)
(* A thread inside a call goes on and, as the docs ask of the application, *)
(* guards are consumed.  The remote peer is responsive and its packets are *)
(* fed to receive: what is sent to it is answered.                         *)
(***************************************************************************)
Fairness ==
    /\ \A t \in Thread : WF_vars(Step(t))
    /\ WF_vars(\E t \in Handlers : Release(t))
    /\ SF_vars(\E t \in Receivers : ReceiveAnswer(t))
FairSpec == Spec /\ Fairness

----------------------------------------------------------------------------
At(places) == {t \in Thread : pc[t] \in places}
InSend == {"wait_on_recv", "woken_on_recv", "wait_on_reply", "woken_on_reply"}

\* Every variable has its type.
TypeOK ==
    /\ seq \in SeqExState
    /\ recv_waiters \in Nat /\ lock_guards \in Nat
    /\ {reply_sender_waiters, reply_receiver_waiters, closed, gave_up} \subseteq BOOLEAN
    /\ pc \in [Thread -> Place]
    /\ returning \in [Thread -> {EmptyBag} \cup {SetToBag({g}) : g \in ReplyGuard}]
    /\ IsABag(guards) /\ BagToSet(guards) \subseteq ReplyGuard

\* recv_waiters counts the senders that have not come back from wait_on_recv, however
\* their wait ended (it never underflows, and notify_recv never overlooks one).
RecvWaitersCounted == recv_waiters = Cardinality(At({"wait_on_recv", "woken_on_recv"}))

\* reply_receiver_waiters is set exactly while a thread waits in pump, and one at most does
\* ("Enforce that only one thread may wait to pump at a time").
OnePumpWaiter == Cardinality(At({"wait_to_pump", "woken_to_pump"}))
                    = IF reply_receiver_waiters THEN 1 ELSE 0

\* No wake-up is lost on wait_on_reply: a sender waits there only while its flag is set or a
\* notify_all is on its way, and while there is somebody left to call notify_reply.
SomeoneWillNotify == \/ BagToSet(guards) # {} \/ lock_guards > 0
                     \/ \E t \in Thread : BagToSet(returning[t]) # {}
                     \/ At({"notify_reply"}) # {}
ReplyWakeUpDue == At({"wait_on_reply"}) # {} =>
    /\ reply_sender_waiters \/ At({"notify_reply"}) # {}
    /\ SomeoneWillNotify

\* Who owns reply number r: the application, and the calls that are about to return a guard.
Copies(g, bag) == IF BagIn(g, bag) THEN bag[g] ELSE 0
Owners(r, is_holding_lock) ==
    LET g == Guard(r, is_holding_lock)
    IN  Copies(g, guards) + Cardinality({t \in Thread : BagIn(g, returning[t])})

\* Until closed, SEQEX and the application agree on what is out: each reservation has its
\* guard, and one guard is in the critical section exactly if is_locked ("It is guaranteed
\* at this point for SeqEx to be locked because it was locked on guard creation").
GuardsMatch == ~closed =>
    LET locking == {r \in SeqNo : Owners(r, TRUE) > 0}
    IN  /\ \A r \in SeqNo : Owners(r, TRUE) + Owners(r, FALSE)
            = Cardinality({i \in DOMAIN seq.concurrent_replies : seq.concurrent_replies[i] = r})
        /\ Cardinality(locking) + lock_guards = IF seq.is_locked THEN 1 ELSE 0
        /\ \A r \in locking : Owners(r, TRUE) = 1

\* No thread in send waits forever, for an answer of the remote peer or for a guard.  There
\* are two exceptions, both in wait_on_recv: close wakes one thread only, and a send_timeout
\* that has timed out may have swallowed the notification (sync_close, sync_timeout).
SendReturns == \A t \in Senders \ TimedSenders : (pc[t] \in InSend) ~>
    (pc[t] \notin InSend \/ (pc[t] = "wait_on_recv" /\ (closed \/ gave_up)))

\* Until closed, the thread that waits in pump, which is the only one and turns the others
\* away, returns.  (Once closed, a guard that is consumed gives nothing back that pump could
\* wait for.)
PumpReturns == reply_receiver_waiters ~> (~reply_receiver_waiters \/ closed)

----------------------------------------------------------------------------
\* What the documentation of close says: "This function causes all threads currently
\* waiting for the remote peer to send an ack to unblock and return an error."
CloseUnblocksSenders == \A t \in Senders : (closed /\ pc[t] = "wait_on_recv") ~> (pc[t] = "idle")

\* What the documentation of send says, as long as nobody closes: "If the either send or
\* receive window is full, this function will block until they are not."
BlocksUntilNotFull == \A t \in Senders \ TimedSenders :
    (pc[t] = "wait_on_recv" /\ IsFullInner(seq, None) = "Ok")
        ~> (pc[t] # "wait_on_recv" \/ IsFullInner(seq, None) # "Ok" \/ closed)
=============================================================================
