-------------------------------- MODULE Tokio --------------------------------
(***************************************************************************)
(* The async wrapper of src/tokio.rs: one SeqEx behind a mutex, the two    *)
(* Notify objects wait_on_recv and wait_on_reply, a oneshot channel for    *)
(* each call of send, reply or receive that awaits a packet, and the       *)
(* service task with its update queue.  The tasks of Senders call send and *)
(* reply, those of Receivers call receive, and Handlers consume guards     *)
(* without awaiting anything.  What a task does under the mutex is one     *)
(* step; a notification is a step of its own, made with the mutex          *)
(* released, and so is the creation of the future that awaits one.  Any    *)
(* future may be dropped where it awaits.                                  *)
(*                                                                         *)
(* The data of a packet in a window is the task whose oneshot channel is   *)
(* stored with it: a task has one call at a time, so this names the        *)
(* channel.  It is Nobody once the receiving half of the channel is gone.  *)
(*                                                                         *)
(* The remote peer sends the packets of Remote, each any number of times,  *)
(* and acks what it does not reply to; what is sent to it is left out.     *)
(* Time stands still at 0: whether a timer has run out is a choice.        *)
(***************************************************************************)
EXTENDS SeqEx, Bags

CONSTANTS
    Senders, Receivers, Handlers,  \* the tasks, by what they call
    Droppable,   \* the tasks whose futures may be dropped
    Remote,      \* the packets of the remote peer
    SeqCstModes, \* the values of the seq_cst argument the application uses
    MaxPackets,  \* bound: no call that sends starts after this many
    MaxWaiters,  \* bound: nor when recv_waiters, which counts dropped futures too, is this
    QueueSize,   \* the capacity of update_queue
    Nobody       \* in the place of a task whose future was dropped

Task == Senders \cup Receivers \cup Handlers

RemotePacket == [seq_no : SeqNo, reply_no : OptSeqNo, seq_cst : BOOLEAN]
ASSUME TaskAssumption == /\ IsFiniteSet(Task) /\ Droppable \subseteq Task
                         /\ Nobody \notin Task /\ Data = Task \cup {Nobody}
ASSUME RemoteAssumption == Remote \subseteq RemotePacket /\ SeqCstModes \subseteq BOOLEAN
ASSUME NumberAssumption == MaxPackets \in Nat /\ MaxWaiters \in Nat /\ QueueSize \in Nat \ {0}

VARIABLES
    seq, recv_waiters, reply_waiters,  \* SeqExInner
    permit,       \* wait_on_recv holds a permit: a notification nobody was waiting for
    updates,      \* update_queue
    service_ts,   \* ServiceState::next_service_timestamp
    pc,           \* pc[t]: where task t is, "idle" outside of any call
    resume,       \* resume[t]: where t goes on after its notifications
    waking,       \* waking[t]: how many more calls of notify_one t makes
    result,       \* result[t]: what the channel of t holds, or t is about to return
    guards,       \* the ReplyGuards the application holds, a bag
    lock_guards,  \* how many SeqCstGuards it holds
    leaked,       \* guards in channels whose receiving half was dropped since, a bag
    sent_as,      \* history: the number of the packet that the call of t has sent
    missed,       \* history: a notify_waiters came before the future that should await it
    collapsed,    \* history: a notify_one was merged with the permit of another
    forgotten     \* history: a future was dropped before it queued its update

inner   == <<seq, recv_waiters, reply_waiters>>
service == <<updates, service_ts>>
flow    == <<pc, resume, waking>>
held    == <<guards, lock_guards, leaked>>
history == <<sent_as, missed, collapsed, forgotten>>
vars    == <<inner, permit, service, flow, result, held, history>>

\* What a call returns: a guard (with the data), or why there is none.
Guard(reply_no, is_holding_lock) ==
    [tag |-> "Guard", reply_no |-> reply_no, is_holding_lock |-> is_holding_lock]
Pending       == [tag |-> "Pending"]
EndOfExchange == [tag |-> "EndOfExchange"]
SeqExClosed   == [tag |-> "SeqExClosed"]
ReplyGuard == [tag : {"Guard"}, reply_no : SeqNo, is_holding_lock : BOOLEAN]
Result     == ReplyGuard \cup {Pending, EndOfExchange, SeqExClosed}

\* Where a future may be dropped, and where the mutex has just been released.
Awaits == {"queue", "await", "wait_on_recv", "wait_on_reply", "woken_on_recv", "woken_on_reply"}
Place  == {"idle", "gap_recv", "gap_reply", "notify_recv", "notify_reply", "return"}
          \cup Awaits

Init ==
    /\ seq = NewSeqEx
    /\ recv_waiters = 0 /\ reply_waiters = FALSE /\ permit = FALSE
    /\ updates = << >> /\ service_ts = MaxTime
    /\ pc = [t \in Task |-> "idle"]
    /\ resume = [t \in Task |-> "idle"]
    /\ waking = [t \in Task |-> 0]
    /\ result = [t \in Task |-> Pending]
    /\ guards = EmptyBag /\ lock_guards = 0 /\ leaked = EmptyBag
    /\ sent_as = [t \in Task |-> None]
    /\ missed = FALSE /\ collapsed = FALSE /\ forgotten = FALSE

\* Task t is at a place, and has no notification to make before it goes on.
Goto(t, place) == pc' = [pc EXCEPT ![t] = place] /\ UNCHANGED <<resume, waking>>
At(places) == {t \in Task : pc[t] \in places}

----------------------------------------------------------------------------
\* tokio::sync::Notify::notify_one, with the tasks at the places "now": one that waits
\* wakes; if none does, the next one that comes to wait will not have to.
NotifyOneOf(now) ==
    LET waiting == {u \in Task : now[u] = "wait_on_recv"}
    IN  IF waiting = {}
        THEN pc' = now /\ permit' = TRUE /\ collapsed' = (collapsed \/ permit)
        ELSE /\ \E u \in waiting : pc' = [now EXCEPT ![u] = "woken_on_recv"]
             /\ UNCHANGED <<permit, collapsed>>

\* The loop at the end of receive_inner: one of its calls of notify_one.
NotifyOne(t) ==
    /\ pc[t] = "notify_recv"
    /\ NotifyOneOf([pc EXCEPT ![t] = IF waking[t] = 1 THEN resume[t] ELSE @])
    /\ waking' = [waking EXCEPT ![t] = @ - 1]
    /\ resume' = [resume EXCEPT ![t] = IF waking[t] = 1 THEN "idle" ELSE @]
    /\ UNCHANGED <<inner, service, result, held, sent_as, missed, forgotten>>

\* notify_reply, with the mutex released: notify_waiters wakes the futures that exist.
NotifyWaiters(t) ==
    /\ pc[t] = "notify_reply"
    /\ pc' = [u \in Task |-> IF u = t THEN resume[t]
                             ELSE IF pc[u] = "wait_on_reply" THEN "woken_on_reply" ELSE pc[u]]
    /\ resume' = [resume EXCEPT ![t] = "idle"]
    /\ missed' = (missed \/ (At({"gap_reply"}) # {} /\ ~reply_waiters))
    /\ UNCHANGED <<inner, permit, service, waking, result, held, sent_as, collapsed, forgotten>>

\* send_with creates and polls the future that awaits the notification.
Wait(t) ==
    /\ \/ pc[t] = "gap_recv" /\ Goto(t, IF permit THEN "woken_on_recv" ELSE "wait_on_recv")
       \/ pc[t] = "gap_reply" /\ Goto(t, "wait_on_reply")
    /\ permit' = (permit /\ pc[t] # "gap_recv")
    /\ UNCHANGED <<inner, service, result, held, history>>

\* Mistakes: only one sender is woken, or as many as packets came, even if fewer wait.
WakeSenders_One(t, total_recv, place) ==
    LET to_wake == Min({recv_waiters, 1})
    IN  /\ recv_waiters' = recv_waiters - Min({recv_waiters, total_recv})
        /\ waking' = [waking EXCEPT ![t] = to_wake]
        /\ pc' = [pc EXCEPT ![t] = IF to_wake > 0 THEN "notify_recv" ELSE place]
        /\ resume' = [resume EXCEPT ![t] = IF to_wake > 0 THEN place ELSE "idle"]
WakeSenders_Unchecked(t, total_recv, place) ==
    /\ recv_waiters' = recv_waiters - total_recv
    /\ waking' = [waking EXCEPT ![t] = total_recv]
    /\ pc' = [pc EXCEPT ![t] = "notify_recv"]
    /\ resume' = [resume EXCEPT ![t] = place]
\* The end of receive_inner under the mutex: how many senders to wake.
WakeSenders(t, total_recv, place) ==
    LET to_wake == Min({recv_waiters, total_recv})
    IN  /\ recv_waiters' = recv_waiters - to_wake
        /\ waking' = [waking EXCEPT ![t] = to_wake]
        /\ pc' = [pc EXCEPT ![t] = IF to_wake > 0 THEN "notify_recv" ELSE place]
        /\ resume' = [resume EXCEPT ![t] = IF to_wake > 0 THEN place ELSE "idle"]

\* A mistake: the flag is cleared before it is read.
NotifyReply_ClearsFirst(t, place) == reply_waiters' = FALSE /\ Goto(t, place)
\* notify_reply under the mutex.
NotifyReply(t, place) ==
    /\ reply_waiters' = FALSE
    /\ pc' = [pc EXCEPT ![t] = IF reply_waiters THEN "notify_reply" ELSE place]
    /\ resume' = [resume EXCEPT ![t] = IF reply_waiters THEN place ELSE "idle"]
    /\ UNCHANGED waking

----------------------------------------------------------------------------
\* How many sequence numbers have been given out.
Issued == Wrap(seq.next_send_seq_no - InitialSeqNo)

\* A mistake: the service task is told of every packet.
AfterSend_Always(after) == "queue"
\* After a packet is sent: the service task is told if its deadline has changed.
AfterSend(after) ==
    IF after.next_service_timestamp # seq.next_service_timestamp THEN "queue" ELSE "await"

(***************************************************************************)
(* One turn of the loop of send_with, up to the release of the mutex: send *)
(* with a fresh channel, or register as a waiter.                          *)
(***************************************************************************)
SendOrWait(t) ==
    LET full == IsFullInner(seq, None)
    IN  /\ \E c \in SeqCstModes :
            seq' = IF full = "Ok" THEN TrySend(seq, 0, c, t) ELSE seq
        /\ recv_waiters' = IF full = "WaitingForRecv" THEN recv_waiters + 1 ELSE recv_waiters
        /\ reply_waiters' = (reply_waiters \/ full = "WaitingForReply")
        /\ Goto(t, CASE full = "Ok" -> AfterSend(seq')
                     [] full = "WaitingForRecv" -> "gap_recv"
                     [] full = "WaitingForReply" -> "gap_reply")
        /\ sent_as' = [sent_as EXCEPT ![t] = IF full = "Ok" THEN seq.next_send_seq_no ELSE @]
        /\ UNCHANGED <<permit, service, result, held, missed, collapsed, forgotten>>

\* send, send_with
Send(t) ==
    /\ pc[t] = "idle"
    /\ Issued < MaxPackets /\ recv_waiters < MaxWaiters
    /\ SendOrWait(t)
\* ... and its next turn, once it has been notified.
Retry(t) == pc[t] \in {"woken_on_recv", "woken_on_reply"} /\ SendOrWait(t)

\* update_queue.send: while time stands still, this is the deadline that was set.
Queue(t) ==
    /\ pc[t] = "queue" /\ Len(updates) < QueueSize
    /\ updates' = Append(updates, ResendInterval)
    /\ Goto(t, "await")
    /\ UNCHANGED <<inner, permit, service_ts, result, held, history>>

\* A call returns what it has awaited, or what receive_inner has given it.
Return(t) ==
    /\ pc[t] \in {"await", "return"} /\ result[t] # Pending
    /\ Goto(t, "idle")
    /\ guards' = IF result[t] \in ReplyGuard THEN guards (+) SetToBag({result[t]}) ELSE guards
    /\ result' = [result EXCEPT ![t] = Pending]
    /\ sent_as' = [sent_as EXCEPT ![t] = None]
    /\ UNCHANGED <<inner, permit, service, lock_guards, leaked, missed, collapsed, forgotten>>

\* The channel of t has lost its receiver: its packet names nobody from now on.
Abandoned(t, e) == IF e.data = t THEN [e EXCEPT !.data = Nobody] ELSE e
Abandon(s, t) ==
    [s EXCEPT !.send_window = [i \in 0 .. CAP - 1 |->
                 IF @[i] = None THEN None ELSE Abandoned(t, @[i])],
              !.recv_window = [i \in 0 .. CAP - 1 |->
                 IF @[i].tag = "Occupied" THEN Abandoned(t, @[i]) ELSE @[i]]]

\* The future of a call is dropped where it awaits: what its channel holds is lost with it,
\* and a Notified that has been notified passes the notification on.
Cancel(t) ==
    LET gone == [pc EXCEPT ![t] = "idle"]
    IN  /\ t \in Droppable /\ pc[t] \in Awaits
        /\ IF pc[t] = "woken_on_recv" THEN NotifyOneOf(gone)
           ELSE pc' = gone /\ UNCHANGED <<permit, collapsed>>
        /\ seq' = Abandon(seq, t)
        /\ leaked' = IF result[t] \in ReplyGuard THEN leaked (+) SetToBag({result[t]}) ELSE leaked
        /\ result' = [result EXCEPT ![t] = Pending]
        /\ sent_as' = [sent_as EXCEPT ![t] = None]
        /\ forgotten' = (forgotten \/ pc[t] = "queue")
        /\ UNCHANGED <<recv_waiters, reply_waiters, service, resume, waking, guards, lock_guards,
                       missed>>

----------------------------------------------------------------------------
\* Is the receiving half of the channel of u still there?
Listens(u) == u # Nobody
\* oneshot::Sender::send; a sending half that is dropped leaves SeqExClosed.
Told(results, u, value) == IF Listens(u) THEN [results EXCEPT ![u] = value] ELSE results

\* The packet as receive passes it on: with the channel of t.
AsReceived(m, t) == [type |-> "Data", seq_no |-> m.seq_no, reply_no |-> m.reply_no,
                     seq_cst |-> m.seq_cst, data |-> t]

\* The result of the saved call whose packet is taken out of the receive window as m comes.
SavedCallClosed(s, m, results) ==
    LET e == s.recv_window[Idx(m.seq_no)]
    IN  IF e.tag = "Occupied" THEN Told(results, e.data, SeqExClosed) ELSE results

\* do_pump, what fast_forward returns: the packet next in order is saved.
NextIsSaved(s) == NextEntry(s).tag = "Occupied"

\* Mistakes: the guard of a packet nobody waits for is just forgotten; a reply goes to the
\* call that received it.
HandOver_NoAck(s, results, m, to) ==
    [seq |-> s, result |-> Told(results, to, Guard(m.seq_no, m.seq_cst))]
HandOver_ToReceiver(s, results, m, to) ==
    IF Listens(to) THEN [seq |-> s, result |-> Told(results, m.data, Guard(m.seq_no, m.seq_cst))]
    ELSE [seq |-> AckRaw(s, m.seq_no, m.seq_cst), result |-> results]
\* The packet m, issued in s, goes to the call of task "to", or it is acked if the future
\* of that call was dropped.
HandOver(s, results, m, to) ==
    IF Listens(to) THEN [seq |-> s, result |-> Told(results, to, Guard(m.seq_no, m.seq_cst))]
    ELSE [seq |-> AckRaw(s, m.seq_no, m.seq_cst), result |-> results]

(***************************************************************************)
(* A turn of the pump loop of receive_inner, from the state r of the loop: *)
(* a payload goes to the call of receive that it was saved for, a reply to *)
(* the call that sent what it replies to; its own call of receive then     *)
(* finds its channel closed.                                               *)
(***************************************************************************)
PumpTurn(r) ==
    LET m        == NextEntry(r.seq)
        s        == Pump(r.seq)
        sender   == TakenData(r.seq, m.reply_no)
        handed   == IF sender = None THEN HandOver(s, r.result, m, m.data)
                    ELSE HandOver(s, Told(r.result, m.data, SeqExClosed), m, sender)
    IN  [seq |-> handed.seq, result |-> handed.result,
         total_recv |-> r.total_recv + 1, do_pump |-> NextIsSaved(s)]

\* A mistake: every packet is followed by a turn of the pump loop at most.
PumpLoop_Once(start) ==
    IF start.do_pump /\ PumpOutcome(start.seq) = "Deliver" THEN PumpTurn(start) ELSE start
\* The pump loop: a turn takes a packet out of the receive window, so CAP turns are enough.
PumpLoop(start) ==
    LET Turn(r) == IF r.do_pump /\ PumpOutcome(r.seq) = "Deliver" THEN PumpTurn(r) ELSE r
        \* CHOOSE from the singleton: a value TLC computes once.
        after[k \in 0 .. CAP] ==
            IF k = 0 THEN start ELSE CHOOSE r \in {Turn(q) : q \in {after[k - 1]}} : TRUE
    IN  after[CAP]

\* receive of a packet that is delivered: pump first, then hand over the packet itself.
ReceiveDelivers(t, m) ==
    LET s      == Receive(seq, m)
        sender == TakenData(seq, m.reply_no)
        start  == [seq |-> s, result |-> SavedCallClosed(seq, m, result), total_recv |-> 1,
                   do_pump |-> IsNext(seq, m.seq_no) /\ NextIsSaved(s)]
    IN  /\ ReceiveOutcome(seq, m) = "Deliver"
        /\ \E r \in {PumpLoop(start)} :
            LET handed == HandOver(r.seq, r.result, m, IF sender = None THEN t ELSE sender)
            IN  /\ seq' = handed.seq
                /\ result' = handed.result
                /\ WakeSenders(t, r.total_recv, IF sender = None THEN "return" ELSE "idle")

\* receive of a packet that is not: it is saved with the channel of t, which t awaits, or
\* it is dropped and the call returns an error.
ReceiveRefuses(t, m) ==
    /\ ReceiveOutcome(seq, m) # "Deliver"
    /\ seq' = Receive(seq, m)
    /\ Goto(t, IF seq' = seq THEN "idle" ELSE "await")
    /\ UNCHANGED <<recv_waiters, result>>

\* What may arrive by now: the remote peer numbers its packets as it sends them, replies only
\* to what was sent, and sends no second copy of an unordered packet that was processed early
\* (that one would be handed over again, as the run exchange_exactly_once shows, for ever).
Nth(seq_no) == Wrap(seq_no - InitialSeqNo)
Arrives(m) ==
    /\ \A n \in Remote : Nth(n.seq_no) <= Nth(m.seq_no) /\ n.reply_no # None
        => Nth(n.reply_no) < Issued
    /\ ~m.seq_cst => seq.recv_window[Idx(m.seq_no)] # Unlocked(m.seq_no)
Acks(r) == Nth(r) < Issued /\ \A m \in Remote : m.reply_no # r

\* receive of a Payload or a Reply.
ReceiveData(t, m) ==
    /\ pc[t] = "idle" /\ Arrives(m)
    /\ ReceiveDelivers(t, AsReceived(m, t)) \/ ReceiveRefuses(t, AsReceived(m, t))
    /\ UNCHANGED <<reply_waiters, permit, service, held, history>>

\* receive of an Ack: the call that sent the packet learns that its exchange has ended.  One
\* that is not awaited is dropped.
ReceiveAck(t, r) ==
    /\ pc[t] = "idle"
    /\ SentEntry(seq, r) # None /\ Acks(r)
    /\ seq' = TakeSend(seq, r)
    /\ result' = Told(result, SentEntry(seq, r).data, EndOfExchange)
    /\ WakeSenders(t, 1, "idle")
    /\ UNCHANGED <<reply_waiters, permit, service, held, history>>

----------------------------------------------------------------------------
\* Task t takes guard g from the application and consumes it.
Consume(t, g, after) ==
    /\ pc[t] = "idle" /\ BagIn(g, guards)
    /\ guards' = guards (-) SetToBag({g})
    /\ seq' = after
    /\ UNCHANGED <<recv_waiters, permit, service, leaked, missed, collapsed, forgotten>>

\* ReplyGuard::reply, reply_with, up to its first await.
Reply(t, g, c) ==
    /\ Issued < MaxPackets
    /\ Consume(t, g, ReplyRaw(seq, 0, g.reply_no, g.is_holding_lock, c, t))
    /\ NotifyReply(t, AfterSend(seq'))
    /\ sent_as' = [sent_as EXCEPT ![t] = seq.next_send_seq_no]
    /\ UNCHANGED <<result, lock_guards>>

\* ReplyGuard::ack, with consume_lock: nobody is told of the guard that keeps the lock.
AckGuard(t, g) ==
    /\ Consume(t, g, AckRaw(seq, g.reply_no, FALSE))
    /\ IF g.is_holding_lock
       THEN lock_guards' = lock_guards + 1 /\ UNCHANGED <<flow, reply_waiters>>
       ELSE UNCHANGED lock_guards /\ NotifyReply(t, "idle")
    /\ UNCHANGED <<result, sent_as>>

\* A mistake: whoever waits for a guard to be consumed is not told.
DropGuard_Silent(t, g) ==
    /\ Consume(t, g, AckRaw(seq, g.reply_no, g.is_holding_lock))
    /\ UNCHANGED <<reply_waiters, flow, result, lock_guards, sent_as>>
\* Drop for ReplyGuard
DropGuard(t, g) ==
    /\ Consume(t, g, AckRaw(seq, g.reply_no, g.is_holding_lock))
    /\ NotifyReply(t, "idle")
    /\ UNCHANGED <<result, lock_guards, sent_as>>

\* ReplyGuard::unlock
UnlockGuard(t, g) ==
    /\ pc[t] = "idle" /\ BagIn(g, guards) /\ g.is_holding_lock
    /\ guards' = (guards (-) SetToBag({g})) (+) SetToBag({Guard(g.reply_no, FALSE)})
    /\ seq' = UnlockRaw(seq)
    /\ NotifyReply(t, "idle")
    /\ UNCHANGED <<recv_waiters, permit, service, result, lock_guards, leaked, history>>

\* Drop for SeqCstGuard
DropLockGuard(t) ==
    /\ pc[t] = "idle" /\ lock_guards > 0
    /\ lock_guards' = lock_guards - 1
    /\ seq' = UnlockRaw(seq)
    /\ NotifyReply(t, "idle")
    /\ UNCHANGED <<recv_waiters, permit, service, result, guards, leaked, history>>

----------------------------------------------------------------------------
\* service_task receives an update: its deadline moves forward ...
ServiceUpdate ==
    /\ updates # << >>
    /\ service_ts' = Min({service_ts, Head(updates)})
    /\ updates' = Tail(updates)
    /\ UNCHANGED <<inner, permit, flow, result, held, history>>

\* A mistake: the task sleeps until it is told of the next packet.
ServiceTimeout_Sleeps ==
    /\ service_ts < MaxTime
    /\ seq' = Service(seq, 0)
    /\ service_ts' = MaxTime
    /\ UNCHANGED <<recv_waiters, reply_waiters, permit, updates, flow, result, held, history>>
\* ... or its deadline comes: it resends what is due and adopts the deadline of SEQEX.
ServiceTimeout ==
    /\ service_ts < MaxTime
    /\ seq' = Service(seq, 0)
    /\ service_ts' = seq'.next_service_timestamp
    /\ UNCHANGED <<recv_waiters, reply_waiters, permit, updates, flow, result, held, history>>

\* A step of task t inside a call.
Step(t) == \/ NotifyOne(t) \/ NotifyWaiters(t) \/ Wait(t) \/ Retry(t)
           \/ Queue(t) \/ Return(t)

SendCalls == \E t \in Senders :
    \/ Send(t)
    \/ \E g \in BagToSet(guards), c \in SeqCstModes : Reply(t, g, c)
ReceiveCalls == \E t \in Receivers :
    \/ \E m \in Remote : ReceiveData(t, m)
    \/ \E r \in SeqNo : ReceiveAck(t, r)
HandlerCalls == \E t \in Handlers :
    \/ \E g \in BagToSet(guards) : AckGuard(t, g) \/ DropGuard(t, g) \/ UnlockGuard(t, g)
    \/ DropLockGuard(t)

Next == \/ SendCalls \/ ReceiveCalls \/ HandlerCalls
        \/ \E t \in Task : Step(t) \/ Cancel(t)
        \/ ServiceUpdate \/ ServiceTimeout

Spec == Init /\ [][Next]_vars

----------------------------------------------------------------------------
\* Who owns reply number r: guards of the application, and results of calls, those nobody
\* will read any more included.
Copies(g, bag) == IF BagIn(g, bag) THEN bag[g] ELSE 0
Owners(r, is_holding_lock) ==
    LET g == Guard(r, is_holding_lock)
    IN  Copies(g, guards) + Copies(g, leaked) + Cardinality({t \in Task : result[t] = g})

\* Every variable has its type.
TypeOK ==
    /\ seq \in SeqExState
    /\ recv_waiters \in Nat /\ lock_guards \in Nat
    /\ {reply_waiters, permit, missed, collapsed, forgotten} \subseteq BOOLEAN
    /\ updates \in Seq(Nat) /\ service_ts \in Nat
    /\ pc \in [Task -> Place] /\ resume \in [Task -> Place] /\ waking \in [Task -> Nat]
    /\ result \in [Task -> Result] /\ sent_as \in [Task -> OptSeqNo]
    /\ \A b \in {guards, leaked} : IsABag(b) /\ BagToSet(b) \subseteq ReplyGuard

\* Every reply number and the lock have one owner, whichever futures were dropped: a guard,
\* the result of a call, or nobody any more because SEQEX has acked the packet itself.
GuardsMatch ==
    LET locking == {r \in SeqNo : Owners(r, TRUE) > 0}
    IN  /\ \A r \in SeqNo : Owners(r, TRUE) + Owners(r, FALSE)
            = Cardinality({i \in DOMAIN seq.concurrent_replies : seq.concurrent_replies[i] = r})
        /\ Cardinality(locking) + lock_guards = IF seq.is_locked THEN 1 ELSE 0
        /\ \A r \in locking : Owners(r, TRUE) = 1

\* What a call that has sent a packet is handed is the reply to that packet, and it is told
\* that the exchange has ended only if there is none ("SEQEX will handle multiplexing each
\* reply to the correct awaiter").
RepliesMatch == \A t \in {u \in Task : sent_as[u] # None} :
    /\ result[t] \in ReplyGuard =>
        \E m \in Remote : m.seq_no = result[t].reply_no /\ m.reply_no = sent_as[t]
    /\ result[t] = EndOfExchange => \A m \in Remote : m.reply_no # sent_as[t]
    /\ result[t] # SeqExClosed

\* The calls of notify_one that are still to be made, each as its task and a number.
ToNotify == UNION {{t} \X (1 .. waking[t]) : t \in Task}

\* A sender that awaits its notification gets one: for each there is one still to be decided
\* on, one on its way or a permit, unless two were merged into one permit.
RecvWakeUpDue == ~collapsed =>
    Cardinality(At({"gap_recv", "wait_on_recv"}))
        <= recv_waiters + Cardinality(ToNotify) + (IF permit THEN 1 ELSE 0)

\* A sender awaits wait_on_reply only while notify_reply knows of it or is on its way, and
\* somebody is left to call that, be it only the owner of a leaked guard; unless it had
\* released the mutex but not created its future when notify_waiters was called.
SomeoneWillNotify == \/ BagToSet(guards (+) leaked) # {} \/ lock_guards > 0
                     \/ \E t \in Task : result[t] \in ReplyGuard
                     \/ At({"notify_reply"}) # {}
ReplyWakeUpDue == ~missed => (At({"wait_on_reply"}) # {} =>
    /\ reply_waiters \/ At({"notify_reply"}) # {}
    /\ SomeoneWillNotify)

\* While a packet waits in the send window the service task has a deadline, or is about to
\* be given one: no packet is left without resends, unless a future was dropped between.
ServiceScheduled == ~forgotten =>
    Min({service_ts} \cup {updates[i] : i \in DOMAIN updates}
        \cup {ResendInterval : t \in {u \in Task : "queue" \in {pc[u], resume[u]}}})
      <= seq.next_service_timestamp

\* At most one update is under way: update_queue is never full, so send never awaits it.
OneUpdate == Len(updates) + Cardinality({t \in Task : "queue" \in {pc[t], resume[t]}}) <= 1

----------------------------------------------------------------------------
\* What a comment in receive_inner says: "Send an ack if no one is receiving the reply on the
\* other end.  Could occur if the future holding the receiver is dropped."
AckedIfNobodyReceives == leaked = EmptyBag
=============================================================================
