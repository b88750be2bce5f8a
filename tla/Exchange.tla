----------------------------- MODULE Exchange -----------------------------
(***************************************************************************)
(* Two peers, each with one SeqEx, exchange packets through the wrapper of *)
(* src/single_thread.rs over a transport that delays, reorders, duplicates *)
(* and loses them: what was sent stays in net, to be received any number   *)
(* of times, until it is lost.  The application holds ReplyGuards and      *)
(* SeqCstGuards, any number at a time (a guard can be parked with          *)
(* to_components).  The history variables sent, delivered and acked record *)
(* what the two applications saw, for the properties.                      *)
(*                                                                         *)
(* Time stands still at 0 and ResendInterval is 0, so that every packet in *)
(* a send window is always due; Endpoint is about the timer.               *)
(***************************************************************************)
EXTENDS SeqEx

CONSTANTS
    Peer,         \* the two ends
    MaxPayloads,  \* bound: payloads each peer starts, [Peer -> Nat]
    MaxReplies,   \* bound: replies each peer gives, [Peer -> Nat]
    MaxDeliveries,\* bound: packets handed to the application of each peer
    MaxLosses,    \* bound: packets the transport loses
    SeqCstModes   \* the values of the seq_cst argument the application uses

ASSUME PeerAssumption == \E a, b \in Peer : a # b /\ Peer = {a, b}
ASSUME BoundAssumption ==
    /\ MaxPayloads \in [Peer -> Nat] /\ MaxReplies \in [Peer -> Nat]
    /\ MaxDeliveries \in Nat /\ MaxLosses \in Nat /\ SeqCstModes \subseteq BOOLEAN
    /\ \A p \in Peer : 1 .. MaxPayloads[p] + MaxReplies[p] \subseteq Data

VARIABLES
    seq,          \* seq[p]: the SeqEx of p
    net,          \* net[p]: the packets on their way to p
    guards,       \* guards[p]: the ReplyGuards p holds
    lock_guards,  \* lock_guards[p]: how many SeqCstGuards p holds
    sent,         \* sent[p]: what p sent, the packet with data d is sent[p][d]
    delivered,    \* delivered[p]: what was handed to the application of p
    acked,        \* acked[p]: the data p got back with an Ack
    losses,       \* how many packets the transport has lost
    repeated      \* history: a second copy of a packet that was processed early was processed too
vars == <<seq, net, guards, lock_guards, sent, delivered, acked, losses, repeated>>

Other(p) == CHOOSE q \in Peer : q # p

\* A ReplyGuard; ord says which delivery it was issued with.
Guard(reply_no, is_holding_lock, ord) ==
    [reply_no |-> reply_no, is_holding_lock |-> is_holding_lock, ord |-> ord]

Payloads(p) == {d \in DOMAIN sent[p] : sent[p][d].reply_to = None}
Replies(p)  == DOMAIN sent[p] \ Payloads(p)

Init ==
    /\ seq = [p \in Peer |-> NewSeqEx]
    /\ net = [p \in Peer |-> {}]
    /\ guards = [p \in Peer |-> {}]
    /\ lock_guards = [p \in Peer |-> 0]
    /\ sent = [p \in Peer |-> << >>]
    /\ delivered = [p \in Peer |-> << >>]
    /\ acked = [p \in Peer |-> {}]
    /\ losses = 0 /\ repeated = FALSE

\* TransportLayer::send, to the other peer.
Transmit(p, packets) == net' = [net EXCEPT ![Other(p)] = @ \cup packets]

----------------------------------------------------------------------------
\* try_send: an application that is refused tries again later.
Send(p, seq_cst) ==
    LET d == Len(sent[p]) + 1
    IN  /\ Cardinality(Payloads(p)) < MaxPayloads[p]
        /\ CanSend(seq[p])
        /\ seq' = [seq EXCEPT ![p] = TrySend(@, 0, seq_cst, d)]
        /\ Transmit(p, {ToPacket(NewEntry(seq[p], 0, None, seq_cst, d))})
        /\ sent' = [sent EXCEPT ![p] = Append(@, [reply_to |-> None, seq_cst |-> seq_cst])]
        /\ UNCHANGED <<guards, lock_guards, delivered, acked, losses, repeated>>

\* RecvOk::from_raw: the application gets the data, what it replies to, and a guard.
Deliver(p, m) ==
    /\ Len(delivered[p]) < MaxDeliveries
    /\ delivered' = [delivered EXCEPT ![p] =
                        Append(@, [data |-> m.data, link |-> TakenData(seq[p], m.reply_no)])]
    /\ guards' = [guards EXCEPT ![p] = @ \cup {Guard(m.seq_no, m.seq_cst, Len(delivered[p]) + 1)}]

\* A copy of an unordered packet that was processed early and is not yet passed.
IsRepeat(s, m) == s.recv_window[Idx(m.seq_no)] = Unlocked(m.seq_no)

\* receive of a Payload or a Reply, whatever becomes of it.
ReceiveData(p, m) ==
    LET outcome == ReceiveOutcome(seq[p], m)
    IN  /\ m.type = "Data"
        /\ seq' = [seq EXCEPT ![p] = Receive(@, m)]
        /\ IF outcome = "Deliver" THEN Deliver(p, m) ELSE UNCHANGED <<delivered, guards>>
        /\ repeated' = (repeated \/ (outcome = "Deliver" /\ IsRepeat(seq[p], m)))
        /\ Transmit(p, IF outcome = "DroppedDuplicateResendAck" THEN {Ack(m.seq_no)} ELSE {})
        /\ UNCHANGED <<lock_guards, sent, acked, losses>>

\* receive of an Ack.
ReceiveAck(p, m) ==
    LET d == TakenData(seq[p], m.reply_no)
    IN  /\ m.type = "Ack"
        /\ seq' = [seq EXCEPT ![p] = TakeSend(@, m.reply_no)]
        /\ acked' = [acked EXCEPT ![p] = IF d = None THEN @ ELSE @ \cup {d}]
        /\ UNCHANGED <<net, guards, lock_guards, sent, delivered, losses, repeated>>

\* try_pump, when there is something to pump.
PumpNext(p) ==
    /\ PumpOutcome(seq[p]) = "Deliver"
    /\ seq' = [seq EXCEPT ![p] = Pump(@)]
    /\ Deliver(p, NextEntry(seq[p]))
    /\ UNCHANGED <<net, lock_guards, sent, acked, losses, repeated>>

----------------------------------------------------------------------------
\* reply_raw for guard g, and what it leaves on the wire and in the history.
ReplyTo(p, g, unlock, seq_cst) ==
    LET d == Len(sent[p]) + 1
        ok == Reserved(seq[p], g.reply_no)
        reply_to == delivered[p][g.ord].data
    IN  /\ Cardinality(Replies(p)) < MaxReplies[p]
        /\ seq' = [seq EXCEPT ![p] = ReplyRaw(@, 0, g.reply_no, unlock, seq_cst, d)]
        /\ Transmit(p, IF ok THEN {ToPacket(NewEntry(seq[p], 0, g.reply_no, seq_cst, d))} ELSE {})
        /\ sent' = [sent EXCEPT ![p] = Append(@, [reply_to |-> reply_to, seq_cst |-> seq_cst])]
        /\ guards' = [guards EXCEPT ![p] = @ \ {g}]

\* ack_raw for guard g.
AckTo(p, g, unlock) ==
    /\ seq' = [seq EXCEPT ![p] = AckRaw(@, g.reply_no, unlock)]
    /\ Transmit(p, IF Reserved(seq[p], g.reply_no) THEN {Ack(g.reply_no)} ELSE {})
    /\ guards' = [guards EXCEPT ![p] = @ \ {g}]

\* consume_lock: a guard that held the lock becomes a SeqCstGuard.
ConsumeLock(p, g) ==
    lock_guards' = [lock_guards EXCEPT ![p] = @ + (IF g.is_holding_lock THEN 1 ELSE 0)]

\* ReplyGuard::reply, reply_with
Reply(p, g, seq_cst) ==
    /\ g \in guards[p]
    /\ ReplyTo(p, g, g.is_holding_lock, seq_cst)
    /\ UNCHANGED <<lock_guards, delivered, acked, losses, repeated>>

\* ReplyGuard::reply_stay_locked, reply_with_stay_locked
ReplyStayLocked(p, g, seq_cst) ==
    /\ g \in guards[p]
    /\ ReplyTo(p, g, FALSE, seq_cst)
    /\ ConsumeLock(p, g)
    /\ UNCHANGED <<delivered, acked, losses, repeated>>

\* ReplyGuard::ack
AckGuard(p, g) ==
    /\ g \in guards[p]
    /\ AckTo(p, g, FALSE)
    /\ ConsumeLock(p, g)
    /\ UNCHANGED <<sent, delivered, acked, losses, repeated>>

\* Drop for ReplyGuard
DropGuard(p, g) ==
    /\ g \in guards[p]
    /\ AckTo(p, g, g.is_holding_lock)
    /\ UNCHANGED <<lock_guards, sent, delivered, acked, losses, repeated>>

\* ReplyGuard::unlock
UnlockGuard(p, g) ==
    /\ g \in guards[p] /\ g.is_holding_lock
    /\ seq' = [seq EXCEPT ![p] = UnlockRaw(@)]
    /\ guards' = [guards EXCEPT ![p] = (@ \ {g}) \cup {[g EXCEPT !.is_holding_lock = FALSE]}]
    /\ UNCHANGED <<net, lock_guards, sent, delivered, acked, losses, repeated>>

\* Drop for SeqCstGuard
DropLockGuard(p) ==
    /\ lock_guards[p] > 0
    /\ seq' = [seq EXCEPT ![p] = UnlockRaw(@)]
    /\ lock_guards' = [lock_guards EXCEPT ![p] = @ - 1]
    /\ UNCHANGED <<net, guards, sent, delivered, acked, losses, repeated>>

----------------------------------------------------------------------------
\* service: send again everything that is due.
Resend(p) ==
    /\ Resent(seq[p], 0) # {}
    /\ seq' = [seq EXCEPT ![p] = Service(@, 0)]
    /\ Transmit(p, Resent(seq[p], 0))
    /\ UNCHANGED <<guards, lock_guards, sent, delivered, acked, losses, repeated>>

\* The transport loses a packet, or the last copy of it.
Lose(p, m) ==
    /\ losses < MaxLosses
    /\ m \in net[p]
    /\ losses' = losses + 1
    /\ net' = [net EXCEPT ![p] = @ \ {m}]
    /\ UNCHANGED <<seq, guards, lock_guards, sent, delivered, acked, repeated>>

ReceiveAny(p) == \E m \in net[p] : ReceiveData(p, m) \/ ReceiveAck(p, m)
Release(p) == \/ \E g \in guards[p] : DropGuard(p, g)
              \/ DropLockGuard(p)

Next == \E p \in Peer :
    \/ \E c \in SeqCstModes : Send(p, c)
    \/ ReceiveAny(p)
    \/ PumpNext(p)
    \/ \E g \in guards[p] :
        \/ \E c \in SeqCstModes : Reply(p, g, c) \/ ReplyStayLocked(p, g, c)
        \/ AckGuard(p, g) \/ DropGuard(p, g) \/ UnlockGuard(p, g)
    \/ DropLockGuard(p)
    \/ Resend(p)
    \/ \E m \in net[p] : Lose(p, m)

Spec == Init /\ [][Next]_vars

(***************************************************************************)
(* The wrapper runs nothing by itself.  Its documentation asks the caller  *)
(* to feed it every packet that arrives, to call service when the timer    *)
(* ends and to consume every guard: that is the fairness, with a transport *)
(* that stops losing packets at some point.  Nobody has to pump: a caller  *)
(* may have been told that there is nothing to pump when it last asked.    *)
(***************************************************************************)
Fairness == \A p \in Peer :
    /\ WF_vars(ReceiveAny(p))
    /\ WF_vars(Release(p))
    /\ WF_vars(Resend(p))
FairSpec == Spec /\ Fairness

----------------------------------------------------------------------------
\* The data still in the send window of p.
InFlight(p) == {seq[p].send_window[i].data : i \in {j \in 0 .. CAP - 1 : seq[p].send_window[j] # None}}
\* The data handed to the application of p so far.
Seen(p) == {delivered[p][i].data : i \in DOMAIN delivered[p]}

Sent == [reply_to : Data \cup {None}, seq_cst : BOOLEAN]
Delivered == [data : Data, link : Data \cup {None}]

\* Every variable has its type; in particular each peer's record is a SeqExState.
TypeOK ==
    /\ seq \in [Peer -> SeqExState]
    /\ net \in [Peer -> SUBSET Packet]
    /\ \A p \in Peer : \A g \in guards[p] :
        g \in [reply_no : SeqNo, is_holding_lock : BOOLEAN, ord : DOMAIN delivered[p]]
    /\ lock_guards \in [Peer -> Nat]
    /\ sent \in [Peer -> Seq(Sent)]
    /\ delivered \in [Peer -> Seq(Delivered)]
    /\ acked \in [Peer -> SUBSET Data]
    /\ losses \in 0 .. MaxLosses /\ repeated \in BOOLEAN

\* At most one guard of a peer is inside the SeqCst critical section, and is_locked
\* says whether one is (the double-unlock assertions of reply_raw_and_direct and
\* ack_raw_and_direct, and debug_assert!(!self.is_locked) on delivery).
SeqCstExclusive == \A p \in Peer :
    Cardinality({g \in guards[p] : g.is_holding_lock}) + lock_guards[p]
        = IF seq[p].is_locked THEN 1 ELSE 0

\* Whatever was sent before a SeqCst packet is handed to the application before it,
\* and the SeqCst packet itself is handed over once (the guarantee of SeqCstPayload).
SeqCstInOrder == \A p \in Peer : \A i \in DOMAIN delivered[p] :
    LET d == delivered[p][i].data
        before == {delivered[p][j].data : j \in 1 .. i - 1}
    IN  sent[Other(p)][d].seq_cst => (1 .. d - 1 \subseteq before /\ d \notin before)

\* A packet leaves the send window only after the remote application has got it:
\* no loss, no resend of a stale packet and no stray ack ever makes SEQEX forget one.
Lossless == \A p \in Peer : \A d \in DOMAIN sent[p] :
    d \in InFlight(p) \/ d \in Seen(Other(p))

\* While an application still holds the guard of a packet, the peer that sent it keeps
\* waiting for the answer: a late duplicate never makes WillReply's absence ack it.
AnswerAwaited == \A p \in Peer : \A g \in guards[p] :
    delivered[p][g.ord].data \in InFlight(Other(p))

\* Both ends agree on what a packet replies to: links never get crossed or cut, until a packet
\* is repeated.
LinksAgree == ~repeated => \A p \in Peer : \A i \in DOMAIN delivered[p] :
    delivered[p][i].link = sent[Other(p)][delivered[p][i].data].reply_to

\* An exchange that one peer sees ended by an Ack was seen by the other, which will
\* not and did not reply to it.
EndsAgree == \A p \in Peer : \A d \in acked[p] :
    /\ d \in Seen(Other(p))
    /\ \A k \in DOMAIN sent[Other(p)] : sent[Other(p)][k].reply_to # d

\* No packet is handed to the application twice.
ExactlyOnce == \A p \in Peer : \A i, j \in DOMAIN delivered[p] :
    delivered[p][i].data = delivered[p][j].data => i = j

\* Only a packet processed early, whose second copy comes before it is passed, is handed over
\* again: the run exchange_exactly_once shows that one.
NoOtherRepeat == ~repeated => ExactlyOnce

\* The slots of the next replies are free, one for each reply number issued: reply_raw
\* "is guaranteed not to fail", it never meets an occupied slot, until a packet is repeated.
ReplySlotsFree == ~repeated => \A p \in Peer : \A i \in 0 .. Len(seq[p].concurrent_replies) - 1 :
    seq[p].send_window[Idx(Wrap(seq[p].next_send_seq_no + i))] = None

\* Every guard has a reservation of its own, so no reply or ack is silently dropped.
GuardsReserved == \A p \in Peer : \A r \in SeqNo :
    Cardinality({g \in guards[p] : g.reply_no = r})
        = Cardinality({i \in DOMAIN seq[p].concurrent_replies : seq[p].concurrent_replies[i] = r})

\* A packet that passes the range check finds its own slot, or an empty one: "due to the
\* range check these should always be equal" (the assertions in try_receive_raw_and_direct,
\* try_pump_raw and fast_forward).
OwnRecvSlot == \A p \in Peer :
    /\ \A m \in net[p] :
        (/\ m.type = "Data"
         /\ ~IsBelowRange(seq[p], m.seq_no) /\ ~IsAboveRange(seq[p], m.seq_no)
         /\ IsDuplicate(seq[p], m.seq_no))
            => seq[p].recv_window[Idx(m.seq_no)].seq_no = m.seq_no
    /\ NextEntry(seq[p]) # Empty => NextEntry(seq[p]).seq_no = seq[p].next_recv_seq_no

----------------------------------------------------------------------------
\* The promise, in terms of what the applications hold.
Open(p) == {delivered[p][g.ord].data : g \in guards[p]}
Holders(p) == {g \in guards[p] : g.is_holding_lock}
Holder(p) == IF Holders(p) = {} THEN None
             ELSE delivered[p][(CHOOSE g \in Holders(p) : TRUE).ord].data
Promised == INSTANCE Channel WITH
    open     <- [p \in Peer |-> Open(p)],
    holder   <- [p \in Peer |-> Holder(p)],
    detached <- [p \in Peer |-> lock_guards[p] > 0]

\* The exchange of packets over a transport that loses, duplicates and reorders them is a
\* channel that does nothing of the kind.
ImplementsChannel == Promised!Spec

\* With unordered packets it is one until a packet is repeated.
ChannelUntilRepeated ==
    Promised!Init /\ [][Promised!Next \/ repeated']_(Promised!vars)

\* Every packet sent is handed to the remote application and then answered, so that it
\* leaves the send window: nobody waits for an answer forever.  If no one pumps, a packet that
\* is saved is processed when a copy of it arrives, which takes the same way as a new packet.
EveryPacketAnswered == \A p \in Peer : \A d \in 1 .. MaxPayloads[p] + MaxReplies[p] :
    (d \in DOMAIN sent[p]) ~> (d \in Seen(Other(p)) /\ d \notin InFlight(p))
=============================================================================
