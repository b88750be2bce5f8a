------------------------------ MODULE Channel ------------------------------
(***************************************************************************)
(* What the calls of src/single_thread.rs amount to for two applications   *)
(* at the ends of SEQEX, with no windows, numbers, copies or resends: each *)
(* packet is handed over exactly once, with the packet it replies to; a    *)
(* SeqCst packet comes after all that was sent before it and alone; and an *)
(* exchange is known to have ended only when it has.                       *)
(*                                                                         *)
(* The packets of a peer are numbered in the order it sends them.          *)
(* Exchange implements this specification.                                 *)
(***************************************************************************)
EXTENDS Naturals, Sequences

CONSTANTS Peer, Data, None

VARIABLES
    sent,       \* sent[p]: the packets of p, [reply_to, seq_cst], in order
    delivered,  \* delivered[p]: what was handed to p, [data, link], in order
    open,       \* open[p]: the packets p has got and neither answered nor dropped
    holder,     \* holder[p]: the one of them that is inside the critical section, or None
    detached,   \* detached[p]: is a packet p has answered still inside of it?
    acked       \* acked[p]: the packets whose exchange p knows to have ended
vars == <<sent, delivered, open, holder, detached, acked>>

Other(p) == CHOOSE q \in Peer : q # p
Got(p)   == {delivered[p][i].data : i \in DOMAIN delivered[p]}
Replied(p, d) == \E k \in DOMAIN sent[p] : sent[p][k].reply_to = d

Init ==
    /\ sent = [p \in Peer |-> << >>]
    /\ delivered = [p \in Peer |-> << >>]
    /\ open = [p \in Peer |-> {}]
    /\ holder = [p \in Peer |-> None]
    /\ detached = [p \in Peer |-> FALSE]
    /\ acked = [p \in Peer |-> {}]

Submit(p, reply_to, seq_cst) ==
    sent' = [sent EXCEPT ![p] = Append(@, [reply_to |-> reply_to, seq_cst |-> seq_cst])]

\* p sends a payload.
Send(p, seq_cst) ==
    /\ Submit(p, None, seq_cst)
    /\ UNCHANGED <<delivered, open, holder, detached, acked>>

\* Packet d of the other peer is handed to p: for the first time, and, if it is SeqCst, in
\* its turn and while no other one is being processed.
Deliver(p, d) ==
    LET m == sent[Other(p)][d]
    IN  /\ d \in DOMAIN sent[Other(p)] /\ d \notin Got(p)
        /\ m.seq_cst => 1 .. d - 1 \subseteq Got(p) /\ holder[p] = None /\ ~detached[p]
        /\ delivered' = [delivered EXCEPT ![p] = Append(@, [data |-> d, link |-> m.reply_to])]
        /\ open' = [open EXCEPT ![p] = @ \cup {d}]
        /\ holder' = [holder EXCEPT ![p] = IF m.seq_cst THEN d ELSE @]
        /\ UNCHANGED <<sent, detached, acked>>

\* p is done with packet d; it may stay in the critical section.
Close(p, d, stay) ==
    /\ d \in open[p]
    /\ open' = [open EXCEPT ![p] = @ \ {d}]
    /\ holder' = [holder EXCEPT ![p] = IF @ = d THEN None ELSE @]
    /\ detached' = [detached EXCEPT ![p] = @ \/ (holder[p] = d /\ stay)]
    /\ UNCHANGED <<delivered, acked>>

\* It replies to it, or ends the exchange.
Reply(p, d, seq_cst, stay) == Close(p, d, stay) /\ Submit(p, d, seq_cst)
End(p, d, stay)            == Close(p, d, stay) /\ UNCHANGED sent

\* p leaves the critical section.
Unlock(p) ==
    /\ holder[p] # None \/ detached[p]
    /\ holder' = [holder EXCEPT ![p] = None]
    /\ detached' = [detached EXCEPT ![p] = FALSE]
    /\ UNCHANGED <<sent, delivered, open, acked>>

\* p learns that the other peer has ended the exchange of packet d.
Learn(p, d) ==
    /\ d \in Got(Other(p)) \ open[Other(p)] /\ ~Replied(Other(p), d)
    /\ acked' = [acked EXCEPT ![p] = @ \cup {d}]
    /\ UNCHANGED <<sent, delivered, open, holder, detached>>

Next == \E p \in Peer :
    \/ \E c \in BOOLEAN : Send(p, c)
    \/ \E d \in Data : Deliver(p, d) \/ Learn(p, d)
    \/ \E d \in Data, stay \in BOOLEAN : End(p, d, stay) \/ \E c \in BOOLEAN : Reply(p, d, c, stay)
    \/ Unlock(p)

Spec == Init /\ [][Next]_vars
=============================================================================
