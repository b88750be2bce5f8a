---------------------------- MODULE SeqExWindows ----------------------------
(***************************************************************************)
(* Where the entries of the two windows of a SeqEx sit, as the walk of     *)
(* service_direct and the assertions of src/no_std.rs expect it, and when  *)
(* the packets in the send window are due.                                 *)
(***************************************************************************)
EXTENDS SeqEx

\* The window fits the range of sequence numbers evenly, as the default of 64 does.
ASSUME EvenFitAssumption == SeqNoMod % CAP = 0

\* An entry of the send window sits in the slot of its own number, and is one of the
\* last CAP numbers given out.
SendSlots(s) == \A i \in 0 .. CAP - 1 : s.send_window[i] # None =>
    /\ Idx(s.send_window[i].seq_no) = i
    /\ Wrap(s.next_send_seq_no - s.send_window[i].seq_no) \in 1 .. CAP

\* An entry of the receive window sits in the slot of its own number, less than CAP
\* ahead of next_recv_seq_no.
RecvSlots(s) == \A i \in 0 .. CAP - 1 : s.recv_window[i] # Empty =>
    /\ Idx(s.recv_window[i].seq_no) = i
    /\ Normalized(s, s.recv_window[i].seq_no) \in 0 .. CAP - 1

\* No packet in the send window is due before time t.
NotDueBefore(s, t) == \A i \in 0 .. CAP - 1 :
    s.send_window[i] # None => t <= s.send_window[i].next_resend_time
=============================================================================
