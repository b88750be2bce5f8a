------------------------------- MODULE MCTokio -------------------------------
(***************************************************************************)
(* Small instances of Tokio for TLC: the remote peer replies to the packet *)
(* FirstReplyNo, or sends a payload if that is None, and then sends two    *)
(* payloads.                                                               *)
(***************************************************************************)
EXTENDS Tokio

CONSTANTS
    FirstReplyNo,  \* what the remote peer's first packet replies to
    RemoteSeqCst,  \* which of its packets are SeqCst
    RemoteCount    \* how many packets it sends

MCData == Task \cup {Nobody}
MCRemote == {[seq_no |-> i, reply_no |-> IF i = 0 THEN FirstReplyNo ELSE None,
              seq_cst |-> i \in RemoteSeqCst] : i \in 0 .. RemoteCount - 1}
=============================================================================
