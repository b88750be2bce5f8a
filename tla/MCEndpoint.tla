----------------------------- MODULE MCEndpoint -----------------------------
(***************************************************************************)
(* A small instance for TLC: payloads and replies numbered WireSeqNos,     *)
(* replies naming WireReplyNos, and acks of WireAckNos arrive.             *)
(***************************************************************************)
EXTENDS ServiceWalk

CONSTANTS WireSeqNos, WireReplyNos, WireSeqCst, WireAckNos

MCWire ==
    [type : {"Data"}, seq_no : WireSeqNos, reply_no : WireReplyNos \cup {None},
     seq_cst : WireSeqCst, data : Data]
    \cup [type : {"Ack"}, reply_no : WireAckNos]
=============================================================================
