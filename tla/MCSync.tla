------------------------------- MODULE MCSync -------------------------------
(***************************************************************************)
(* Small instances of Sync for TLC: the remote peer replies to the first   *)
(* packet it gets, or sends a payload, and then sends a payload.           *)
(***************************************************************************)
EXTENDS Sync

CONSTANTS
    FirstReplies,  \* is the remote peer's first packet a reply?
    SecondSeqCst   \* is its second packet SeqCst?

MCRemote ==
    {[type |-> "Data", seq_no |-> 0, reply_no |-> IF FirstReplies THEN 0 ELSE None,
      seq_cst |-> TRUE, data |-> d] : d \in Data}
    \cup
    {[type |-> "Data", seq_no |-> 1, reply_no |-> None,
      seq_cst |-> SecondSeqCst, data |-> d] : d \in Data}
=============================================================================
