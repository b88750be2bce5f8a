----------------------------- MODULE MCExchange -----------------------------
(***************************************************************************)
(* Small instances of Exchange for TLC.  The peers are "A" and "B"; a cfg  *)
(* picks how many payloads and replies each of them sends.                 *)
(***************************************************************************)
EXTENDS Exchange

CONSTANTS PayloadsA, PayloadsB, RepliesA, RepliesB

MCPeer == {"A", "B"}
MCMaxPayloads == [p \in {"A", "B"} |-> IF p = "A" THEN PayloadsA ELSE PayloadsB]
MCMaxReplies  == [p \in {"A", "B"} |-> IF p = "A" THEN RepliesA ELSE RepliesB]
MCData == 1 .. PayloadsA + PayloadsB + RepliesA + RepliesB
=============================================================================
