----------------------------- MODULE MCConnect -----------------------------
(***************************************************************************)
(* Connect for TLC: all clients have chosen the same socket id and initial *)
(* sequence number, so that only their addresses tell them apart.          *)
(***************************************************************************)
EXTENDS Connect

SameKey == [c \in Clients |-> 1]
=============================================================================
