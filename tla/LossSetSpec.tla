---------------------------- MODULE LossSetSpec ----------------------------
(***************************************************************************)
(* The abstract loss list as a state machine: a set of sequence numbers    *)
(* and the result of the last lookup that removed one.                     *)
(***************************************************************************)
EXTENDS LossSet

VARIABLES losses, popped

vars == <<losses, popped>>

Init == losses = {} /\ popped = -1

Insert(n1, n2) == losses' = losses \cup CyclicRange(n1, n2) /\ UNCHANGED popped

RemoveAll(n1, n2) == losses' = losses \ CyclicRange(n1, n2) /\ UNCHANGED popped

Pop(after) ==
  IF losses = {} THEN popped' = -1 /\ UNCHANGED losses
  ELSE /\ popped' = FirstAfter(losses, after)
       /\ losses' = losses \ {popped'}

(* Removing one number is the removal of the range from it to itself.      *)
Next ==
  \/ \E n1, n2 \in SeqNumbers : Insert(n1, n2) \/ RemoveAll(n1, n2)
  \/ \E n \in SeqNumbers : Pop(n)

Spec == Init /\ [][Next]_vars
=============================================================================
