-------------------------- MODULE CompletionCounter --------------------------
(***************************************************************************)
(* What the withdrawal waitgroup promises, with no messages, validators or *)
(* transactions: a count of pending completions.  A dispatch adds at least *)
(* one; each completion removes exactly one; nothing else changes it; and  *)
(* a pending completion eventually happens, so the count returns to zero.  *)
(* Bound is the most that may be pending at once.                          *)
(***************************************************************************)
EXTENDS Naturals

CONSTANT Bound

VARIABLE pending

Init == pending = 0

\* A batch of k >= 1 units of work is dispatched.
Dispatch == \E k \in 1..Bound : pending + k <= Bound /\ pending' = pending + k

\* One unit of work completes.
Complete == pending > 0 /\ pending' = pending - 1

Next == Dispatch \/ Complete

Spec == Init /\ [][Next]_pending

FairSpec == Spec /\ WF_pending(Complete)
=============================================================================
