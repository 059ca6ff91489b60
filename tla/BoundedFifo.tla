------------------------------ MODULE BoundedFifo ------------------------------
(***************************************************************************)
(* Python keeps several bounded stores as a set (or dict) of members and a *)
(* deque of the same members in arrival order: when the store is full, the *)
(* head of the deque is evicted from both before the new member is added.  *)
(* The proofs about receipts and about id windows speak of it in these     *)
(* terms.                                                                  *)
(***************************************************************************)
EXTENDS Integers, Sequences

Members(q)  == {q[i] : i \in DOMAIN q}
Distinct(q) == \A i, j \in DOMAIN q : q[i] = q[j] => i = j

\* What a full store loses before it takes a new member: the order keeps
\* Evict(q, M), and the members that stay are EvictMembers(q, M).
Evict(q, M)        == IF Len(q) >= M THEN Tail(q) ELSE q
EvictMembers(q, M) == IF Len(q) >= M THEN Members(q) \ {Head(q)} ELSE Members(q)
=============================================================================
