------------------------------- MODULE ListOps -------------------------------
(* Lists, for operators that theorems are about.                              *)
EXTENDS Integers, Sequences

\* A function on 1..n.
IsList(s) == Len(s) \in Nat /\ s = [k \in 1..Len(s) |-> s[k]]

\* The elements of s that are in S, in order.
Keep(s, S) ==
  LET kept[k \in 0..Len(s)] ==
        IF k = 0 THEN <<>>
        ELSE IF s[k] \in S THEN Append(kept[k - 1], s[k])
        ELSE kept[k - 1]
  IN  kept[Len(s)]

\* s and t are the same up to k, where s ends.
EndsAt(s, t, k) == k = Len(s) + 1 /\ k \in DOMAIN t /\ \A i \in DOMAIN s : s[i] = t[i]
\* s and t are the same up to k.
DifferAt(s, t, k) ==
  k \in DOMAIN s /\ k \in DOMAIN t /\ s[k] # t[k] /\ \A i \in 1..(k - 1) : s[i] = t[i]
=============================================================================
