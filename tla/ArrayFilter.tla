----------------------------- MODULE ArrayFilter ------------------------------
(***************************************************************************)
(* Array.prototype.filter, which the pages use, by places: the k-th kept   *)
(* element is the one with k kept places up to it.  (A test as a set, and  *)
(* no recursion, so that it can be reasoned about.)                        *)
(***************************************************************************)
EXTENDS Naturals, Sequences, FiniteSets

Places(s, S) == {i \in DOMAIN s : s[i] \in S}
Place(s, S, i) == Cardinality({j \in Places(s, S) : j <= i})

\* What s has of S, in its order.
Kept(s, S) == [k \in 1..Cardinality(Places(s, S)) |->
                 s[CHOOSE i \in Places(s, S) : Place(s, S, i) = k]]
===============================================================================
