-------------------------------- MODULE Lists --------------------------------
(***************************************************************************)
(* The linked lists and small arrays from which the library drops entries. *)
(***************************************************************************)
EXTENDS Integers, Sequences, FiniteSets

\* The entries of s at the places of keep, in their order.
EntriesAt(s, keep) ==
    [n \in 1..Cardinality(keep) |->
        s[CHOOSE i \in keep : Cardinality({j \in keep : j <= i}) = n]]

\* The lowest of a set of places.
Least(S) == CHOOSE j \in S : \A k \in S : j <= k
=============================================================================
