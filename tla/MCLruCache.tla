----------------------------- MODULE MCLruCache -----------------------------
(***************************************************************************)
(* Two threads share a cache of one slot, in which the two keys collide.   *)
(***************************************************************************)
EXTENDS LruCache

MCSlotOf == [k \in Key |-> CHOOSE s \in Slot : TRUE]
=============================================================================
