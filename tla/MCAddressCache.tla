---------------------------- MODULE MCAddressCache ----------------------------
(***************************************************************************)
(* Instances of AddressCache: with fewer than 32 entries the table has one *)
(* bucket, which every address shares.                                     *)
(***************************************************************************)
EXTENDS AddressCache, TLC

MCAddr == {1, 2}

MCHash == [a \in MCAddr |-> a]
=============================================================================
