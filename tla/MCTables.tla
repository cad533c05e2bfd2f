------------------------------- MODULE MCTables -------------------------------
(***************************************************************************)
(* What a detection module keeps between flows, for TLC: the life of the   *)
(* modules and of the caches they own, the address cache and the host name *)
(* cache.  They share no state: a behaviour is one of the part it chose at *)
(* its start.                                                              *)
(***************************************************************************)
EXTENDS ModuleLifecycle, MCAddressCache, MCHostnameCache

VARIABLE part

tablesVars == <<part, lifecycleVars, addressVars, hostnameVars>>

TablesInit ==
    /\ part \in {"lifecycle", "address", "hostname"}
    /\ LifecycleInit /\ AddressInit /\ HostnameInit
    /\ enabled => part = "hostname"

TablesNext ==
    \/ /\ part = "lifecycle" /\ LifecycleNext
       /\ UNCHANGED <<part, addressVars, hostnameVars>>
    \/ /\ part = "address" /\ AddressNext
       /\ UNCHANGED <<part, lifecycleVars, hostnameVars>>
    \/ /\ part = "hostname" /\ HostnameNext
       /\ UNCHANGED <<part, lifecycleVars, addressVars>>

TablesSpec == TablesInit /\ [][TablesNext]_tablesVars

\* Modules and addresses of caches are interchangeable.
Symmetry == Permutations(Module) \union Permutations(Address)
=============================================================================
