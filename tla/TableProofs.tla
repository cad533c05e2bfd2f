---------------------------- MODULE TableProofs -----------------------------
(***************************************************************************)
(* The tables a detection module owns.  Its caches have one owner and the  *)
(* global ones are kept, for any number of modules, of kinds of caches and *)
(* of addresses, and whichever allocations fail.  The address cache has one *)
(* item for an address, counted, and kept for as long as a DNS answer said, *)
(* for every set of addresses, every hash and every size; and what a dump  *)
(* holds is what a restore gives back.                                     *)
(***************************************************************************)
EXTENDS ModuleLifecycle, AddressCache, ListProofs
-----------------------------------------------------------------------------
(* The life of detection modules.  CachesOwned is not inductive: it says   *)
(* nothing of the modules that are not finalized, nor of which modules may *)
(* hold a global cache when the context is released.  LifecycleInv adds    *)
(* this, and states ownership pointer by pointer.                          *)

\* The cache of kind k belongs to module m alone.
Own(m, k) == mods[m].cache[k] # NULL /\ ~IsGlobal(m, k)

\* Only a live module is finalized, and before that it has no cache; a module with a
\* cache of global scope was given the context, which is live as long as such a module
\* is; a context that is not live has no cache.
ScopesInv ==
    /\ \A m \in Module, k \in Kind :
        /\ mods[m].cache[k] # NULL => mods[m].finalized
        /\ IsGlobal(m, k) => mods[m].has_g
        /\ IsGlobal(m, k) /\ mods[m].cache[k] # NULL => mods[m].cache[k] = g_ctx.cache[k]
    /\ \A m \in Module :
        /\ mods[m].has_g => g_ctx.live
        /\ mods[m].finalized => mods[m].live
    /\ \A k \in Kind : g_ctx.cache[k] # NULL => g_ctx.live

\* What someone owns is allocated, and what the context owns has a mutex.
AllocatedInv ==
    /\ \A m \in Module, k \in Kind : Own(m, k) => heap[mods[m].cache[k]] # Unused
    /\ \A k \in Kind : g_ctx.cache[k] # NULL =>
        heap[g_ctx.cache[k]] # Unused /\ heap[g_ctx.cache[k]].shared

\* No two own the same.
UniqueInv ==
    /\ \A m, n \in Module, j, k \in Kind :
        Own(m, j) /\ Own(n, k) /\ mods[m].cache[j] = mods[n].cache[k] => m = n /\ j = k
    /\ \A m \in Module, j, k \in Kind : Own(m, j) => mods[m].cache[j] # g_ctx.cache[k]
    /\ \A j, k \in Kind : g_ctx.cache[j] # NULL /\ g_ctx.cache[j] = g_ctx.cache[k] => j = k

\* What is allocated has an owner.
NoLeakInv ==
    \A a \in Address : heap[a] # Unused =>
        \/ \E m \in Module, k \in Kind : Own(m, k) /\ mods[m].cache[k] = a
        \/ \E k \in Kind : g_ctx.cache[k] = a

LifecycleInv == LifecycleTypeOK /\ ScopesInv /\ AllocatedInv /\ UniqueInv /\ NoLeakInv

-----------------------------------------------------------------------------
(* Ownership pointer by pointer is ownership.                              *)

\* The invariant implies CachesOwned: an allocated cache has an owner, and it has only
\* one because no two pointers that own are equal.
LEMMA OwnersInv ==
    ASSUME LifecycleInv
    PROVE  CachesOwned
PROOF
<1> USE LifecycleAssumption, AddressAssumption
<1>1. \A m \in Module, k \in Kind : mods[m].cache[k] # NULL =>
         /\ heap[mods[m].cache[k]] # Unused
         /\ IsGlobal(m, k) => mods[m].cache[k] = g_ctx.cache[k]
  BY DEF LifecycleInv, ScopesInv, AllocatedInv, Own
<1>2. ASSUME NEW m \in Module, NEW k \in Kind, NEW n \in Module \ {m}, NEW j \in Kind,
             mods[m].cache[k] # NULL, mods[n].cache[j] = mods[m].cache[k]
      PROVE  heap[mods[m].cache[k]].shared
  <2>1. CASE IsGlobal(m, k)
    BY <1>2, <2>1, Zenon DEF LifecycleInv, ScopesInv, AllocatedInv
  <2>2. CASE IsGlobal(n, j)
    BY <1>2, <2>2, Zenon DEF LifecycleInv, ScopesInv, AllocatedInv
  <2>3. CASE ~IsGlobal(m, k) /\ ~IsGlobal(n, j)
    BY <1>2, <2>3 DEF LifecycleInv, UniqueInv, Own
  <2> QED
    BY <2>1, <2>2, <2>3, Zenon
<1>3. ASSUME NEW a \in Address
      PROVE  heap[a] # Unused <=> Owners(a) # {}
  <2>1. ASSUME heap[a] # Unused PROVE Owners(a) # {}
    <3>1. CASE \E m \in Module, k \in Kind : Own(m, k) /\ mods[m].cache[k] = a
      <4>1. PICK m \in Module, k \in Kind : Own(m, k) /\ mods[m].cache[k] = a
        BY <3>1, Zenon
      <4>2. <<m, k>> \in Owners(a)
        BY <4>1, Zenon DEF Own, Owners
      <4> QED
        BY <4>2, Zenon
    <3>2. CASE \E k \in Kind : g_ctx.cache[k] = a
      <4>1. PICK k \in Kind : g_ctx.cache[k] = a
        BY <3>2, Zenon
      <4>2. <<"g_ctx", k>> \in Owners(a)
        BY <4>1, Zenon DEF Owners
      <4> QED
        BY <4>2, Zenon
    <3> QED
      BY <2>1, <3>1, <3>2, Zenon DEF LifecycleInv, NoLeakInv
  <2>2. ASSUME NEW x \in Owners(a) PROVE heap[a] # Unused
    <3>1. a # NULL
      BY <1>3, Zenon
    <3> QED
      BY <2>2, <3>1, Zenon DEF Owners, LifecycleInv, AllocatedInv, Own
  <2> QED
    BY <2>1, <2>2, Zenon
<1>4. ASSUME NEW a \in Address, NEW x \in Owners(a), NEW y \in Owners(a)
      PROVE  x = y
  <2>1. a # NULL
    BY <1>4, Zenon
  <2>2. \/ \E m \in Module, k \in Kind : x = <<m, k>> /\ Own(m, k) /\ mods[m].cache[k] = a
        \/ \E k \in Kind : x = <<"g_ctx", k>> /\ g_ctx.cache[k] = a
    BY <2>1, <1>4 DEF Owners, Own
  <2>3. \/ \E m \in Module, k \in Kind : y = <<m, k>> /\ Own(m, k) /\ mods[m].cache[k] = a
        \/ \E k \in Kind : y = <<"g_ctx", k>> /\ g_ctx.cache[k] = a
    BY <2>1, <1>4 DEF Owners, Own
  <2> QED
    BY <2>1, <2>2, <2>3, Zenon DEF LifecycleInv, UniqueInv
<1> QED
  BY <1>1, <1>2, <1>3, <1>4 DEF CachesOwned
-----------------------------------------------------------------------------
(* Every function keeps the invariant.                                     *)

\* Before the first call there is no cache: nothing is allocated and nothing owned.
LEMMA InitLifecycle ==
    ASSUME LifecycleInit
    PROVE  LifecycleInv
PROOF
<1> USE LifecycleAssumption, AddressAssumption
<1>1. LifecycleTypeOK
  BY DEF LifecycleInit, LifecycleTypeOK, NoContext, NoModule, NoCaches, Pointer, Config,
         LOCAL_SCOPE, GLOBAL_SCOPE
<1>2. \A m \in Module, k \in Kind : mods[m].cache[k] = NULL /\ ~IsGlobal(m, k) /\ ~mods[m].has_g
  BY DEF LifecycleInit, NoModule, NoCaches, IsGlobal, LOCAL_SCOPE, GLOBAL_SCOPE
<1>3. \A m \in Module : ~mods[m].has_g /\ ~mods[m].finalized
  BY Zenon DEF LifecycleInit, NoModule
<1>4. \A k \in Kind : g_ctx.cache[k] = NULL
  BY Zenon DEF LifecycleInit, NoContext, NoCaches
<1>5. \A a \in Address : heap[a] = Unused
  BY Zenon DEF LifecycleInit
<1> QED
  BY <1>1, <1>2, <1>3, <1>4, <1>5, Zenon
     DEF LifecycleInv, ScopesInv, AllocatedInv, UniqueInv, NoLeakInv, Own

\* ndpi_global_init() finds no context, hence no global cache, and creates none.
LEMMA GlobalInitStep ==
    ASSUME LifecycleInv, ndpi_global_init
    PROVE  LifecycleInv'
PROOF
<1> USE LifecycleAssumption, AddressAssumption
<1>1. \A k \in Kind : g_ctx.cache[k] = NULL /\ g_ctx'.cache[k] = NULL
  BY Zenon DEF LifecycleInv, ScopesInv, ndpi_global_init, NoContext, NoCaches
<1>2. g_ctx'.live /\ mods' = mods /\ heap' = heap
  BY Zenon DEF ndpi_global_init, NoContext
<1>3. LifecycleTypeOK'
  BY Zenon DEF LifecycleInv, LifecycleTypeOK, ndpi_global_init, NoContext, NoCaches, Pointer
<1>4. \A m \in Module, k \in Kind : IsGlobal(m, k)' = IsGlobal(m, k) /\ Own(m, k)' = Own(m, k)
  BY <1>2, Zenon DEF IsGlobal, Own
<1> QED
  BY <1>1, <1>2, <1>3, <1>4
     DEF LifecycleInv, ScopesInv, AllocatedInv, UniqueInv, NoLeakInv

\* ndpi_global_deinit() frees what the context owned; no module was given the context,
\* so none keeps a pointer to a freed cache.
LEMMA GlobalDeinitStep ==
    ASSUME LifecycleInv, ndpi_global_deinit
    PROVE  LifecycleInv'
PROOF
<1> USE LifecycleAssumption, AddressAssumption
<1>1. \A k \in Kind : g_ctx'.cache[k] = NULL
  BY Zenon DEF ndpi_global_deinit, NoContext, NoCaches
<1>2. mods' = mods /\ \A m \in Module : ~mods[m].has_g
  BY Zenon DEF ndpi_global_deinit
<1>3. \A a \in Address :
         heap'[a] = IF \E k \in Kind : g_ctx.cache[k] = a THEN Unused ELSE heap[a]
  BY Zenon DEF ndpi_global_deinit
<1>4. LifecycleTypeOK'
  BY Zenon DEF LifecycleInv, LifecycleTypeOK, ndpi_global_deinit, NoContext, NoCaches, Pointer
<1>5. \A m \in Module, k \in Kind :
         ~IsGlobal(m, k) /\ ~IsGlobal(m, k)' /\ Own(m, k)' = Own(m, k)
  BY <1>2, Zenon DEF LifecycleInv, ScopesInv, IsGlobal, Own
<1>6. \A m \in Module, k \in Kind : Own(m, k) => mods[m].cache[k] \in Address
  BY DEF LifecycleInv, LifecycleTypeOK, Pointer, Own
<1>7. ScopesInv'
  BY <1>1, <1>2, <1>5, Zenon DEF LifecycleInv, ScopesInv
<1>8. AllocatedInv'
  BY <1>1, <1>2, <1>3, <1>5, <1>6 DEF LifecycleInv, AllocatedInv, UniqueInv
<1>9. UniqueInv'
  BY <1>1, <1>2, <1>5, <1>6 DEF LifecycleInv, UniqueInv
<1>10. NoLeakInv'
  BY <1>1, <1>2, <1>3, <1>5 DEF LifecycleInv, NoLeakInv
<1> QED
  BY <1>4, <1>7, <1>8, <1>9, <1>10, Zenon DEF LifecycleInv

\* A module that changes without a cache before or after changes no ownership.
LEMMA NoCacheStep ==
    ASSUME LifecycleInv, LifecycleTypeOK', NEW m \in Module,
           UNCHANGED <<g_ctx, heap>>,
           \A n \in Module : n # m => mods'[n] = mods[n],
           \A k \in Kind : mods[m].cache[k] = NULL /\ mods'[m].cache[k] = NULL,
           \A k \in Kind : IsGlobal(m, k)' => mods'[m].has_g,
           mods'[m].has_g => g_ctx.live, mods'[m].finalized => mods'[m].live
    PROVE  LifecycleInv'
PROOF
<1>1. \A n \in Module, k \in Kind :
         Own(n, k)' = Own(n, k) /\ mods'[n].cache[k] = mods[n].cache[k]
  BY Zenon DEF Own, IsGlobal
<1>2. \A n \in Module \ {m}, k \in Kind : IsGlobal(n, k)' = IsGlobal(n, k)
  BY Zenon DEF IsGlobal
<1>3. ScopesInv'
  BY <1>1, <1>2 DEF LifecycleInv, ScopesInv
<1> QED
  BY <1>1, <1>3 DEF LifecycleInv, AllocatedInv, UniqueInv, NoLeakInv

\* ndpi_init_detection_module() makes a module without caches, of local scope.
LEMMA InitModuleStep ==
    ASSUME LifecycleInv, NEW m \in Module, NEW g \in BOOLEAN, ndpi_init_detection_module(m, g)
    PROVE  LifecycleInv'
PROOF
<1> USE LifecycleAssumption, AddressAssumption
<1> DEFINE new == [live |-> TRUE, has_g |-> g, finalized |-> FALSE, cache |-> NoCaches,
                  cfg |-> DefaultConfig]
<1>1. /\ new.live /\ new.has_g = g /\ ~new.finalized /\ new.cfg = DefaultConfig
      /\ new.cache = NoCaches
      /\ new \in [live : BOOLEAN, has_g : BOOLEAN, finalized : BOOLEAN,
                  cache : [Kind -> Pointer], cfg : [Kind -> Config]]
  <2>1. DefaultConfig \in [Kind -> Config] /\ NoCaches \in [Kind -> Pointer]
    BY DEF DefaultConfig, NoCaches, Pointer, Config, LOCAL_SCOPE
  <2> QED
    BY <2>1, Zenon
<1>2. mods' = [mods EXCEPT ![m] = new] /\ UNCHANGED <<g_ctx, heap>>
  BY Zenon DEF ndpi_init_detection_module
<1> HIDE DEF new
<1>3. LifecycleTypeOK'
  BY <1>1, <1>2, Zenon DEF LifecycleInv, LifecycleTypeOK
<1>4. mods'[m] = new /\ \A n \in Module : n # m => mods'[n] = mods[n]
  BY <1>2, Zenon DEF LifecycleInv, LifecycleTypeOK
<1>5. \A k \in Kind : mods[m].cache[k] = NULL /\ mods'[m].cache[k] = NULL
  <2>1. ~mods[m].live
    BY Zenon DEF ndpi_init_detection_module
  <2>2. \A k \in Kind : mods[m].cache[k] = NULL
    BY <2>1, Zenon DEF LifecycleInv, ScopesInv
  <2> QED
    BY <2>2, <1>1, <1>4, Zenon DEF NoCaches
<1>6. \A k \in Kind : ~IsGlobal(m, k)'
  BY <1>1, <1>4 DEF IsGlobal, DefaultConfig, LOCAL_SCOPE, GLOBAL_SCOPE
<1>7. (mods'[m].has_g => g_ctx.live) /\ (mods'[m].finalized => mods'[m].live)
  BY <1>1, <1>4, Zenon DEF ndpi_init_detection_module
<1> QED
  BY <1>2, <1>3, <1>4, <1>5, <1>6, <1>7, NoCacheStep, Zenon

\* ndpi_set_config() changes a module that has no cache yet, and gives global scope
\* only to a module that was given the context.
LEMMA SetConfigStep ==
    ASSUME LifecycleInv, NEW m \in Module, NEW k \in Kind,
           NEW param \in {"size", "ttl", "scope"}, NEW value \in 0 .. (MaxValue + 1),
           ndpi_set_config(m, k, param, value)
    PROVE  LifecycleInv'
PROOF
<1> USE LifecycleAssumption, AddressAssumption
<1> DEFINE old == mods[m].cfg[k]
           cfg == IF param = "size" THEN [old EXCEPT !.size = value]
                  ELSE IF param = "ttl" THEN [old EXCEPT !.ttl = value]
                  ELSE [old EXCEPT !.scope = IF mods[m].has_g THEN value ELSE LOCAL_SCOPE]
<1>1. old \in Config
  BY DEF LifecycleInv, LifecycleTypeOK
<1>2. cfg \in Config /\ (cfg.scope = GLOBAL_SCOPE => mods[m].has_g \/ old.scope = GLOBAL_SCOPE)
  BY <1>1 DEF Config, ndpi_set_config, Accepted, LOCAL_SCOPE, GLOBAL_SCOPE
<1>3. mods' = [mods EXCEPT ![m].cfg[k] = cfg] /\ UNCHANGED <<g_ctx, heap>>
  BY Zenon DEF ndpi_set_config
<1> HIDE DEF cfg
<1>4. /\ mods'[m] = [mods[m] EXCEPT !.cfg = [mods[m].cfg EXCEPT ![k] = cfg]]
      /\ \A n \in Module : n # m => mods'[n] = mods[n]
      /\ DOMAIN mods' = Module /\ mods' = [n \in Module |-> mods'[n]]
  BY Zenon, <1>3 DEF LifecycleInv, LifecycleTypeOK
<1>5. /\ mods'[m] \in [live : BOOLEAN, has_g : BOOLEAN, finalized : BOOLEAN,
                       cache : [Kind -> Pointer], cfg : [Kind -> Config]]
      /\ mods'[m].cache = mods[m].cache /\ mods'[m].has_g = mods[m].has_g
      /\ mods'[m].live = mods[m].live /\ mods'[m].finalized = mods[m].finalized
      /\ \A j \in Kind : mods'[m].cfg[j] = IF j = k THEN cfg ELSE mods[m].cfg[j]
  <2> DEFINE cfgs == [mods[m].cfg EXCEPT ![k] = cfg]
  <2>1. mods[m] \in [live : BOOLEAN, has_g : BOOLEAN, finalized : BOOLEAN,
                     cache : [Kind -> Pointer], cfg : [Kind -> Config]]
    BY Zenon DEF LifecycleInv, LifecycleTypeOK
  <2>2. cfgs \in [Kind -> Config] /\ \A j \in Kind : cfgs[j] = IF j = k THEN cfg ELSE mods[m].cfg[j]
    BY <1>2, <2>1, Zenon
  <2>3. mods'[m] = [mods[m] EXCEPT !.cfg = cfgs]
    BY <1>4, Zenon
  <2> HIDE DEF cfgs
  <2>4. mods'[m] = [live |-> mods[m].live, has_g |-> mods[m].has_g,
                    finalized |-> mods[m].finalized, cache |-> mods[m].cache, cfg |-> cfgs]
    BY <2>1, <2>3, Zenon
  <2> QED
    BY <2>1, <2>2, <2>4
<1>6. LifecycleTypeOK'
  BY Zenon, <1>3, <1>4, <1>5 DEF LifecycleInv, LifecycleTypeOK
<1>7. \A j \in Kind : mods[m].cache[j] = NULL /\ mods'[m].cache[j] = NULL
  BY <1>5 DEF ndpi_set_config, LifecycleInv, ScopesInv
<1>8. \A j \in Kind : IsGlobal(m, j)' => mods'[m].has_g
  BY <1>2, <1>5 DEF IsGlobal, LifecycleInv, ScopesInv
<1>9. (mods'[m].has_g => g_ctx.live) /\ (mods'[m].finalized => mods'[m].live)
  BY <1>5, Zenon DEF LifecycleInv, ScopesInv
<1> QED
  BY <1>3, <1>4, <1>6, <1>7, <1>8, <1>9, NoCacheStep, Zenon

\* ndpi_exit_detection_module() frees exactly the caches its module owned; those of the
\* context and of the other modules are at other addresses.
LEMMA ExitModuleStep ==
    ASSUME LifecycleInv, NEW m \in Module, ndpi_exit_detection_module(m)
    PROVE  LifecycleInv'
PROOF
<1> USE LifecycleAssumption, AddressAssumption
<1>1. /\ NoModule \in [live : BOOLEAN, has_g : BOOLEAN, finalized : BOOLEAN,
                       cache : [Kind -> Pointer], cfg : [Kind -> Config]]
      /\ ~NoModule.has_g /\ ~NoModule.finalized
      /\ \A k \in Kind : NoModule.cache[k] = NULL /\ NoModule.cfg[k].scope # GLOBAL_SCOPE
  BY DEF NoModule, NoCaches, Pointer, Config, LOCAL_SCOPE, GLOBAL_SCOPE
<1>2. /\ mods'[m] = NoModule /\ \A n \in Module : n # m => mods'[n] = mods[n]
      /\ g_ctx' = g_ctx
      /\ \A a \in Address : heap'[a] = IF a \in Freed(m) THEN Unused ELSE heap[a]
  BY Zenon DEF ndpi_exit_detection_module, LifecycleInv, LifecycleTypeOK
<1>3. LifecycleTypeOK'
  BY <1>1, Zenon DEF ndpi_exit_detection_module, LifecycleInv, LifecycleTypeOK
<1>4. \A a : a \in Freed(m) <=> \E k \in Kind : Own(m, k) /\ mods[m].cache[k] = a
  BY Zenon DEF Freed, Own
<1>5. /\ \A k \in Kind : ~Own(m, k)' /\ ~IsGlobal(m, k)'
      /\ \A n \in Module \ {m}, k \in Kind :
            Own(n, k)' = Own(n, k) /\ IsGlobal(n, k)' = IsGlobal(n, k)
  BY <1>1, <1>2, Zenon DEF Own, IsGlobal
<1>6. /\ \A n \in Module, k \in Kind : Own(n, k) => mods[n].cache[k] \in Address
      /\ \A k \in Kind : g_ctx.cache[k] # NULL => g_ctx.cache[k] \in Address
  BY DEF LifecycleInv, LifecycleTypeOK, Pointer, Own
<1>7. ScopesInv'
  BY <1>1, <1>2, <1>5 DEF LifecycleInv, ScopesInv
<1>8. AllocatedInv'
  <2>1. \A n \in Module \ {m}, k \in Kind : Own(n, k) => mods[n].cache[k] \notin Freed(m)
    BY <1>4 DEF LifecycleInv, UniqueInv
  <2>2. \A k \in Kind : g_ctx.cache[k] \notin Freed(m)
    BY <1>4 DEF LifecycleInv, UniqueInv
  <2> QED
    BY <1>2, <1>5, <1>6, <2>1, <2>2 DEF LifecycleInv, AllocatedInv
<1>9. UniqueInv'
  BY <1>2, <1>5 DEF LifecycleInv, UniqueInv
<1>10. NoLeakInv'
  BY <1>2, <1>4, <1>5 DEF LifecycleInv, NoLeakInv
<1> QED
  BY <1>3, <1>7, <1>8, <1>9, <1>10, Zenon DEF LifecycleInv

\* A finalization puts caches at addresses nobody owns: the missing global ones go to
\* the context, the others to the module, and nothing else changes hands.
LEMMA FinalizeStep ==
    ASSUME LifecycleInv, NEW m \in Module, ndpi_finalize_initialization(m)
    PROVE  /\ LifecycleInv'
           /\ \A k \in Kind : g_ctx.cache[k] # NULL =>
                /\ g_ctx'.cache[k] = g_ctx.cache[k]
                /\ heap'[g_ctx.cache[k]] = heap[g_ctx.cache[k]]
PROOF
<1> USE LifecycleAssumption, AddressAssumption
<1> DEFINE Global(new) == [k \in Kind |->
                IF IsGlobal(m, k) /\ Creates(m, k) THEN new[k] ELSE g_ctx.cache[k]]
           Mine(new) == [k \in Kind |->
                IF ~Enabled(m, k) THEN NULL ELSE IF IsGlobal(m, k) THEN Global(new)[k] ELSE new[k]]
<1>1. PICK new \in Allocations(m) :
         /\ heap' = Initialised(m, new)
         /\ g_ctx' = [g_ctx EXCEPT !.cache = Global(new)]
         /\ mods' = [mods EXCEPT ![m] = [live |-> TRUE, has_g |-> mods[m].has_g,
                         finalized |-> TRUE, cache |-> Mine(new), cfg |-> mods[m].cfg]]
  BY Zenon DEF ndpi_finalize_initialization
<1>2. ~mods[m].finalized /\ mods[m].live
  BY Zenon DEF ndpi_finalize_initialization
<1>3. /\ new \in [Kind -> Pointer]
      /\ \A k \in Kind : new[k] # NULL => Creates(m, k) /\ heap[new[k]] = Unused /\ new[k] \in Address
      /\ \A j, k \in Kind : new[j] = new[k] /\ new[j] # NULL => j = k
  BY Zenon DEF Allocations, Pointer
<1>4. \A k \in Kind : Creates(m, k) <=> Enabled(m, k) /\ (IsGlobal(m, k) => g_ctx.cache[k] = NULL)
  BY Zenon DEF Creates
<1>5. /\ g_ctx'.live = g_ctx.live
      /\ \A k \in Kind : g_ctx'.cache[k] =
            IF IsGlobal(m, k) /\ new[k] # NULL THEN new[k] ELSE g_ctx.cache[k]
  <2>1. g_ctx'.live = g_ctx.live /\ g_ctx'.cache = Global(new)
    BY <1>1, Zenon DEF LifecycleInv, LifecycleTypeOK
  <2> QED
    BY <2>1, <1>3, <1>4, Zenon
<1>6. /\ mods'[m] = [live |-> TRUE, has_g |-> mods[m].has_g, finalized |-> TRUE,
                     cache |-> Mine(new), cfg |-> mods[m].cfg]
      /\ \A n \in Module : n # m => mods'[n] = mods[n]
  BY <1>1, Zenon DEF LifecycleInv, LifecycleTypeOK
<1>7. /\ \A k \in Kind : mods'[m].cache[k] =
            IF ~Enabled(m, k) THEN NULL ELSE IF IsGlobal(m, k) THEN g_ctx'.cache[k] ELSE new[k]
      /\ mods'[m].cfg = mods[m].cfg /\ mods'[m].has_g = mods[m].has_g
      /\ mods'[m].finalized /\ mods'[m].live
  <2>1. \A k \in Kind : g_ctx'.cache[k] = Global(new)[k]
    BY <1>1, Zenon DEF LifecycleInv, LifecycleTypeOK
  <2>2. mods'[m].cache = Mine(new)
    BY <1>6
  <2>3. \A k \in Kind : Mine(new)[k] =
           IF ~Enabled(m, k) THEN NULL ELSE IF IsGlobal(m, k) THEN Global(new)[k] ELSE new[k]
    BY Zenon
  <2> HIDE DEF Mine, Global
  <2> QED
    BY <1>6, <2>1, <2>2, <2>3
<1>8. /\ \A k \in Kind : new[k] # NULL => heap'[new[k]] = ndpi_lru_cache_init(mods[m].cfg[k])
      /\ \A a \in Address : (\A k \in Kind : new[k] # a) => heap'[a] = heap[a]
  <2>1. ASSUME NEW k \in Kind, new[k] # NULL
        PROVE  heap'[new[k]] = ndpi_lru_cache_init(mods[m].cfg[k])
    <3> DEFINE c == CHOOSE j \in Kind : new[j] = new[k]
    <3>1. c \in Kind /\ new[c] = new[k]
      BY Zenon
    <3>2. c = k
      BY <3>1, <2>1, <1>3, Zenon
    <3>3. heap'[new[k]] = ndpi_lru_cache_init(mods[m].cfg[c])
      BY <1>1, <1>3, <2>1, Zenon DEF Initialised
    <3> QED
      BY Zenon, <3>2, <3>3
  <2>2. \A a \in Address : (\A k \in Kind : new[k] # a) => heap'[a] = heap[a]
    BY <1>1, Zenon DEF Initialised
  <2> QED
    BY <2>1, <2>2, Zenon
<1> HIDE DEF Mine, Global
<1>9. \A k \in Kind : Enabled(m, k) =>
         /\ ndpi_lru_cache_init(mods[m].cfg[k]) \in Cache
         /\ ndpi_lru_cache_init(mods[m].cfg[k]) # Unused
         /\ IsGlobal(m, k) => ndpi_lru_cache_init(mods[m].cfg[k]).shared
  <2>1. \A k \in Kind : mods[m].cfg[k] \in Config
    BY DEF LifecycleInv, LifecycleTypeOK
  <2> TAKE k \in Kind
  <2> HAVE Enabled(m, k)
  <2> DEFINE c == mods[m].cfg[k]
             new_c == ndpi_lru_cache_init(c)
  <2>2. c.size \in 1..MaxValue /\ c.ttl \in 0..MaxValue
    BY <2>1 DEF Enabled, Config
  <2>3. new_c = [size |-> c.size, ttl |-> c.ttl, shared |-> c.scope = GLOBAL_SCOPE]
    BY Zenon DEF ndpi_lru_cache_init
  <2>4. new_c \in Cache
    BY <2>2, <2>3 DEF Cache
  <2>5. DOMAIN new_c # DOMAIN Unused
    <3>1. "size" \in DOMAIN new_c
      BY <2>3
    <3>2. "size" \notin DOMAIN Unused
      BY Zenon DEF Unused
    <3> QED
      BY <3>1, <3>2, Zenon
  <2>6. ASSUME IsGlobal(m, k)
        PROVE  new_c.shared
    <3>1. (c.scope = GLOBAL_SCOPE) = TRUE
      BY <2>6, Zenon DEF IsGlobal
    <3>2. new_c = [size |-> c.size, ttl |-> c.ttl, shared |-> TRUE]
      BY <2>3, <3>1, Zenon
    <3>3. new_c.shared = TRUE
      BY <3>2
    <3> QED
      BY <3>3, Zenon
  <2> QED
    BY <2>4, <2>5, <2>6, Zenon
<1>10. /\ \A n \in Module, k \in Kind : IsGlobal(n, k)' = IsGlobal(n, k)
       /\ \A k \in Kind : mods[m].cache[k] = NULL /\ ~Own(m, k)
       /\ \A k \in Kind : Own(m, k)' <=> new[k] # NULL /\ ~IsGlobal(m, k)
       /\ \A k \in Kind : Own(m, k)' => mods'[m].cache[k] = new[k]
       /\ \A n \in Module \ {m}, k \in Kind :
             Own(n, k)' = Own(n, k) /\ mods'[n].cache[k] = mods[n].cache[k]
  <2>1. \A n \in Module, k \in Kind : IsGlobal(n, k)' = IsGlobal(n, k)
    BY <1>6, <1>7, Zenon DEF IsGlobal
  <2>2. \A k \in Kind : mods[m].cache[k] = NULL /\ ~Own(m, k)
    BY <1>2, Zenon DEF LifecycleInv, ScopesInv, Own
  <2>3. \A k \in Kind : ~IsGlobal(m, k) => mods'[m].cache[k] = new[k]
    BY <1>3, <1>4, <1>7, Zenon
  <2> QED
    BY <1>6, <2>1, <2>2, <2>3, Zenon DEF Own
<1>11. /\ \A n \in Module, k \in Kind : Own(n, k) => mods[n].cache[k] \in Address
       /\ \A k \in Kind : g_ctx.cache[k] # NULL => g_ctx.cache[k] \in Address
  BY DEF LifecycleInv, LifecycleTypeOK, Pointer, Own
\* What someone owned is not at a new address, and is as it was.
<1>12. /\ \A n \in Module, j, k \in Kind : Own(n, j) => mods[n].cache[j] # new[k]
       /\ \A j, k \in Kind : g_ctx.cache[j] # NULL => g_ctx.cache[j] # new[k]
  BY <1>3, <1>11 DEF LifecycleInv, AllocatedInv
<1>13. LifecycleTypeOK'
  <2>1. g_ctx' \in [live : BOOLEAN, cache : [Kind -> Pointer]]
    <3>1. Global(new) \in [Kind -> Pointer]
      BY <1>3, Zenon DEF Global, LifecycleInv, LifecycleTypeOK
    <3> QED
      BY <1>1, <3>1, Zenon DEF LifecycleInv, LifecycleTypeOK
  <2>2. Mine(new) \in [Kind -> Pointer]
    BY <1>3, Zenon DEF Mine, Global, LifecycleInv, LifecycleTypeOK, Pointer
  <2>3. [live |-> TRUE, has_g |-> mods[m].has_g, finalized |-> TRUE, cache |-> Mine(new),
         cfg |-> mods[m].cfg] \in [live : BOOLEAN, has_g : BOOLEAN, finalized : BOOLEAN,
                                   cache : [Kind -> Pointer], cfg : [Kind -> Config]]
    BY <2>2, Zenon DEF LifecycleInv, LifecycleTypeOK
  <2>4. mods' \in [Module -> [live : BOOLEAN, has_g : BOOLEAN, finalized : BOOLEAN,
                              cache : [Kind -> Pointer], cfg : [Kind -> Config]]]
    BY <1>1, <2>3, Zenon DEF LifecycleInv, LifecycleTypeOK
  <2>5. \A a \in Address : heap'[a] \in Cache \union {Unused}
    <3> SUFFICES ASSUME NEW a \in Address PROVE heap'[a] \in Cache \union {Unused}
      BY Zenon
    <3>1. CASE \E k \in Kind : new[k] = a
      BY <3>1, <1>3, <1>4, <1>8, <1>9
    <3>2. CASE \A k \in Kind : new[k] # a
      BY <3>2, <1>8, Zenon DEF LifecycleInv, LifecycleTypeOK
    <3> QED
      BY <3>1, <3>2, Zenon
  <2>6. heap' \in [Address -> Cache \union {Unused}]
    BY <1>1, <2>5, Zenon DEF Initialised
  <2> QED
    BY <2>1, <2>4, <2>6, Zenon DEF LifecycleTypeOK
<1>14. ScopesInv'
  <2>1. \A n \in Module, k \in Kind :
           IsGlobal(n, k) /\ mods'[n].cache[k] # NULL => mods'[n].cache[k] = g_ctx'.cache[k]
    BY <1>3, <1>4, <1>5, <1>7, <1>10 DEF LifecycleInv, ScopesInv
  <2>2. \A n \in Module : mods'[n].has_g = mods[n].has_g
    BY <1>6, <1>7, Zenon
  <2>3. \A n \in Module : mods'[n].finalized => mods'[n].live
    BY <1>6, <1>7, Zenon DEF LifecycleInv, ScopesInv
  <2>4. \A n \in Module, k \in Kind : mods'[n].cache[k] # NULL => mods'[n].finalized
    BY <1>6, <1>7 DEF LifecycleInv, ScopesInv
  <2>5. \A k \in Kind : g_ctx'.cache[k] # NULL => g_ctx'.live
    BY <1>5, Zenon DEF LifecycleInv, ScopesInv
  <2> QED
    BY <1>5, <1>10, <2>1, <2>2, <2>3, <2>4, <2>5 DEF LifecycleInv, ScopesInv
<1>15. AllocatedInv'
  <2>1. ASSUME NEW n \in Module, NEW k \in Kind, Own(n, k)'
        PROVE  heap'[mods'[n].cache[k]] # Unused
    <3>1. CASE n = m
      BY <2>1, <3>1, <1>3, <1>4, <1>8, <1>9, <1>10
    <3>2. CASE n # m
      BY <2>1, <3>2, <1>8, <1>10, <1>11, <1>12 DEF LifecycleInv, AllocatedInv
    <3> QED
      BY <3>1, <3>2, Zenon
  <2>2. ASSUME NEW k \in Kind, g_ctx'.cache[k] # NULL
        PROVE  heap'[g_ctx'.cache[k]] # Unused /\ heap'[g_ctx'.cache[k]].shared
    <3>1. CASE IsGlobal(m, k) /\ new[k] # NULL
      BY <3>1, <1>3, <1>4, <1>5, <1>8, <1>9
    <3>2. CASE ~(IsGlobal(m, k) /\ new[k] # NULL)
      BY <2>2, <3>2, <1>5, <1>8, <1>11, <1>12 DEF LifecycleInv, AllocatedInv
    <3> QED
      BY <3>1, <3>2, Zenon
  <2> QED
    BY <2>1, <2>2, Zenon DEF AllocatedInv
<1>16. UniqueInv'
  <2>1. ASSUME NEW n \in Module, NEW p \in Module, NEW j \in Kind, NEW k \in Kind,
               Own(n, j)', Own(p, k)', mods'[n].cache[j] = mods'[p].cache[k]
        PROVE  n = p /\ j = k
    <3>1. CASE n = m /\ p = m
      BY <2>1, <3>1, <1>3, <1>10
    <3>2. CASE n = m /\ p # m
      BY <2>1, <3>2, <1>10, <1>12
    <3>3. CASE n # m /\ p = m
      BY <2>1, <3>3, <1>10, <1>12
    <3>4. CASE n # m /\ p # m
      BY <2>1, <3>4, <1>10 DEF LifecycleInv, UniqueInv
    <3> QED
      BY <3>1, <3>2, <3>3, <3>4, Zenon
  <2>2. ASSUME NEW n \in Module, NEW j \in Kind, NEW k \in Kind, Own(n, j)'
        PROVE  mods'[n].cache[j] # g_ctx'.cache[k]
    <3>1. CASE n = m
      BY <2>2, <3>1, <1>3, <1>5, <1>10, <1>12
    <3>2. CASE n # m
      BY <2>2, <3>2, <1>5, <1>10, <1>12 DEF LifecycleInv, UniqueInv
    <3> QED
      BY <3>1, <3>2, Zenon
  <2>3. \A j, k \in Kind : g_ctx'.cache[j] # NULL /\ g_ctx'.cache[j] = g_ctx'.cache[k] => j = k
    BY <1>3, <1>5, <1>12 DEF LifecycleInv, UniqueInv
  <2> QED
    BY <2>1, <2>2, <2>3 DEF UniqueInv
<1>17. NoLeakInv'
  <2> SUFFICES ASSUME NEW a \in Address, heap'[a] # Unused
               PROVE  \/ \E n \in Module, k \in Kind : Own(n, k)' /\ mods'[n].cache[k] = a
                      \/ \E k \in Kind : g_ctx'.cache[k] = a
    BY Zenon DEF NoLeakInv
  <2>1. CASE \E k \in Kind : new[k] = a
    BY <2>1, <1>5, <1>10
  <2>2. CASE \A k \in Kind : new[k] # a
    <3>1. heap[a] # Unused
      BY <2>2, <1>8, Zenon
    <3>2. CASE \E n \in Module, k \in Kind : Own(n, k) /\ mods[n].cache[k] = a
      BY <3>2, <1>10
    <3>3. CASE \E k \in Kind : g_ctx.cache[k] = a
      BY <3>3, <1>3, <1>4, <1>5, Zenon
    <3> QED
      BY <3>1, <3>2, <3>3, Zenon DEF LifecycleInv, NoLeakInv
  <2> QED
    BY <2>1, <2>2, Zenon
<1>18. \A k \in Kind : g_ctx.cache[k] # NULL =>
          g_ctx'.cache[k] = g_ctx.cache[k] /\ heap'[g_ctx.cache[k]] = heap[g_ctx.cache[k]]
  BY <1>3, <1>4, <1>5, <1>8, <1>11, <1>12, Zenon
<1> QED
  BY <1>13, <1>14, <1>15, <1>16, <1>17, <1>18, Zenon DEF LifecycleInv

\* The invariant is inductive.
LEMMA LifecycleStep ==
    ASSUME LifecycleInv, [LifecycleNext]_lifecycleVars
    PROVE  LifecycleInv'
PROOF
<1>1. CASE UNCHANGED lifecycleVars
  BY <1>1 DEF lifecycleVars, LifecycleInv, LifecycleTypeOK, ScopesInv, AllocatedInv, UniqueInv,
              NoLeakInv, Own, IsGlobal
<1>2. CASE LifecycleNext
  BY <1>2, GlobalInitStep, GlobalDeinitStep, InitModuleStep, SetConfigStep, FinalizeStep,
     ExitModuleStep, Zenon DEF LifecycleNext
<1> QED
  BY <1>1, <1>2, Zenon

\* What a step does to a global cache: nothing, unless the context is released.
LEMMA GlobalStep ==
    ASSUME LifecycleInv, [LifecycleNext]_lifecycleVars, g_ctx'.live,
           NEW k \in Kind, g_ctx.cache[k] # NULL
    PROVE  g_ctx'.cache[k] = g_ctx.cache[k] /\ heap'[g_ctx.cache[k]] = heap[g_ctx.cache[k]]
PROOF
<1> USE LifecycleAssumption, AddressAssumption
<1>1. g_ctx.live /\ g_ctx.cache[k] \in Address
  BY Zenon DEF LifecycleInv, ScopesInv, LifecycleTypeOK, Pointer
<1>2. CASE UNCHANGED lifecycleVars
  BY <1>2, Zenon DEF lifecycleVars
<1>3. CASE ndpi_global_init
  BY <1>1, <1>3, Zenon DEF ndpi_global_init
<1>4. CASE ndpi_global_deinit
  BY <1>4, Zenon DEF ndpi_global_deinit, NoContext
<1>5. CASE \E m \in Module, g \in BOOLEAN : ndpi_init_detection_module(m, g)
  BY <1>5, Zenon DEF ndpi_init_detection_module
<1>6. CASE \E m \in Module, j \in Kind, param \in {"size", "ttl", "scope"}, value \in 0..(MaxValue + 1) :
              ndpi_set_config(m, j, param, value)
  BY <1>6, Zenon DEF ndpi_set_config
<1>7. CASE \E m \in Module : ndpi_finalize_initialization(m)
  BY <1>7, FinalizeStep, Zenon
<1>8. ASSUME NEW m \in Module, ndpi_exit_detection_module(m)
      PROVE  g_ctx'.cache[k] = g_ctx.cache[k] /\ heap'[g_ctx.cache[k]] = heap[g_ctx.cache[k]]
  <2>1. g_ctx.cache[k] \notin Freed(m)
    BY DEF Freed, Own, LifecycleInv, UniqueInv
  <2> QED
    BY <1>1, <1>8, <2>1, Zenon DEF ndpi_exit_detection_module
<1> QED
  BY <1>2, <1>3, <1>4, <1>5, <1>6, <1>7, <1>8, Zenon DEF LifecycleNext

-----------------------------------------------------------------------------
(* The theorems.                                                           *)

\* Whatever the order in which modules are initialised, configured, finalized and
\* released, with or without a global context, and whichever allocations of
\* ndpi_finalize_initialization() fail: every pointer to a cache is to an allocated
\* one, a cache two modules use has a mutex, none leaks and none is freed twice.
THEOREM CachesHaveOneOwner == LifecycleSpec => []CachesOwned
PROOF
<1>1. LifecycleInit => LifecycleInv
  BY InitLifecycle, Zenon
<1>2. LifecycleInv /\ [LifecycleNext]_lifecycleVars => LifecycleInv'
  BY LifecycleStep, Zenon
<1>3. LifecycleInv => CachesOwned
  BY OwnersInv, Zenon
<1> QED
  BY <1>1, <1>2, <1>3, PTL DEF LifecycleSpec

\* A cache of the global context stays where and as it was created until
\* ndpi_global_deinit(), whatever modules are finalized or released meanwhile.
THEOREM GlobalCachesAreKept == LifecycleSpec => GlobalCacheKept
PROOF
<1>1. LifecycleInit => LifecycleInv
  BY InitLifecycle, Zenon
<1>2. LifecycleInv /\ [LifecycleNext]_lifecycleVars => LifecycleInv'
  BY LifecycleStep, Zenon
<1>3. LifecycleInv /\ [LifecycleNext]_lifecycleVars =>
        [\A k \in Kind : g_ctx.cache[k] # NULL /\ g_ctx'.live =>
            g_ctx'.cache[k] = g_ctx.cache[k] /\ heap'[g_ctx.cache[k]] = heap[g_ctx.cache[k]]]_lifecycleVars
  BY GlobalStep, Zenon
<1> QED
  BY <1>1, <1>2, <1>3, PTL DEF LifecycleSpec, GlobalCacheKept
-----------------------------------------------------------------------------
(* The address cache.                                                      *)

Bucket == 0..(num_root_nodes - 1)

CacheShape(c) ==
    /\ DOMAIN c = {"root", "num_entries"}
    /\ c.root \in [Bucket -> Seq(Item)] /\ c.num_entries \in Int

\* The items of a list are those of its bucket, and no two have the same address.
ListSound(list, h) ==
    /\ \A j \in DOMAIN list : hash_id(list[j].addr) = h
    /\ \A j, k \in DOMAIN list : list[j].addr = list[k].addr => j = k

CacheSound(c) == CacheShape(c) /\ \A h \in Bucket : ListSound(c.root[h], h)

\* i is an item of c.
ItemIn(c, i) == \E h \in Bucket : \E j \in DOMAIN c.root[h] : i = c.root[h][j]

\* x is a bucket of c and a place in its list.
PlaceIn(c, x) == \E h \in Bucket : \E j \in DOMAIN c.root[h] : x = <<h, j>>

\* The places outside of bucket h.
Beside(c, h) == {x \in Places(c) : x[1] # h}

\* Outside of bucket h the lists are the same.
Others(c, d, h) == \A g \in Bucket \ {h} : d.root[g] = c.root[g]

\* d is c with another list in bucket h.
OtherList(c, h, list, d) == DOMAIN d = {"root", "num_entries"} /\ d.root = [c.root EXCEPT ![h] = list]

\* What that does to the places.
Relisted(c, h, list, d) ==
    /\ d.root[h] = list /\ Others(c, d, h)
    /\ Cardinality(Places(d)) = Cardinality(Places(c)) - Len(c.root[h]) + Len(list)

\* num_entries without the items: the updates that were counted as insertions.
Spare(c) == c.num_entries - Cardinality(Places(c))

\* There is a bucket, and the hash of an address names one.
LEMMA Buckets ==
    /\ num_root_nodes \in Nat \ {0}
    /\ \A a \in Addr : hash_id(a) \in Bucket
<1>1. num_root_nodes \in Nat \ {0}
  BY AddressCacheAssumption DEF num_root_nodes, NDPI_NUM_DEFAULT_ROOT_NODES
<1>2. \A x \in Nat, y \in Nat \ {0} : x % y \in 0..(y - 1)
  OBVIOUS
<1> QED
  BY <1>1, <1>2, AddressCacheAssumption, Zenon DEF hash_id, Bucket

\* The places of a cache, and what is at them.
LEMMA PlacesAre ==
    ASSUME NEW c, CacheShape(c)
    PROVE  /\ IsFiniteSet(Places(c)) /\ Cardinality(Places(c)) \in Nat
           /\ \A x : x \in Places(c) <=> PlaceIn(c, x)
           /\ \A i : ItemIn(c, i) <=> \E x \in Places(c) : i = ItemAt(c, x)
<1>1. DOMAIN c.root = Bucket /\ \A h \in Bucket : c.root[h] \in Seq(Item)
  BY Zenon DEF CacheShape
<1>2. \A x : x \in Places(c) <=> PlaceIn(c, x)
  BY <1>1 DEF Places, PlaceIn
<1>3. \A i : ItemIn(c, i) <=> \E x \in Places(c) : i = ItemAt(c, x)
  <2>1. \A h, j : ItemAt(c, <<h, j>>) = c.root[h][j]
    BY Zenon DEF ItemAt
  <2>2. ASSUME NEW i, ItemIn(c, i) PROVE \E x \in Places(c) : i = ItemAt(c, x)
    <3>1. PICK h \in Bucket : \E j \in DOMAIN c.root[h] : i = c.root[h][j]
      BY <2>2, Zenon DEF ItemIn
    <3>2. PICK j \in DOMAIN c.root[h] : i = c.root[h][j]
      BY <3>1, Zenon
    <3>3. <<h, j>> \in Places(c) /\ i = ItemAt(c, <<h, j>>)
      BY <1>2, <2>1, <3>2, Zenon DEF PlaceIn
    <3> QED
      BY <3>3, Zenon
  <2>3. ASSUME NEW i, NEW x \in Places(c), i = ItemAt(c, x) PROVE ItemIn(c, i)
    <3>1. PICK h \in Bucket : \E j \in DOMAIN c.root[h] : x = <<h, j>>
      BY <1>2, Zenon DEF PlaceIn
    <3>2. PICK j \in DOMAIN c.root[h] : x = <<h, j>>
      BY <3>1, Zenon
    <3>3. i = c.root[h][j]
      BY <2>1, <2>3, <3>2, Zenon
    <3> QED
      BY <3>3, Zenon DEF ItemIn
  <2> QED
    BY <2>2, <2>3, Zenon
<1>4. IsFiniteSet(Places(c))
  <2> DEFINE row(h) == {h} \X DOMAIN c.root[h]
             S == {row(h) : h \in Bucket}
             f == [h \in Bucket |-> row(h)]
  <2>1. IsFiniteSet(Bucket)
    BY Buckets, FS_Interval DEF Bucket
  <2>2. f \in Surjection(Bucket, S)
    BY Zenon DEF Surjection
  <2>3. IsFiniteSet(S)
    BY <2>1, <2>2, FS_Surjection, Zenon
  <2>4. ASSUME NEW h \in Bucket PROVE IsFiniteSet(row(h))
    <3>1. IsFiniteSet({h})
      BY FS_Singleton, Zenon
    <3>2. DOMAIN c.root[h] = 1..Len(c.root[h]) /\ Len(c.root[h]) \in Nat
      BY <1>1
    <3>3. IsFiniteSet(DOMAIN c.root[h])
      BY <3>2, FS_Interval
    <3> QED
      BY <3>1, <3>3, FS_Product, Zenon
  <2>5. Places(c) = UNION S
    BY <1>1, Zenon DEF Places
  <2> HIDE DEF S, row
  <2>6. \A T \in S : IsFiniteSet(T)
    BY <2>4, Zenon DEF S
  <2> QED
    BY <2>3, <2>5, <2>6, FS_UNION, Zenon
<1>5. Cardinality(Places(c)) \in Nat
  BY <1>4, FS_CardinalityType, Zenon
<1> QED
  BY <1>2, <1>3, <1>4, <1>5, Zenon

\* A place of another bucket is the same in both caches.
LEMMA PlaceKept ==
    ASSUME NEW a, NEW b, NEW h, NEW x, PlaceIn(a, x), x[1] # h,
           Others(a, b, h)
    PROVE  PlaceIn(b, x)
<1>1. PICK g \in Bucket : \E j \in DOMAIN a.root[g] : x = <<g, j>>
  BY Zenon DEF PlaceIn
<1>2. PICK j \in DOMAIN a.root[g] : x = <<g, j>>
  BY <1>1, Zenon
<1>3. g # h
  BY <1>2, Zenon
<1>4. j \in DOMAIN b.root[g]
  BY <1>3, Zenon DEF Others
<1> QED
  BY <1>2, <1>4, Zenon DEF PlaceIn

\* Outside of one bucket the places are the same.
LEMMA PlacesKeptBeside ==
    ASSUME NEW c, CacheShape(c), NEW d, CacheShape(d), NEW h,
           Others(c, d, h)
    PROVE  Beside(d, h) = Beside(c, h)
<1>1. \A x : x \in Places(d) <=> PlaceIn(d, x)
  BY PlacesAre, Zenon
<1>2. \A x : x \in Places(c) <=> PlaceIn(c, x)
  BY PlacesAre, Zenon
<1>3. Others(d, c, h)
  BY Zenon DEF Others
<1>4. ASSUME NEW x, x[1] # h, PlaceIn(c, x) PROVE PlaceIn(d, x)
  BY <1>4, PlaceKept, Zenon
<1>5. ASSUME NEW x, x[1] # h, PlaceIn(d, x) PROVE PlaceIn(c, x)
  BY <1>3, <1>5, PlaceKept, Zenon
<1>6. \A x : x[1] # h => (x \in Places(d) <=> x \in Places(c))
  BY <1>1, <1>2, <1>4, <1>5, Zenon
<1> QED
  BY <1>6, Zenon DEF Beside

\* Another list in one bucket changes the number of places by the difference of the lists.
LEMMA OneBucket ==
    ASSUME NEW c, CacheShape(c), NEW h \in Bucket, NEW d, CacheShape(d), Others(c, d, h)
    PROVE  Cardinality(Places(d)) = Cardinality(Places(c)) - Len(c.root[h]) + Len(d.root[h])
<1>2. ASSUME NEW e, CacheShape(e)
      PROVE  /\ IsFiniteSet(Beside(e, h))
             /\ Cardinality(Places(e)) = Cardinality(Beside(e, h)) + Len(e.root[h])
  <2> DEFINE rest == Beside(e, h)
             row == {h} \X DOMAIN e.root[h]
  <2>1. IsFiniteSet(Places(e)) /\ \A x : x \in Places(e) <=> PlaceIn(e, x)
    BY <1>2, PlacesAre, Zenon
  <2>2. IsFiniteSet(rest)
    BY <2>1, FS_Subset, Zenon DEF Beside
  <2>3. DOMAIN e.root[h] = 1..Len(e.root[h]) /\ Len(e.root[h]) \in Nat
    BY <1>2 DEF CacheShape
  <2>4. IsFiniteSet(DOMAIN e.root[h]) /\ Cardinality(DOMAIN e.root[h]) = Len(e.root[h])
    BY <2>3, FS_Interval
  <2>5. IsFiniteSet({h}) /\ Cardinality({h}) = 1
    BY FS_Singleton, Zenon
  <2>6. IsFiniteSet(row) /\ Cardinality(row) = Len(e.root[h])
    <3>1. IsFiniteSet(row) /\ Cardinality(row) = Cardinality({h}) * Cardinality(DOMAIN e.root[h])
      BY <2>4, <2>5, FS_Product, Zenon
    <3> QED
      BY <2>3, <2>4, <2>5, <3>1
  <2>7. Places(e) = rest \union row /\ rest \intersect row = {}
    BY <2>1 DEF PlaceIn, Beside
  <2> HIDE DEF rest, row
  <2>8. Cardinality(Places(e)) = Cardinality(rest) + Cardinality(row) - Cardinality({})
    <3>1. Cardinality(rest \union row) = Cardinality(rest) + Cardinality(row) - Cardinality(rest \intersect row)
      BY <2>2, <2>6, FS_Union, Zenon
    <3> QED
      BY <2>7, <3>1, Zenon
  <2>9. Cardinality(rest) \in Nat /\ Cardinality({}) = 0
    BY <2>2, FS_CardinalityType, FS_EmptySet, Zenon
  <2>10. Cardinality(Places(e)) = Cardinality(rest) + Len(e.root[h])
    BY <2>3, <2>6, <2>8, <2>9
  <2> QED
    BY <2>2, <2>10, Zenon DEF rest
<1>3. Beside(d, h) = Beside(c, h)
  BY PlacesKeptBeside, Zenon
<1> DEFINE rest == Beside(c, h)
<1>4. IsFiniteSet(rest) /\ Cardinality(Places(c)) = Cardinality(rest) + Len(c.root[h])
  BY <1>2, Zenon
<1>5. Cardinality(Places(d)) = Cardinality(rest) + Len(d.root[h])
  BY <1>2, <1>3, Zenon
<1> HIDE DEF rest
<1>6. Cardinality(rest) \in Nat /\ Len(c.root[h]) \in Nat /\ Len(d.root[h]) \in Nat
  BY <1>4, FS_CardinalityType DEF CacheShape
<1> QED
  BY <1>4, <1>5, <1>6

\* Dropping items keeps a list sound.
LEMMA DropSound ==
    ASSUME NEW s \in Seq(Item), NEW h, ListSound(s, h), NEW keep, keep \subseteq DOMAIN s,
           NEW t, t = EntriesAt(s, keep)
    PROVE  /\ t \in Seq(Item) /\ ListSound(t, h)
           /\ IsFiniteSet(keep) /\ Len(t) = Cardinality(keep) /\ Len(t) <= Len(s)
           /\ \A n \in DOMAIN t : \E i \in keep : t[n] = s[i]
           /\ \A i \in keep : \E n \in DOMAIN t : t[n] = s[i]
<1>1. t \in Seq(Item) /\ IsFiniteSet(keep) /\ Len(t) = Cardinality(keep)
  BY EntriesMap, Zenon
<1>2. PICK place : ComesFrom(s, keep, t, place)
  BY EntriesMap, Zenon
<1>3. /\ \A n \in DOMAIN t : place[n] \in keep /\ t[n] = s[place[n]]
      /\ \A m, n \in DOMAIN t : place[m] = place[n] => m = n
      /\ \A i \in keep : \E n \in DOMAIN t : place[n] = i
  BY <1>2, Zenon DEF ComesFrom
<1>4. ListSound(t, h)
  <2>1. \A n \in DOMAIN t : hash_id(t[n].addr) = h
    BY <1>3 DEF ListSound
  <2>2. ASSUME NEW m \in DOMAIN t, NEW n \in DOMAIN t, t[m].addr = t[n].addr PROVE m = n
    <3>1. s[place[m]].addr = s[place[n]].addr /\ place[m] \in DOMAIN s /\ place[n] \in DOMAIN s
      BY <1>3, <2>2, Zenon
    <3>2. place[m] = place[n]
      BY <3>1, Zenon DEF ListSound
    <3> QED
      BY <1>3, <3>2, Zenon
  <2> QED
    BY <2>1, <2>2, Zenon DEF ListSound
<1>5. Len(t) <= Len(s)
  <2>1. DOMAIN s = 1..Len(s) /\ Len(s) \in Nat
    OBVIOUS
  <2>2. IsFiniteSet(1..Len(s)) /\ Cardinality(1..Len(s)) = Len(s)
    <3>1. \A k \in Nat : IsFiniteSet(1..k) /\ Cardinality(1..k) = k
      BY FS_Interval
    <3> QED
      BY <2>1, <3>1, Zenon
  <2>3. keep \in SUBSET (1..Len(s))
    BY <2>1, Zenon
  <2>4. Cardinality(keep) <= Cardinality(1..Len(s))
    BY <2>2, <2>3, FS_Subset, Zenon
  <2> QED
    BY <1>1, <2>2, <2>4, Zenon
<1>6. \A n \in DOMAIN t : \E i \in keep : t[n] = s[i]
  BY <1>3
<1>7. \A i \in keep : \E n \in DOMAIN t : t[n] = s[i]
  BY <1>3
<1> QED
  BY <1>1, <1>4, <1>5, <1>6, <1>7, Zenon

\* A sound list for one bucket makes a sound cache.
LEMMA OtherListSound ==
    ASSUME NEW c, CacheSound(c), NEW h \in Bucket, NEW list \in Seq(Item), ListSound(list, h),
           NEW d, OtherList(c, h, list, d), d.num_entries \in Int
    PROVE  CacheSound(d) /\ Relisted(c, h, list, d)
<1>0. CacheShape(c)
  BY Zenon DEF CacheSound
<1>1. CacheShape(d) /\ d.root[h] = list /\ Others(c, d, h)
  BY <1>0, Zenon DEF CacheShape, Others, OtherList
<1>2. CacheSound(d)
  <2>1. ASSUME NEW g \in Bucket, g # h PROVE ListSound(d.root[g], g)
    BY <1>1, <2>1, Zenon DEF CacheSound, Others
  <2>2. ListSound(d.root[h], h)
    BY <1>1, Zenon
  <2> QED
    BY <1>1, <2>1, <2>2, Zenon DEF CacheSound
<1>3. Cardinality(Places(d)) = Cardinality(Places(c)) - Len(c.root[h]) + Len(d.root[h])
  BY <1>0, <1>1, OneBucket, Zenon
<1> QED
  BY <1>1, <1>2, <1>3, Zenon DEF Relisted

\* Everything of b is in c, and everything of c that has not expired is in b.
Purged(c, b, now) ==
    /\ \A i : ItemIn(b, i) => ItemIn(c, i)
    /\ \A i : ItemIn(c, i) /\ ~Expired(i, now) => ItemIn(b, i)

\* No more places, and as many spare ones.
Shrunk(c, d) == Spare(d) = Spare(c) /\ Cardinality(Places(d)) <= Cardinality(Places(c))

\* Where no search for a succeeds there is no item for a.
Missing(c, a, now) == Hits(c.root[hash_id(a)], a, now) = {} => \A i : ItemIn(c, i) => i.addr # a

\* A cache that lost items of one list.
LEMMA DroppedItems ==
    ASSUME NEW c, CacheSound(c), NEW h \in Bucket, NEW keep, keep \subseteq DOMAIN c.root[h],
           NEW t, t = EntriesAt(c.root[h], keep),
           NEW d, OtherList(c, h, t, d),
           d.num_entries = c.num_entries - (Len(c.root[h]) - Len(t))
    PROVE  CacheSound(d) /\ Relisted(c, h, t, d) /\ Shrunk(c, d)
<1>0. /\ c.root[h] \in Seq(Item) /\ ListSound(c.root[h], h)
      /\ c.num_entries \in Int /\ Cardinality(Places(c)) \in Nat
  <2>1. CacheShape(c)
    BY Zenon DEF CacheSound
  <2>2. Cardinality(Places(c)) \in Nat
    BY <2>1, PlacesAre, Zenon
  <2> QED
    BY <2>1, <2>2, Zenon DEF CacheSound, CacheShape
<1>1. t \in Seq(Item) /\ ListSound(t, h) /\ Len(t) <= Len(c.root[h])
  BY <1>0, DropSound
<1>2. Len(t) \in Nat /\ Len(c.root[h]) \in Nat
  BY <1>0, <1>1
<1> DEFINE P == Cardinality(Places(c))  Q == Cardinality(Places(d))  L == Len(c.root[h])  K == Len(t)
           u == c.num_entries  v == d.num_entries
<1>3. P \in Nat /\ L \in Nat /\ K \in Nat /\ K <= L /\ u \in Int /\ v = u - (L - K)
  BY <1>0, <1>1, <1>2, Zenon
<1>4. Spare(d) = v - Q /\ Spare(c) = u - P
  BY Zenon DEF Spare
<1> HIDE DEF P, Q, L, K, u, v
<1>5. v \in Int
  BY <1>3
<1>6. CacheSound(d) /\ Relisted(c, h, t, d) /\ Q = P - L + K
  <2>1. d.num_entries \in Int
    BY <1>5, Zenon DEF v
  <2>2. CacheSound(d) /\ Relisted(c, h, t, d)
    BY <1>1, <2>1, OtherListSound, Zenon
  <2> QED
    BY <2>2, Zenon DEF P, Q, L, K, Relisted
<1>7. v - Q = u - P /\ Q <= P
  BY <1>3, <1>6
<1> QED
  BY <1>4, <1>6, <1>7, Zenon DEF P, Q, Shrunk

\* Items of one list that are left alone, and items of the others.
LEMMA ItemsBeside ==
    ASSUME NEW c, NEW d, NEW h \in Bucket, Others(c, d, h), NEW now,
           \A n \in DOMAIN d.root[h] : \E j \in DOMAIN c.root[h] : d.root[h][n] = c.root[h][j],
           \A j \in DOMAIN c.root[h] : Expired(c.root[h][j], now)
               \/ \E n \in DOMAIN d.root[h] : d.root[h][n] = c.root[h][j]
    PROVE  Purged(c, d, now)
<1>1. ASSUME NEW i, ItemIn(d, i) PROVE ItemIn(c, i)
  <2>1. PICK g \in Bucket : \E j \in DOMAIN d.root[g] : i = d.root[g][j]
    BY <1>1, Zenon DEF ItemIn
  <2>2. PICK j \in DOMAIN d.root[g] : i = d.root[g][j]
    BY <2>1, Zenon
  <2>3. CASE g = h
    BY <2>2, <2>3, Zenon DEF ItemIn
  <2>4. CASE g # h
    <3>1. d.root[g] = c.root[g]
      BY <2>4, Zenon DEF Others
    <3> QED
      BY <2>2, <3>1, Zenon DEF ItemIn
  <2> QED
    BY <2>3, <2>4, Zenon
<1>2. ASSUME NEW i, ItemIn(c, i), ~Expired(i, now) PROVE ItemIn(d, i)
  <2>1. PICK g \in Bucket : \E j \in DOMAIN c.root[g] : i = c.root[g][j]
    BY <1>2, Zenon DEF ItemIn
  <2>2. PICK j \in DOMAIN c.root[g] : i = c.root[g][j]
    BY <2>1, Zenon
  <2>3. CASE g = h
    BY <1>2, <2>2, <2>3, Zenon DEF ItemIn
  <2>4. CASE g # h
    <3>1. d.root[g] = c.root[g]
      BY <2>4, Zenon DEF Others
    <3> QED
      BY <2>2, <3>1, Zenon DEF ItemIn
  <2> QED
    BY <2>3, <2>4, Zenon
<1> QED
  BY <1>1, <1>2, Zenon DEF Purged

\* ndpi_address_cache_find(): expired items may go, all others stay.
LEMMA Searched ==
    ASSUME NEW c, CacheSound(c), NEW a \in Addr, NEW now
    PROVE  LET d == AfterSearch(c, a, now)
           IN  CacheSound(d) /\ Shrunk(c, d) /\ Purged(c, d, now) /\ Missing(d, a, now)
<1> DEFINE h == hash_id(a)
           list == c.root[h]
           hits == Hits(list, a, now)
           keep == {j \in DOMAIN list : ~Expired(list[j], now) \/ (hits # {} /\ j >= Least(hits))}
           t == EntriesAt(list, keep)
           d == AfterSearch(c, a, now)
<1>1. h \in Bucket
  BY Buckets, Zenon
<1>2. list \in Seq(Item) /\ ListSound(list, h) /\ keep \subseteq DOMAIN list
  BY <1>1, Zenon DEF CacheSound, CacheShape
<1>3. d = [root |-> [c.root EXCEPT ![h] = t], num_entries |-> c.num_entries - (Len(list) - Len(t))]
  BY Zenon DEF AfterSearch
<1> HIDE DEF h, t, d
<1>4. OtherList(c, h, t, d) /\ d.num_entries = c.num_entries - (Len(c.root[h]) - Len(t))
  BY <1>3, Zenon DEF OtherList
<1>5. t = EntriesAt(c.root[h], keep) /\ keep \subseteq DOMAIN c.root[h]
  BY <1>2, Zenon DEF t
<1> HIDE DEF keep
<1>6. CacheSound(d) /\ Relisted(c, h, t, d) /\ Shrunk(c, d)
  BY <1>1, <1>4, <1>5, DroppedItems, Zenon
<1>7. /\ t \in Seq(Item) /\ \A n \in DOMAIN t : \E j \in keep : t[n] = list[j]
      /\ \A j \in keep : \E n \in DOMAIN t : t[n] = list[j]
  <2> HIDE DEF list
  <2> QED
    BY <1>2, DropSound DEF t
<1>8. d.root[h] = t /\ Others(c, d, h)
  BY <1>6, Zenon DEF Relisted
<1>9. Purged(c, d, now)
  <2>1. \A n \in DOMAIN d.root[h] : \E j \in DOMAIN c.root[h] : d.root[h][n] = c.root[h][j]
    BY <1>2, <1>7, <1>8, Zenon
  <2>2. \A j \in DOMAIN c.root[h] : Expired(c.root[h][j], now) \/ j \in keep
    BY Zenon DEF keep
  <2>3. \A j \in DOMAIN c.root[h] :
           Expired(c.root[h][j], now) \/ \E n \in DOMAIN d.root[h] : d.root[h][n] = c.root[h][j]
    BY <1>7, <1>8, <2>2, Zenon
  <2> QED
    BY <1>1, <1>8, <2>1, <2>3, ItemsBeside, Zenon
<1>10. Missing(d, a, now)
  <2> SUFFICES ASSUME Hits(d.root[h], a, now) = {}, NEW i, ItemIn(d, i), i.addr = a PROVE FALSE
    BY Zenon DEF Missing, h
  <2>1. PICK g \in Bucket : \E n \in DOMAIN d.root[g] : i = d.root[g][n]
    BY Zenon DEF ItemIn
  <2>2. PICK n \in DOMAIN d.root[g] : i = d.root[g][n]
    BY <2>1, Zenon
  <2>3. g = h
    BY <1>6, <2>2, Zenon DEF CacheSound, ListSound, h
  <2>4. PICK j \in keep : t[n] = list[j]
    BY <1>7, <1>8, <2>2, <2>3, Zenon
  <2>5. list[j].addr = a
    BY <1>8, <2>2, <2>3, <2>4, Zenon
  <2>6. j \in DOMAIN list
    BY <1>2, <2>4, Zenon
  <2>7. CASE hits = {}
    <3>1. ~Expired(list[j], now)
      BY <2>4, <2>7, Zenon DEF keep
    <3> QED
      BY <2>5, <2>6, <2>7, <3>1, Zenon DEF Hits
  <2>8. CASE hits # {}
    <3>1. PICK k \in hits : TRUE
      BY <2>8, Zenon
    <3>2. k \in DOMAIN list /\ list[k].addr = a /\ ~Expired(list[k], now)
      BY <3>1, Zenon DEF Hits
    <3>3. k \in keep
      BY <3>2, Zenon DEF keep
    <3>4. PICK m \in DOMAIN t : t[m] = list[k]
      BY <1>7, <3>3, Zenon
    <3>5. m \in Hits(t, a, now)
      BY <3>2, <3>4, Zenon DEF Hits
    <3> QED
      BY <1>8, <3>5, Zenon
  <2> QED
    BY <2>7, <2>8, Zenon
<1> QED
  BY <1>6, <1>9, <1>10, Zenon DEF d

\* Sets with a bijection between them have the same size.
LEMMA SameSize ==
    ASSUME NEW S, NEW T, IsFiniteSet(T), NEW f \in [S -> T],
           \A x, y \in S : f[x] = f[y] => x = y, \A z \in T : \E x \in S : f[x] = z
    PROVE  Cardinality(S) = Cardinality(T)
<1>1. f \in Injection(S, T) /\ f \in Surjection(S, T)
  BY Zenon DEF Injection, Surjection, IsInjective
<1> QED
  BY <1>1, FS_Injection, Zenon

\* ndpi_address_cache_flush_expired(): the items left are items of before, and
\* num_entries is taken down by as many as went.
LEMMA FlushedItems ==
    ASSUME NEW c, CacheSound(c), NEW now
    PROVE  LET d == Flushed(c, now)
           IN  CacheSound(d) /\ Shrunk(c, d) /\ \A i : ItemIn(d, i) => ItemIn(c, i)
<1> DEFINE gone(i) == i.expire_epoch > now
           keep(h) == {j \in DOMAIN c.root[h] : ~gone(c.root[h][j])}
           left(h) == EntriesAt(c.root[h], keep(h))
           U == {x \in Places(c) : gone(ItemAt(c, x))}
           K == Places(c) \ U
           d == Flushed(c, now)
<1>1. /\ CacheShape(c) /\ DOMAIN c.root = Bucket /\ c.num_entries \in Int
      /\ \A h \in Bucket : c.root[h] \in Seq(Item) /\ ListSound(c.root[h], h)
  BY Zenon DEF CacheSound, CacheShape
<1>2. d = [root |-> [h \in Bucket |-> left(h)], num_entries |-> c.num_entries - Cardinality(U)]
  BY <1>1, Zenon DEF Flushed
<1>3. \A h \in Bucket : keep(h) \subseteq DOMAIN c.root[h]
  BY Zenon
<1> HIDE DEF left, d, K, U
<1>4. /\ DOMAIN d = {"root", "num_entries"} /\ DOMAIN d.root = Bucket
      /\ d.num_entries = c.num_entries - Cardinality(U) /\ \A h \in Bucket : d.root[h] = left(h)
  BY <1>2, Zenon
<1> HIDE DEF keep
<1>5. ASSUME NEW h \in Bucket
      PROVE  /\ d.root[h] \in Seq(Item) /\ ListSound(d.root[h], h)
             /\ \E place : ComesFrom(c.root[h], keep(h), d.root[h], place)
  <2> DEFINE s == c.root[h]  t == d.root[h]  k == keep(h)
  <2>1. s \in Seq(Item) /\ ListSound(s, h) /\ k \subseteq DOMAIN s /\ t = EntriesAt(s, k)
    BY <1>1, <1>3, <1>4, Zenon DEF left
  <2> HIDE DEF s, t, k
  <2>2. t \in Seq(Item) /\ ListSound(t, h)
    BY <2>1, DropSound, Zenon
  <2>3. \E place : ComesFrom(s, k, t, place)
    BY <2>1, EntriesMap, Zenon
  <2> QED
    BY <2>2, <2>3, Zenon DEF s, t, k
<1> DEFINE Source(h) == CHOOSE place : ComesFrom(c.root[h], keep(h), d.root[h], place)
<1>6. \A h \in Bucket : ComesFrom(c.root[h], keep(h), d.root[h], Source(h))
  BY <1>5, Zenon
<1> HIDE DEF Source
<1>7. \A h \in Bucket : /\ \A n \in DOMAIN d.root[h] : /\ Source(h)[n] \in keep(h)
                                                       /\ d.root[h][n] = c.root[h][Source(h)[n]]
                        /\ \A m, n \in DOMAIN d.root[h] : Source(h)[m] = Source(h)[n] => m = n
                        /\ \A j \in keep(h) : \E n \in DOMAIN d.root[h] : Source(h)[n] = j
  BY <1>6 DEF ComesFrom
<1>8. \A i : ItemIn(d, i) => ItemIn(c, i)
  BY <1>3, <1>7 DEF ItemIn
<1>9. IsFiniteSet(Places(c)) /\ \A x : x \in Places(c) <=> PlaceIn(c, x)
  BY <1>1, PlacesAre, Zenon
<1>10. IsFiniteSet(U) /\ Cardinality(U) \in Nat /\ IsFiniteSet(K) /\ Cardinality(Places(c)) \in Nat
  BY <1>9, FS_Subset, FS_CardinalityType, Zenon DEF U, K
<1>11. Cardinality(K) = Cardinality(Places(c)) - Cardinality(U)
  <2>1. Cardinality(Places(c) \ U) = Cardinality(Places(c)) - Cardinality(Places(c) \intersect U)
    BY <1>9, FS_Difference, Zenon
  <2>2. Places(c) \intersect U = U
    BY Zenon DEF U
  <2> QED
    BY <2>1, <2>2, Zenon DEF K
<1>12. CacheShape(d)
  <2>1. d.root \in [Bucket -> Seq(Item)]
    BY <1>2, <1>4, <1>5, Zenon
  <2>2. d.num_entries \in Int
    <3> DEFINE u == c.num_entries  v == Cardinality(U)
    <3>1. u \in Int /\ v \in Nat /\ d.num_entries = u - v
      BY <1>1, <1>4, <1>10, Zenon
    <3> HIDE DEF u, v
    <3> QED
      BY <3>1
  <2> QED
    BY <1>4, <2>1, <2>2, Zenon DEF CacheShape
<1>13. CacheSound(d)
  BY <1>5, <1>12, Zenon DEF CacheSound
<1>14. \A x : x \in Places(d) <=> PlaceIn(d, x)
  BY <1>12, PlacesAre, Zenon
<1>15. Cardinality(Places(d)) = Cardinality(K)
  <2> DEFINE f == [x \in Places(d) |-> <<x[1], Source(x[1])[x[2]]>>]
  <2>1. \A x \in Places(d) : \E h \in Bucket : \E n \in DOMAIN d.root[h] : x = <<h, n>>
    BY <1>14, Zenon DEF PlaceIn
  <2>2. ASSUME NEW h \in Bucket, NEW n \in DOMAIN d.root[h]
        PROVE  <<h, n>> \in Places(d) /\ f[<<h, n>>] = <<h, Source(h)[n]>>
    <3>1. <<h, n>> \in Places(d)
      BY <1>14, Zenon DEF PlaceIn
    <3> QED
      BY <3>1, Zenon
  <2>3. ASSUME NEW h \in Bucket, NEW j
        PROVE  <<h, j>> \in K <=> j \in keep(h)
    <3>1. ItemAt(c, <<h, j>>) = c.root[h][j]
      BY Zenon DEF ItemAt
    <3>2. <<h, j>> \in Places(c) <=> j \in DOMAIN c.root[h]
      BY <1>9 DEF PlaceIn
    <3> QED
      BY <3>1, <3>2, Zenon DEF K, U, keep
  <2> HIDE DEF f
  <2>4. \A x \in Places(d) : f[x] \in K
    BY <1>7, <2>1, <2>2, <2>3
  <2>5. f \in [Places(d) -> K]
    BY <2>4, Zenon DEF f
  <2>6. ASSUME NEW x \in Places(d), NEW y \in Places(d), f[x] = f[y] PROVE x = y
    BY <1>7, <2>1, <2>2, <2>6
  <2>7. ASSUME NEW z \in K PROVE \E x \in Places(d) : f[x] = z
    <3>1. PICK h \in Bucket : \E j \in DOMAIN c.root[h] : z = <<h, j>>
      BY <1>9, Zenon DEF K, PlaceIn
    <3>2. PICK j \in DOMAIN c.root[h] : z = <<h, j>>
      BY <3>1, Zenon
    <3>3. j \in keep(h)
      BY <2>3, <3>2, Zenon
    <3>4. PICK n \in DOMAIN d.root[h] : Source(h)[n] = j
      BY <1>7, <3>3, Zenon
    <3> QED
      BY <2>2, <3>2, <3>4, Zenon
  <2> QED
    BY <1>10, <2>5, <2>6, <2>7, SameSize, Zenon
<1>16. Shrunk(c, d)
  <2> DEFINE P == Cardinality(Places(c))  Q == Cardinality(Places(d))  k == Cardinality(U)  u == c.num_entries
  <2>1. P \in Nat /\ k \in Nat /\ Q = P - k /\ u \in Int /\ Spare(d) = (u - k) - Q /\ Spare(c) = u - P
    BY <1>1, <1>4, <1>10, <1>11, <1>15, Zenon DEF Spare
  <2> HIDE DEF P, Q, k, u
  <2>2. Spare(d) = Spare(c) /\ Q <= P
    BY <2>1
  <2> QED
    BY <2>2, Zenon DEF P, Q, Shrunk
<1> QED
  BY <1>8, <1>13, <1>16, Zenon DEF d

\* An address has one item.
LEMMA ItemUnique ==
    ASSUME NEW c, CacheSound(c), NEW i, ItemIn(c, i), NEW j, ItemIn(c, j), i.addr = j.addr
    PROVE  i = j
<1>1. PICK g \in Bucket : \E m \in DOMAIN c.root[g] : i = c.root[g][m]
  BY Zenon DEF ItemIn
<1>2. PICK m \in DOMAIN c.root[g] : i = c.root[g][m]
  BY <1>1, Zenon
<1>3. PICK h \in Bucket : \E n \in DOMAIN c.root[h] : j = c.root[h][n]
  BY Zenon DEF ItemIn
<1>4. PICK n \in DOMAIN c.root[h] : j = c.root[h][n]
  BY <1>3, Zenon
<1>5. ListSound(c.root[g], g) /\ ListSound(c.root[h], h)
  BY Zenon DEF CacheSound
<1>6. g = h
  BY <1>2, <1>4, <1>5, Zenon DEF ListSound
<1>7. m = n
  BY <1>2, <1>4, <1>5, <1>6, Zenon DEF ListSound
<1> QED
  BY <1>2, <1>4, <1>6, <1>7, Zenon

\* An item of a cache is an item, in the list of its address.
LEMMA ItemPlace ==
    ASSUME NEW c, CacheSound(c), NEW i, ItemIn(c, i)
    PROVE  i \in Item /\ \E j \in DOMAIN c.root[hash_id(i.addr)] : i = c.root[hash_id(i.addr)][j]
<1>1. PICK g \in Bucket : \E m \in DOMAIN c.root[g] : i = c.root[g][m]
  BY Zenon DEF ItemIn
<1>2. PICK m \in DOMAIN c.root[g] : i = c.root[g][m]
  BY <1>1, Zenon
<1>3. ListSound(c.root[g], g) /\ c.root[g] \in Seq(Item)
  BY Zenon DEF CacheSound, CacheShape
<1>4. hash_id(i.addr) = g
  BY <1>2, <1>3, Zenon DEF ListSound
<1>5. i \in Item
  BY <1>2, <1>3
<1> QED
  BY <1>2, <1>4, <1>5, Zenon

\* d is g and one more item.
Added(g, item, d) ==
    /\ Spare(d) = Spare(g) /\ Cardinality(Places(d)) = Cardinality(Places(g)) + 1
    /\ \A i : ItemIn(d, i) <=> (ItemIn(g, i) \/ i = item)

\* d is f with the life of an item for a made longer, or not.
Longer(f, a, d) ==
    /\ Spare(d) = Spare(f) + 1 /\ Cardinality(Places(d)) = Cardinality(Places(f))
    /\ \A i : ItemIn(d, i) =>
          \/ ItemIn(f, i)
          \/ i.addr = a /\ \E o : ItemIn(f, o) /\ o.addr = a /\ i.expire_epoch >= o.expire_epoch

\* A new item for an address that has none.
LEMMA AddedItem ==
    ASSUME NEW g, CacheSound(g), NEW item \in Item, \A i : ItemIn(g, i) => i.addr # item.addr,
           NEW h, h = hash_id(item.addr), NEW d, OtherList(g, h, <<item>> \o g.root[h], d),
           d.num_entries = g.num_entries + 1
    PROVE  CacheSound(d) /\ Added(g, item, d)
<1> DEFINE s == g.root[h]
           t == <<item>> \o s
           u == g.num_entries
           P == Cardinality(Places(g))
           Q == Cardinality(Places(d))
<1>1. h \in Bucket
  BY Buckets, Zenon DEF Item
<1>2. CacheShape(g) /\ s \in Seq(Item) /\ ListSound(s, h) /\ u \in Int
  BY <1>1, Zenon DEF CacheSound, CacheShape
<1>3. P \in Nat
  BY <1>2, PlacesAre, Zenon
<1>4. \A j \in DOMAIN s : s[j].addr # item.addr
  BY <1>1, Zenon DEF ItemIn
<1>5. Spare(d) = d.num_entries - Q /\ Spare(g) = u - P
  BY Zenon DEF Spare
<1> HIDE DEF s, u, P, Q
<1>6. /\ t \in Seq(Item) /\ Len(t) = Len(s) + 1 /\ Len(s) \in Nat /\ t[1] = item
      /\ DOMAIN t = 1..(Len(s) + 1) /\ DOMAIN s = 1..Len(s)
      /\ \A j \in 2..(Len(s) + 1) : t[j] = s[j - 1]
  BY <1>2
<1> HIDE DEF t
<1>7. \A j \in DOMAIN t : (j = 1 /\ t[j] = item) \/ (j # 1 /\ j - 1 \in DOMAIN s /\ t[j] = s[j - 1])
  BY <1>6
<1>8. ListSound(t, h)
  <2>1. \A j \in DOMAIN t : hash_id(t[j].addr) = h
    BY <1>2, <1>7 DEF ListSound
  <2>2. ASSUME NEW j \in DOMAIN t, NEW k \in DOMAIN t, t[j].addr = t[k].addr PROVE j = k
    <3>1. j \in Nat /\ k \in Nat
      BY <1>6
    <3>2. CASE j = 1
      BY <1>4, <1>7, <2>2, <3>2, Zenon
    <3>3. CASE k = 1
      BY <1>4, <1>7, <2>2, <3>3, Zenon
    <3>4. CASE j # 1 /\ k # 1
      <4>1. s[j - 1].addr = s[k - 1].addr /\ j - 1 \in DOMAIN s /\ k - 1 \in DOMAIN s
        BY <1>7, <2>2, <3>4, Zenon
      <4>2. j - 1 = k - 1
        BY <1>2, <4>1, Zenon DEF ListSound
      <4> QED
        BY <3>1, <4>2
    <3> QED
      BY <3>2, <3>3, <3>4, Zenon
  <2> QED
    BY <2>1, <2>2, Zenon DEF ListSound
<1>9. d.num_entries \in Int
  <2>1. d.num_entries = u + 1
    BY Zenon DEF u
  <2> QED
    BY <1>2, <2>1
<1>10. OtherList(g, h, t, d)
  BY Zenon DEF t, s
<1>11. CacheSound(d) /\ Relisted(g, h, t, d)
  BY <1>1, <1>6, <1>8, <1>9, <1>10, OtherListSound, Zenon
<1>12. Q = P - Len(s) + Len(t) /\ d.root[h] = t /\ Others(g, d, h)
  BY <1>11, Zenon DEF P, Q, s, Relisted
<1>13. Q = P + 1
  BY <1>3, <1>6, <1>12
<1>14. Spare(d) = Spare(g)
  <2>1. d.num_entries = u + 1
    BY Zenon DEF u
  <2> QED
    BY <1>2, <1>3, <1>5, <1>13, <2>1
<1>15. ASSUME NEW i PROVE ItemIn(d, i) <=> (ItemIn(g, i) \/ i = item)
  <2>1. ASSUME ItemIn(d, i) PROVE ItemIn(g, i) \/ i = item
    <3>1. PICK k \in Bucket : \E j \in DOMAIN d.root[k] : i = d.root[k][j]
      BY <2>1, Zenon DEF ItemIn
    <3>2. PICK j \in DOMAIN d.root[k] : i = d.root[k][j]
      BY <3>1, Zenon
    <3>3. CASE k = h
      BY <1>1, <1>7, <1>12, <3>2, <3>3, Zenon DEF ItemIn, s
    <3>4. CASE k # h
      BY <1>12, <3>2, <3>4, Zenon DEF ItemIn, Others
    <3> QED
      BY <3>3, <3>4, Zenon
  <2>2. ASSUME ItemIn(g, i) PROVE ItemIn(d, i)
    <3>1. PICK k \in Bucket : \E j \in DOMAIN g.root[k] : i = g.root[k][j]
      BY <2>2, Zenon DEF ItemIn
    <3>2. PICK j \in DOMAIN g.root[k] : i = g.root[k][j]
      BY <3>1, Zenon
    <3>3. CASE k = h
      <4>1. j \in DOMAIN s /\ i = s[j]
        BY <3>2, <3>3, Zenon DEF s
      <4>2. j + 1 \in DOMAIN t /\ t[j + 1] = s[j]
        BY <1>6, <4>1
      <4> QED
        BY <1>1, <1>12, <4>1, <4>2, Zenon DEF ItemIn
    <3>4. CASE k # h
      BY <1>12, <3>2, <3>4, Zenon DEF ItemIn, Others
    <3> QED
      BY <3>3, <3>4, Zenon
  <2>3. ASSUME i = item PROVE ItemIn(d, i)
    <3>1. 1 \in DOMAIN t
      BY <1>6
    <3> QED
      BY <1>1, <1>6, <1>12, <2>3, <3>1, Zenon DEF ItemIn
  <2> QED
    BY <2>1, <2>2, <2>3, Zenon
<1> QED
  BY <1>11, <1>13, <1>14, <1>15, Zenon DEF P, Q, Added

\* An item of a list that is inserted again.
LEMMA RenewedItem ==
    ASSUME NEW f, CacheSound(f), NEW a \in Addr, NEW h, h = hash_id(a),
           NEW j \in DOMAIN f.root[h], f.root[h][j].addr = a,
           NEW hostname \in Name, NEW until \in 0..(U32 - 1), NEW mem \in BOOLEAN,
           NEW item, item = Renewed(f.root[h][j], hostname, until, mem),
           NEW d, OtherList(f, h, [f.root[h] EXCEPT ![j] = item], d),
           d.num_entries = f.num_entries + 1
    PROVE  CacheSound(d) /\ Longer(f, a, d)
<1> DEFINE s == f.root[h]
           t == [s EXCEPT ![j] = item]
           u == f.num_entries
           P == Cardinality(Places(f))
           Q == Cardinality(Places(d))
<1>1. h \in Bucket
  BY Buckets, Zenon
<1>2. CacheShape(f) /\ s \in Seq(Item) /\ ListSound(s, h) /\ u \in Int
  BY <1>1, Zenon DEF CacheSound, CacheShape
<1>3. P \in Nat
  BY <1>2, PlacesAre, Zenon
<1>4. Spare(d) = d.num_entries - Q /\ Spare(f) = u - P
  BY Zenon DEF Spare
<1>5. j \in DOMAIN s /\ s[j].addr = a /\ item = Renewed(s[j], hostname, until, mem)
  BY Zenon
<1> HIDE DEF s, u, P, Q
<1>6. item \in Item /\ item.addr = a /\ item.expire_epoch >= s[j].expire_epoch
  <2>1. s[j] \in Item /\ U32 \in Nat
    BY <1>2, <1>5, AddressCacheAssumption
  <2> DEFINE o == s[j]
  <2> HIDE DEF o
  <2>2. o \in Item /\ item = Renewed(o, hostname, until, mem) /\ o.addr = a
    BY <1>5, <2>1, Zenon DEF o
  <2>3. item \in Item /\ item.addr = a /\ item.expire_epoch >= o.expire_epoch
    <3> DEFINE e == IF until > o.expire_epoch THEN until ELSE o.expire_epoch
               n == IF mem THEN hostname ELSE o.hostname
    <3>1. item = [o EXCEPT !.expire_epoch = e, !.hostname = n]
      BY <2>2, Zenon DEF Renewed
    <3>2. o.expire_epoch \in 0..(U32 - 1) /\ o.hostname \in Name
      BY <2>2, Zenon DEF Item
    <3>3. e \in 0..(U32 - 1) /\ e >= o.expire_epoch
      BY <2>1, <3>2
    <3>4. n \in Name
      BY <3>2, Zenon
    <3> HIDE DEF e, n
    <3> QED
      BY <2>2, <3>1, <3>3, <3>4, Zenon DEF Item
  <2> QED
    BY <2>3, Zenon DEF o
<1>7. /\ t \in Seq(Item) /\ Len(t) = Len(s) /\ DOMAIN t = DOMAIN s /\ t[j] = item
      /\ \A k \in DOMAIN s : k # j => t[k] = s[k]
  BY <1>2, <1>5, <1>6
<1> HIDE DEF t
<1>8. \A k \in DOMAIN t : t[k].addr = s[k].addr
  BY <1>5, <1>6, <1>7, Zenon
<1>9. ListSound(t, h)
  BY <1>2, <1>7, <1>8 DEF ListSound
<1>10. d.num_entries = u + 1
  BY Zenon DEF u
<1>11. d.num_entries \in Int
  BY <1>2, <1>10
<1>12. OtherList(f, h, t, d)
  BY Zenon DEF t, s
<1>13. CacheSound(d) /\ Relisted(f, h, t, d)
  BY <1>1, <1>7, <1>9, <1>11, <1>12, OtherListSound, Zenon
<1>14. Q = P - Len(s) + Len(t) /\ d.root[h] = t /\ Others(f, d, h)
  BY <1>13, Zenon DEF P, Q, s, Relisted
<1>15. Q = P
  <2>1. Len(s) \in Nat
    BY <1>2
  <2> QED
    BY <1>3, <1>7, <1>14, <2>1
<1>16. Spare(d) = Spare(f) + 1
  BY <1>2, <1>3, <1>4, <1>10, <1>15
<1>17. ASSUME NEW i, ItemIn(d, i)
       PROVE  \/ ItemIn(f, i)
              \/ i.addr = a /\ \E o : ItemIn(f, o) /\ o.addr = a /\ i.expire_epoch >= o.expire_epoch
  <2>1. PICK k \in Bucket : \E n \in DOMAIN d.root[k] : i = d.root[k][n]
    BY <1>17, Zenon DEF ItemIn
  <2>2. PICK n \in DOMAIN d.root[k] : i = d.root[k][n]
    BY <2>1, Zenon
  <2>3. CASE k # h
    BY <1>14, <2>2, <2>3, Zenon DEF ItemIn, Others
  <2>4. CASE k = h /\ n # j
    <3>1. n \in DOMAIN s /\ i = s[n]
      BY <1>7, <1>14, <2>2, <2>4, Zenon
    <3> QED
      BY <1>1, <3>1, Zenon DEF ItemIn, s
  <2>5. CASE k = h /\ n = j
    <3>1. i = item
      BY <1>7, <1>14, <2>2, <2>5, Zenon
    <3>2. ItemIn(f, s[j])
      BY <1>1, <1>5, Zenon DEF ItemIn, s
    <3> QED
      BY <1>5, <1>6, <3>1, <3>2, Zenon
  <2> QED
    BY <2>3, <2>4, <2>5, Zenon
<1> QED
  BY <1>13, <1>15, <1>16, <1>17, Zenon DEF P, Q, Longer

\* The new item of an insertion.
NewItem(a, hostname, now, ttl) ==
    [addr |-> a, hostname |-> hostname, expire_epoch |-> epoch_valid_until(now, ttl)]

\* g is what a search and perhaps a flush leave of c, without an item for a.
Cleared(c, a, now, g) ==
    /\ Hits(AfterSearch(c, a, now).root[hash_id(a)], a, now) = {}
    /\ CacheSound(g) /\ Shrunk(c, g) /\ \A i : ItemIn(g, i) => ItemIn(AfterSearch(c, a, now), i) /\ i.addr # a
    /\ \/ g = AfterSearch(c, a, now)
       \/ AfterSearch(c, a, now).num_entries = max_num_entries

\* ndpi_address_cache_insert() renews an item, has no room or no memory, or adds an item.
Insertion(c, a, hostname, now, ttl, mem, d) ==
    \/ /\ Hits(AfterSearch(c, a, now).root[hash_id(a)], a, now) # {}
       /\ Longer(AfterSearch(c, a, now), a, d)
    \/ Cleared(c, a, now, d) /\ (d.num_entries = max_num_entries \/ ~mem)
    \/ \E g : Cleared(c, a, now, g) /\ Added(g, NewItem(a, hostname, now, ttl), d)

\* The end of an item's life is a 32-bit time.
LEMMA UntilType ==
    ASSUME NEW now \in Nat, NEW ttl \in Nat
    PROVE  epoch_valid_until(now, ttl) \in 0..(U32 - 1)
<1>1. U32 \in Nat /\ U32 # 0
  BY AddressCacheAssumption
<1>2. \A x \in Nat, y \in Nat : y # 0 => x % y \in 0..(y - 1)
  OBVIOUS
<1>3. now + ttl \in Nat
  OBVIOUS
<1> QED
  BY <1>1, <1>2, <1>3, Zenon DEF epoch_valid_until

\* Every insertion is one of these, and leaves a sound cache.
LEMMA InsertedIs ==
    ASSUME NEW c, CacheSound(c), NEW a \in Addr, NEW hostname \in Name, NEW now \in Nat,
           NEW ttl \in Nat, NEW mem \in BOOLEAN
    PROVE  LET d == Inserted(c, a, hostname, now, ttl, mem)
           IN  CacheSound(d) /\ Insertion(c, a, hostname, now, ttl, mem, d)
<1> DEFINE until == epoch_valid_until(now, ttl)
           f == AfterSearch(c, a, now)
           h == hash_id(a)
           hits == Hits(f.root[h], a, now)
           g == IF f.num_entries = max_num_entries THEN Flushed(f, now) ELSE f
           j == Least(hits)
           list == [f.root[h] EXCEPT ![j] = Renewed(@, hostname, until, mem)]
           item == [addr |-> a, hostname |-> hostname, expire_epoch |-> until]
           renew == [root |-> [f.root EXCEPT ![h] = list], num_entries |-> f.num_entries + 1]
           add == [root |-> [g.root EXCEPT ![h] = <<item>> \o @], num_entries |-> g.num_entries + 1]
           d == Inserted(c, a, hostname, now, ttl, mem)
<1>1. d = IF hits # {} THEN renew ELSE IF g.num_entries = max_num_entries \/ ~mem THEN g ELSE add
  BY Zenon DEF Inserted
<1>2. CacheSound(f) /\ Shrunk(c, f) /\ Missing(f, a, now)
  BY Searched, Zenon
<1>3. h \in Bucket
  BY Buckets, Zenon
<1>4. until \in 0..(U32 - 1)
  BY UntilType, Zenon
<1>5. item \in Item /\ item.addr = a /\ item = NewItem(a, hostname, now, ttl)
  BY <1>4, Zenon DEF Item, NewItem
<1>6. hits \subseteq DOMAIN f.root[h] /\ \A k \in hits : f.root[h][k].addr = a
  BY Zenon DEF Hits
<1> HIDE DEF d, renew, add, until, item, f, g, hits
<1>7. CASE hits # {}
  <2>1. hits \subseteq Nat
    <3>1. f.root[h] \in Seq(Item)
      BY <1>2, <1>3, Zenon DEF CacheSound, CacheShape
    <3> QED
      BY <1>6, <3>1
  <2>2. j \in hits
    BY <1>7, <2>1, LeastIs, Zenon
  <2>3. j \in DOMAIN f.root[h] /\ f.root[h][j].addr = a
    BY <1>6, <2>2, Zenon
  <2> HIDE DEF j
  <2> DEFINE new == Renewed(f.root[h][j], hostname, until, mem)
  <2>4. list = [f.root[h] EXCEPT ![j] = new]
    BY <2>3, Zenon
  <2> HIDE DEF new, list
  <2>5. d = [root |-> [f.root EXCEPT ![h] = list], num_entries |-> f.num_entries + 1]
    BY <1>1, <1>7, Zenon DEF renew
  <2>6. OtherList(f, h, [f.root[h] EXCEPT ![j] = new], d) /\ d.num_entries = f.num_entries + 1
    BY <2>4, <2>5, Zenon DEF OtherList
  <2>7. CacheSound(d) /\ Longer(f, a, d)
    BY <1>2, <1>4, <2>3, <2>6, RenewedItem, Zenon DEF new
  <2> QED
    BY <1>7, <2>7, Zenon DEF d, Insertion, f, hits
<1>8. CASE hits = {}
  <2>1. \A i : ItemIn(f, i) => i.addr # a
    BY <1>2, <1>8, Zenon DEF Missing, hits
  <2>2. CacheSound(g) /\ Shrunk(f, g) /\ \A i : ItemIn(g, i) => ItemIn(f, i)
    <3>1. CASE f.num_entries = max_num_entries
      <4>1. g = Flushed(f, now)
        BY <3>1, Zenon DEF g
      <4>2. LET e == Flushed(f, now) IN CacheSound(e) /\ Shrunk(f, e) /\ \A i : ItemIn(e, i) => ItemIn(f, i)
        BY <1>2, FlushedItems, Zenon
      <4> QED
        BY <4>1, <4>2, Zenon
    <3>2. CASE f.num_entries # max_num_entries
      <4>1. g = f
        BY <3>2, Zenon DEF g
      <4>2. Shrunk(f, f)
        <5>1. Cardinality(Places(f)) \in Nat
          BY <1>2, PlacesAre, Zenon DEF CacheSound
        <5> QED
          BY <5>1 DEF Shrunk
      <4> QED
        BY <1>2, <4>1, <4>2, Zenon
    <3> QED
      BY <3>1, <3>2, Zenon
  <2>3. Shrunk(c, g)
    <3> DEFINE x == Cardinality(Places(c))  y == Cardinality(Places(f))  z == Cardinality(Places(g))
    <3>1. x \in Nat /\ y \in Nat /\ z \in Nat
      BY <1>2, <2>2, PlacesAre, Zenon DEF CacheSound
    <3>2. y <= x /\ z <= y /\ Spare(f) = Spare(c) /\ Spare(g) = Spare(f)
      BY <1>2, <2>2, Zenon DEF Shrunk
    <3> HIDE DEF x, y, z
    <3>3. z <= x /\ Spare(g) = Spare(c)
      BY <3>1, <3>2
    <3> QED
      BY <3>3, Zenon DEF Shrunk, x, z
  <2>4. g = f \/ f.num_entries = max_num_entries
    BY Zenon DEF g
  <2>5. Cleared(c, a, now, g)
    BY <1>8, <2>1, <2>2, <2>3, <2>4, Zenon DEF Cleared, f, hits
  <2>6. CASE g.num_entries = max_num_entries \/ ~mem
    <3>1. d = g
      BY <1>1, <1>8, <2>6, Zenon
    <3> QED
      BY <2>2, <2>5, <2>6, <3>1, Zenon DEF Insertion, d
  <2>7. CASE ~(g.num_entries = max_num_entries \/ ~mem)
    <3>1. d = add
      BY <1>1, <1>8, <2>7, Zenon
    <3>2. g.root[h] \in Seq(Item) /\ h \in DOMAIN g.root
      BY <1>3, <2>2, Zenon DEF CacheSound, CacheShape
    <3>3. OtherList(g, h, <<item>> \o g.root[h], d) /\ d.num_entries = g.num_entries + 1
      BY <3>1, <3>2, Zenon DEF OtherList, add
    <3>4. \A i : ItemIn(g, i) => i.addr # item.addr
      BY <1>5, <2>1, <2>2, Zenon
    <3>5. h = hash_id(item.addr)
      BY <1>5, Zenon
    <3>6. CacheSound(d) /\ Added(g, item, d)
      BY <1>5, <2>2, <3>3, <3>4, <3>5, AddedItem, Zenon
    <3> QED
      BY <1>5, <2>5, <3>6, Zenon DEF Insertion, d
  <2> QED
    BY <2>6, <2>7, Zenon
<1> QED
  BY <1>7, <1>8, Zenon

\* A sound cache whose num_entries counts at least its items.
Counted(c) == CacheSound(c) /\ Spare(c) \in Nat

\* An insertion keeps the count.
LEMMA InsertedCounted ==
    ASSUME NEW c, Counted(c), NEW a \in Addr, NEW hostname \in Name, NEW now \in Nat,
           NEW ttl \in Nat, NEW mem \in BOOLEAN
    PROVE  Counted(Inserted(c, a, hostname, now, ttl, mem))
<1> DEFINE f == AfterSearch(c, a, now)
           d == Inserted(c, a, hostname, now, ttl, mem)
<1>1. CacheSound(c) /\ Spare(c) \in Nat
  BY Zenon DEF Counted
<1>2. CacheSound(d) /\ Insertion(c, a, hostname, now, ttl, mem, d)
  BY <1>1, InsertedIs, Zenon
<1>3. Spare(f) = Spare(c)
  <2>1. Shrunk(c, f)
    BY <1>1, Searched, Zenon
  <2> QED
    BY <2>1, Zenon DEF Shrunk
<1> HIDE DEF d, f
<1>4. Spare(d) = Spare(c) \/ Spare(d) = Spare(c) + 1
  <2>1. CASE Longer(f, a, d)
    BY <1>3, <2>1, Zenon DEF Longer
  <2>2. CASE Cleared(c, a, now, d)
    BY <2>2, Zenon DEF Cleared, Shrunk
  <2>3. ASSUME NEW g, Cleared(c, a, now, g), Added(g, NewItem(a, hostname, now, ttl), d)
        PROVE  Spare(d) = Spare(c)
    BY <2>3, Zenon DEF Cleared, Shrunk, Added
  <2> QED
    BY <1>2, <2>1, <2>2, <2>3, Zenon DEF Insertion, f
<1>5. Counted(d)
  BY <1>1, <1>2, <1>4 DEF Counted
<1> QED
  BY <1>5, Zenon DEF d

\* A shorter life for an address takes an insertion for it, after its end.
LEMMA InsertedLife ==
    ASSUME NEW c, CacheSound(c), NEW a \in Addr, NEW hostname \in Name, NEW now \in Nat,
           NEW ttl \in Nat, NEW mem \in BOOLEAN,
           NEW i, ItemIn(c, i), NEW j, ItemIn(Inserted(c, a, hostname, now, ttl, mem), j),
           i.addr = j.addr, j.expire_epoch < i.expire_epoch
    PROVE  i.addr = a /\ Expired(i, now)
<1> DEFINE f == AfterSearch(c, a, now)
           d == Inserted(c, a, hostname, now, ttl, mem)
<1>1. CacheSound(d) /\ Insertion(c, a, hostname, now, ttl, mem, d)
  BY InsertedIs, Zenon
<1>2. Purged(c, f, now)
  BY Searched, Zenon
<1>3. ItemIn(d, j)
  BY Zenon
<1> HIDE DEF f, d
<1>4. i \in Item /\ i.expire_epoch \in Nat
  <2>1. i \in Item
    BY ItemPlace, Zenon
  <2> QED
    BY <2>1, AddressCacheAssumption DEF Item
<1>5. ~ItemIn(c, j)
  <2> SUFFICES ASSUME ItemIn(c, j) PROVE FALSE
    BY Zenon
  <2>1. i = j
    BY ItemUnique, Zenon
  <2> QED
    BY <1>4, <2>1
<1>6. ~ItemIn(f, j)
  BY <1>2, <1>5, Zenon DEF Purged
<1>7. CASE Longer(f, a, d)
  <2>1. PICK o : ItemIn(f, o) /\ o.addr = a /\ j.addr = a /\ j.expire_epoch >= o.expire_epoch
    BY <1>3, <1>6, <1>7, Zenon DEF Longer
  <2>2. ItemIn(c, o) /\ o.addr = i.addr
    BY <1>2, <2>1, Zenon DEF Purged
  <2>3. o = i
    BY <2>2, ItemUnique, Zenon
  <2>4. j.expire_epoch \in Nat
    <3>1. j \in Item
      BY <1>1, <1>3, ItemPlace, Zenon
    <3> QED
      BY <3>1, AddressCacheAssumption DEF Item
  <2> QED
    BY <1>4, <2>1, <2>3, <2>4
<1>8. CASE Cleared(c, a, now, d)
  BY <1>3, <1>6, <1>8, Zenon DEF Cleared, f
<1>9. ASSUME NEW g, Cleared(c, a, now, g), Added(g, NewItem(a, hostname, now, ttl), d)
      PROVE  i.addr = a /\ Expired(i, now)
  <2>1. ~ItemIn(g, j)
    BY <1>6, <1>9, Zenon DEF Cleared, f
  <2>2. j = NewItem(a, hostname, now, ttl)
    BY <1>3, <1>9, <2>1, Zenon DEF Added
  <2>3. i.addr = a
    BY <2>2, Zenon DEF NewItem
  <2>4. CASE Expired(i, now)
    BY <2>3, <2>4, Zenon
  <2>5. CASE ~Expired(i, now)
    <3>1. ItemIn(f, i)
      BY <1>2, <2>5, Zenon DEF Purged
    <3>2. Hits(f.root[hash_id(a)], a, now) # {}
      <4>1. CacheSound(f) /\ Missing(f, a, now)
        BY Searched, Zenon DEF f
      <4> QED
        BY <2>3, <3>1, <4>1, Zenon DEF Missing
    <3> QED
      BY <1>9, <3>2, Zenon DEF Cleared, f
  <2> QED
    BY <2>4, <2>5, Zenon
<1> QED
  BY <1>1, <1>7, <1>8, <1>9, Zenon DEF Insertion, f

\* What the first k lines of a restore make of c, line by line.
Reloads(g, k, c, epoch, clock, mem) ==
    /\ g = [n \in 0..k |-> g[n]] /\ g[0] = c
    /\ \A n \in 1..k : g[n] = Reloaded(g[n - 1], file[n], epoch, clock, mem[n])

\* The loop over the lines has a result.
LEMMA ReloadsExist ==
    ASSUME NEW c, NEW epoch, NEW clock, NEW mem, NEW N \in Nat
    PROVE  \E g : Reloads(g, N, c, epoch, clock, mem)
<1> DEFINE No == {k \in Nat : ~\E g : Reloads(g, k, c, epoch, clock, mem)}
<1> SUFFICES ASSUME No # {} PROVE FALSE
  BY Zenon
<1>1. PICK k \in No : \A m \in No : k <= m
  BY LeastElement, Zenon
<1>2. k \in Nat /\ ~\E g : Reloads(g, k, c, epoch, clock, mem)
  BY Zenon
<1>3. CASE k = 0
  <2> DEFINE g == [n \in 0..0 |-> c]
  <2>1. Reloads(g, 0, c, epoch, clock, mem)
    BY DEF Reloads
  <2> QED
    BY <1>2, <1>3, <2>1, Zenon
<1>4. CASE k # 0
  <2>1. k - 1 \in Nat /\ ~(k <= k - 1)
    BY <1>2, <1>4
  <2>2. k - 1 \notin No
    BY <1>1, <2>1, Zenon
  <2>3. PICK g : Reloads(g, k - 1, c, epoch, clock, mem)
    BY <2>1, <2>2, Zenon
  <2> DEFINE e == Reloaded(g[k - 1], file[k], epoch, clock, mem[k])
             f == [n \in 0..k |-> IF n = k THEN e ELSE g[n]]
  <2>4. \A n \in 0..(k - 1) : f[n] = g[n]
    BY <1>2
  <2>5. f[k] = e /\ f = [n \in 0..k |-> f[n]]
    BY <1>2
  <2> HIDE DEF f
  <2>6. f[0] = c /\ f[k] = Reloaded(f[k - 1], file[k], epoch, clock, mem[k])
    <3>1. 0 \in 0..(k - 1) /\ k - 1 \in 0..(k - 1)
      BY <2>1
    <3>2. f[0] = g[0] /\ f[k - 1] = g[k - 1]
      BY <2>4, <3>1, Zenon
    <3>3. g[0] = c
      BY <2>3, Zenon DEF Reloads
    <3> QED
      BY <2>5, <3>2, <3>3, Zenon
  <2>7. ASSUME NEW n \in 1..k PROVE f[n] = Reloaded(f[n - 1], file[n], epoch, clock, mem[n])
    <3>1. CASE n = k
      BY <2>6, <3>1, Zenon
    <3>2. CASE n # k
      <4>1. n \in 1..(k - 1) /\ n \in 0..(k - 1) /\ n - 1 \in 0..(k - 1)
        BY <1>2, <3>2
      <4>2. f[n] = g[n] /\ f[n - 1] = g[n - 1]
        BY <2>4, <4>1, Zenon
      <4>3. g[n] = Reloaded(g[n - 1], file[n], epoch, clock, mem[n])
        BY <2>3, <4>1, Zenon DEF Reloads
      <4> QED
        BY <4>2, <4>3, Zenon
    <3> QED
      BY <3>1, <3>2, Zenon
  <2>8. Reloads(f, k, c, epoch, clock, mem)
    BY <2>5, <2>6, <2>7, Zenon DEF Reloads
  <2> QED
    BY <1>2, <2>8, Zenon
<1> QED
  BY <1>3, <1>4, Zenon

\* ndpi_address_cache_restore() is that loop.
LEMMA RestoredIs ==
    ASSUME NEW c, NEW epoch, NEW clock, NEW mem, Len(file) \in Nat
    PROVE  \E g : /\ Reloads(g, Len(file), c, epoch, clock, mem)
                  /\ Restored(c, epoch, clock, mem) = g[Len(file)]
<1> DEFINE N == Len(file)
           Body(f) == [n \in 0..N |-> IF n = 0 THEN c ELSE Reloaded(f[n - 1], file[n], epoch, clock, mem[n])]
           after == CHOOSE f : f = Body(f)
<1>1. PICK g : Reloads(g, N, c, epoch, clock, mem)
  BY ReloadsExist, Zenon
<1>2. Restored(c, epoch, clock, mem) = after[N]
  BY Zenon DEF Restored
<1>3. N \in Nat
  BY Zenon
<1> HIDE DEF N
<1>4. g = Body(g)
  <2>1. g = [n \in 0..N |-> g[n]]
    BY <1>1, Zenon DEF Reloads
  <2>2. ASSUME NEW n \in 0..N
        PROVE  g[n] = IF n = 0 THEN c ELSE Reloaded(g[n - 1], file[n], epoch, clock, mem[n])
    <3>1. CASE n = 0
      BY <1>1, <3>1, Zenon DEF Reloads
    <3>2. CASE n # 0
      <4>1. n \in 1..N
        BY <1>3, <3>2
      <4> QED
        BY <1>1, <3>2, <4>1, Zenon DEF Reloads
    <3> QED
      BY <3>1, <3>2, Zenon
  <2> QED
    BY <2>1, <2>2, Zenon
<1>5. after = Body(after)
  BY <1>4, Zenon
<1> HIDE DEF after
<1>6. after = [n \in 0..N |-> after[n]] /\ after[0] = c
  BY <1>3, <1>5
<1>7. \A n \in 1..N : after[n] = Reloaded(after[n - 1], file[n], epoch, clock, mem[n])
  <2> SUFFICES ASSUME NEW n \in 1..N PROVE after[n] = Reloaded(after[n - 1], file[n], epoch, clock, mem[n])
    BY Zenon
  <2>1. n \in 0..N /\ n # 0
    BY <1>3
  <2>2. after[n] = Body(after)[n]
    BY <1>5, Zenon
  <2>3. Body(after)[n] = IF n = 0 THEN c ELSE Reloaded(after[n - 1], file[n], epoch, clock, mem[n])
    BY <2>1, Zenon
  <2> QED
    BY <2>1, <2>2, <2>3, Zenon
<1>8. Reloads(after, N, c, epoch, clock, mem)
  BY <1>6, <1>7, Zenon DEF Reloads
<1> QED
  BY <1>2, <1>8, Zenon DEF N

\* A dump is a list of items for different addresses.
FileSound ==
    /\ file \in Seq(Item)
    /\ \A m, n \in DOMAIN file : file[m].addr = file[n].addr => m = n

\* A new cache is empty.
LEMMA NewCache ==
    /\ CacheSound(ndpi_init_address_cache) /\ Spare(ndpi_init_address_cache) = 0
    /\ Cardinality(Places(ndpi_init_address_cache)) = 0
    /\ \A i : ~ItemIn(ndpi_init_address_cache, i)
<1> DEFINE c == ndpi_init_address_cache
<1>1. /\ DOMAIN c = {"root", "num_entries"} /\ c.root = [h \in Bucket |-> << >>] /\ c.num_entries = 0
  BY Zenon DEF ndpi_init_address_cache, Bucket
<1> HIDE DEF c
<1>2. \A h \in Bucket : c.root[h] = << >> /\ DOMAIN c.root[h] = {}
  BY <1>1
<1>3. CacheShape(c)
  BY <1>1, <1>2 DEF CacheShape
<1>4. CacheSound(c)
  BY <1>2, <1>3, Zenon DEF CacheSound, ListSound
<1>5. \A x : x \in Places(c) <=> PlaceIn(c, x)
  BY <1>3, PlacesAre, Zenon
<1>6. Places(c) = {}
  BY <1>2, <1>5, Zenon DEF PlaceIn
<1>7. Cardinality(Places(c)) = 0
  BY <1>6, FS_EmptySet, Zenon
<1>8. Spare(c) = 0
  BY <1>1, <1>7 DEF Spare
<1>9. \A i : ~ItemIn(c, i)
  BY <1>2, Zenon DEF ItemIn
<1> QED
  BY <1>4, <1>7, <1>8, <1>9, Zenon DEF c

\* A line of a restore inserts an item that is still valid.
LEMMA ReloadedCounted ==
    ASSUME NEW c, Counted(c), NEW item \in Item, NEW epoch \in Epoch, NEW clock \in Epoch,
           NEW mem \in BOOLEAN
    PROVE  Counted(Reloaded(c, item, epoch, clock, mem))
<1>1. CASE item.expire_epoch >= epoch
  <2> DEFINE now == TimeOf(epoch, clock)  ttl == item.expire_epoch - epoch
  <2>1. now \in Nat /\ ttl \in Nat
    BY <1>1, AddressCacheAssumption DEF TimeOf, Item, Epoch
  <2>2. item.addr \in Addr /\ item.hostname \in Name
    BY Zenon DEF Item
  <2>3. Reloaded(c, item, epoch, clock, mem) = Inserted(c, item.addr, item.hostname, now, ttl, mem)
    BY <1>1, Zenon DEF Reloaded
  <2> HIDE DEF now, ttl
  <2>4. Counted(Inserted(c, item.addr, item.hostname, now, ttl, mem))
    BY <2>1, <2>2, InsertedCounted, Zenon
  <2> QED
    BY <2>3, <2>4, Zenon
<1>2. CASE ~(item.expire_epoch >= epoch)
  <2>1. Reloaded(c, item, epoch, clock, mem) = c
    BY <1>2, Zenon DEF Reloaded
  <2> QED
    BY <2>1, Zenon
<1> QED
  BY <1>1, <1>2, Zenon

\* So does a whole restore.
LEMMA RestoredCounted ==
    ASSUME NEW c, Counted(c), FileSound, NEW epoch \in Epoch, NEW clock \in Epoch,
           NEW mem \in [DOMAIN file -> BOOLEAN]
    PROVE  Counted(Restored(c, epoch, clock, mem))
<1> DEFINE N == Len(file)
<1>1. N \in Nat /\ DOMAIN file = 1..N /\ \A n \in 1..N : file[n] \in Item /\ mem[n] \in BOOLEAN
  BY DEF FileSound
<1>2. PICK g : Reloads(g, N, c, epoch, clock, mem) /\ Restored(c, epoch, clock, mem) = g[N]
  BY <1>1, RestoredIs, Zenon
<1> HIDE DEF N
<1>3. \A n \in 0..N : Counted(g[n])
  <2> DEFINE Bad == {n \in 0..N : ~Counted(g[n])}
  <2> SUFFICES ASSUME Bad # {} PROVE FALSE
    BY Zenon
  <2>0. Bad \subseteq Nat
    BY <1>1
  <2>1. PICK n \in Bad : \A m \in Bad : n <= m
    BY <2>0, LeastElement, Zenon
  <2>2. n \in 0..N /\ ~Counted(g[n])
    BY Zenon
  <2>3. n # 0
    <3>1. Counted(g[0])
      BY <1>2, Zenon DEF Reloads
    <3> QED
      BY <2>2, <3>1, Zenon
  <2>4. n \in 1..N /\ n - 1 \in 0..N /\ ~(n <= n - 1)
    BY <1>1, <2>2, <2>3
  <2>5. Counted(g[n - 1])
    BY <2>1, <2>4, Zenon
  <2>6. g[n] = Reloaded(g[n - 1], file[n], epoch, clock, mem[n])
    BY <1>2, <2>4, Zenon DEF Reloads
  <2>7. Counted(Reloaded(g[n - 1], file[n], epoch, clock, mem[n]))
    BY <1>1, <2>4, <2>5, ReloadedCounted, Zenon
  <2> QED
    BY <2>2, <2>6, <2>7, Zenon
<1>4. N \in 0..N
  BY <1>1
<1> QED
  BY <1>2, <1>3, <1>4, Zenon
-----------------------------------------------------------------------------
(* The dump and the restore.                                               *)

\* After n lines of a restore into a new cache: the lines that are valid, no more.
Holds(g, n, epoch) ==
    /\ CacheSound(g) /\ Spare(g) = 0 /\ Cardinality(Places(g)) <= n
    /\ \A i : ItemIn(g, i) <=> \E m \in 1..n : i = file[m] /\ i.expire_epoch >= epoch

\* d is c and one item, all counted once.
OneMoreItem(c, item, d) ==
    /\ CacheSound(d) /\ Spare(d) = 0 /\ Cardinality(Places(d)) <= Cardinality(Places(c)) + 1
    /\ \A i : ItemIn(d, i) <=> ItemIn(c, i) \/ i = item

\* An insertion for an address without item, with room and memory, adds the item.
LEMMA InsertedNew ==
    ASSUME NEW c, CacheSound(c), Spare(c) = 0, NEW a \in Addr, NEW hostname \in Name,
           NEW now \in Nat, NEW ttl \in Nat, Cardinality(Places(c)) < max_num_entries,
           \A i : ItemIn(c, i) => i.addr # a /\ ~Expired(i, now)
    PROVE  OneMoreItem(c, NewItem(a, hostname, now, ttl), Inserted(c, a, hostname, now, ttl, TRUE))
<1> DEFINE f == AfterSearch(c, a, now)
           d == Inserted(c, a, hostname, now, ttl, TRUE)
           new == NewItem(a, hostname, now, ttl)
           P == Cardinality(Places(c))
<1>1. CacheSound(d) /\ Insertion(c, a, hostname, now, ttl, TRUE, d)
  BY InsertedIs, Zenon
<1>2. CacheSound(f) /\ Shrunk(c, f) /\ Purged(c, f, now)
  BY Searched, Zenon
<1>3. P \in Nat /\ max_num_entries \in Nat
  BY PlacesAre, AddressCacheAssumption, Zenon DEF CacheSound
<1> HIDE DEF d, f, new
<1>4. Hits(f.root[hash_id(a)], a, now) = {}
  <2> SUFFICES ASSUME NEW j \in Hits(f.root[hash_id(a)], a, now) PROVE FALSE
    BY Zenon
  <2>1. j \in DOMAIN f.root[hash_id(a)] /\ f.root[hash_id(a)][j].addr = a
    BY Zenon DEF Hits
  <2>2. hash_id(a) \in Bucket
    BY Buckets, Zenon
  <2>3. ItemIn(f, f.root[hash_id(a)][j])
    BY <2>1, <2>2, Zenon DEF ItemIn
  <2> QED
    BY <1>2, <2>1, <2>3, Zenon DEF Purged
<1>5. \A i : ItemIn(f, i) <=> ItemIn(c, i)
  BY <1>2, Zenon DEF Purged
<1>6. ASSUME NEW e, CacheSound(e), Shrunk(c, e)
      PROVE  e.num_entries # max_num_entries /\ Spare(e) = 0 /\ Cardinality(Places(e)) <= P
             /\ Cardinality(Places(e)) \in Nat
  <2> DEFINE Q == Cardinality(Places(e))  u == e.num_entries
  <2>1. Q \in Nat /\ u \in Int
    BY <1>6, PlacesAre, Zenon DEF CacheSound, CacheShape
  <2>2. u - Q = 0 /\ Spare(e) = 0 /\ Q <= P
    BY <1>6, Zenon DEF Shrunk, Spare
  <2>3. P < max_num_entries
    BY Zenon
  <2> HIDE DEF Q, u, P
  <2>4. u # max_num_entries
    BY <1>3, <2>1, <2>2, <2>3
  <2> QED
    BY <2>1, <2>2, <2>4, Zenon DEF Q, u
<1>7. ASSUME NEW g, Cleared(c, a, now, g) PROVE g = f
  BY <1>2, <1>6, <1>7, Zenon DEF Cleared, f
<1>8. ~Cleared(c, a, now, d) \/ d.num_entries # max_num_entries
  BY <1>1, <1>6, Zenon DEF Cleared
<1>9. PICK g : Cleared(c, a, now, g) /\ Added(g, new, d)
  BY <1>1, <1>4, <1>8, Zenon DEF Insertion, f, new
<1>10. Added(f, new, d)
  BY <1>7, <1>9, Zenon
<1>11. Spare(f) = 0 /\ Cardinality(Places(f)) <= P /\ Cardinality(Places(f)) \in Nat
  BY <1>2, <1>6, Zenon
<1>12. Spare(d) = 0 /\ Cardinality(Places(d)) = Cardinality(Places(f)) + 1
  BY <1>10, <1>11, Zenon DEF Added
<1>13. Cardinality(Places(d)) <= P + 1
  BY <1>3, <1>11, <1>12
<1>14. \A i : ItemIn(d, i) <=> ItemIn(c, i) \/ i = new
  BY <1>5, <1>10, Zenon DEF Added
<1> QED
  BY <1>1, <1>12, <1>13, <1>14, Zenon DEF d, new, OneMoreItem

\* One line more.
LEMMA HoldsNext ==
    ASSUME FileSound, NEW n \in 1..Len(file), Len(file) <= max_num_entries,
           NEW epoch \in Epoch \ {0}, NEW g, Holds(g, n - 1, epoch)
    PROVE  Holds(Reloaded(g, file[n], epoch, epoch, TRUE), n, epoch)
<1> DEFINE item == file[n]
           d == Reloaded(g, item, epoch, epoch, TRUE)
<1>1. Len(file) \in Nat /\ DOMAIN file = 1..Len(file) /\ item \in Item /\ n \in Nat /\ n - 1 \in Nat
  BY DEF FileSound
<1>2. /\ epoch \in Nat /\ epoch # 0 /\ max_num_entries \in Nat /\ U32 \in Nat
      /\ \A i \in Item : i.expire_epoch \in 0..(U32 - 1) /\ i.addr \in Addr /\ i.hostname \in Name
  BY AddressCacheAssumption DEF Epoch, Item
<1>3. /\ CacheSound(g) /\ Spare(g) = 0 /\ Cardinality(Places(g)) <= n - 1
      /\ \A i : ItemIn(g, i) <=> \E m \in 1..(n - 1) : i = file[m] /\ i.expire_epoch >= epoch
  BY Zenon DEF Holds
<1>4. Cardinality(Places(g)) \in Nat
  BY <1>3, PlacesAre, Zenon DEF CacheSound
<1>5. \A m \in 1..n : m \in 1..(n - 1) \/ m = n
  BY <1>1
<1>6. n \in 1..n /\ \A m \in 1..(n - 1) : m \in 1..n
  BY <1>1
<1>7. CASE ~(item.expire_epoch >= epoch)
  <2>1. d = g
    BY <1>7, Zenon DEF Reloaded
  <2>2. Cardinality(Places(g)) <= n
    BY <1>1, <1>3, <1>4
  <2>3. \A i : (\E m \in 1..(n - 1) : i = file[m] /\ i.expire_epoch >= epoch)
                <=> (\E m \in 1..n : i = file[m] /\ i.expire_epoch >= epoch)
    BY <1>5, <1>6, <1>7, Zenon
  <2>4. Holds(g, n, epoch)
    BY <1>3, <2>2, <2>3, Zenon DEF Holds
  <2> QED
    BY <2>1, <2>4, Zenon
<1>8. CASE item.expire_epoch >= epoch
  <2> DEFINE ttl == item.expire_epoch - epoch  a == item.addr
  <2>1. item.expire_epoch \in 0..(U32 - 1) /\ a \in Addr /\ item.hostname \in Name
    BY <1>1, <1>2, Zenon
  <2>2. d = Inserted(g, a, item.hostname, epoch, ttl, TRUE)
    BY <1>2, <1>8, Zenon DEF Reloaded, TimeOf
  <2>3. ttl \in Nat /\ epoch + ttl = item.expire_epoch
    BY <1>2, <1>8, <2>1
  <2>4. Cardinality(Places(g)) < max_num_entries
    BY <1>1, <1>2, <1>3, <1>4
  <2>5. ASSUME NEW i, ItemIn(g, i) PROVE i.addr # a /\ ~Expired(i, epoch)
    <3>1. PICK m \in 1..(n - 1) : i = file[m] /\ i.expire_epoch >= epoch
      BY <1>3, <2>5, Zenon
    <3>2. m \in DOMAIN file /\ n \in DOMAIN file /\ m # n
      BY <1>1
    <3>3. i.addr # a
      BY <3>1, <3>2, Zenon DEF FileSound
    <3>4. i \in Item
      BY <3>1, <3>2 DEF FileSound
    <3>5. i.expire_epoch \in 0..(U32 - 1)
      BY <1>2, <3>4, Zenon
    <3>6. ~(i.expire_epoch < epoch)
      BY <1>2, <3>1, <3>5
    <3> QED
      BY <3>3, <3>6, Zenon DEF Expired
  <2>6. NewItem(a, item.hostname, epoch, ttl) = item
    <3>1. epoch_valid_until(epoch, ttl) = item.expire_epoch
      <4>1. \A x, y \in Nat : x < y => x % y = x
        OBVIOUS
      <4>2. item.expire_epoch % U32 = item.expire_epoch
        BY <1>2, <2>1, <4>1
      <4> QED
        BY <2>3, <4>2, Zenon DEF epoch_valid_until
    <3> QED
      BY <1>1, <3>1, Zenon DEF NewItem, Item
  <2> HIDE DEF item, d, ttl
  <2> DEFINE e == Inserted(g, a, item.hostname, epoch, ttl, TRUE)
  <2>7. /\ CacheSound(e) /\ Spare(e) = 0 /\ Cardinality(Places(e)) <= Cardinality(Places(g)) + 1
        /\ \A i : ItemIn(e, i) <=> ItemIn(g, i) \/ i = NewItem(a, item.hostname, epoch, ttl)
    <3>1. OneMoreItem(g, NewItem(a, item.hostname, epoch, ttl), e)
      BY <1>2, <1>3, <2>1, <2>3, <2>4, <2>5, InsertedNew, Zenon
    <3> HIDE DEF e
    <3> QED
      BY <3>1, Zenon DEF OneMoreItem
  <2> HIDE DEF e
  <2>8. Cardinality(Places(e)) \in Nat
    BY <2>7, PlacesAre, Zenon DEF CacheSound
  <2>9. Cardinality(Places(e)) <= n
    BY <1>1, <1>3, <1>4, <2>7, <2>8
  <2>10. \A i : ItemIn(e, i) <=> ItemIn(g, i) \/ i = item
    BY <2>6, <2>7, Zenon
  <2>11. \A i : (ItemIn(g, i) \/ i = item) <=> \E m \in 1..n : i = file[m] /\ i.expire_epoch >= epoch
    BY <1>3, <1>5, <1>6, <1>8, Zenon DEF item
  <2>12. Holds(e, n, epoch)
    BY <2>7, <2>9, <2>10, <2>11, Zenon DEF Holds
  <2> QED
    BY <2>2, <2>12, Zenon DEF d, e, item
<1> QED
  BY <1>7, <1>8, Zenon

\* A dump restored into a new cache.
LEMMA RestoredFaithful ==
    ASSUME FileSound, Len(file) <= max_num_entries, NEW epoch \in Epoch \ {0}
    PROVE  Holds(Restored(ndpi_init_address_cache, epoch, epoch, [j \in DOMAIN file |-> TRUE]),
                 Len(file), epoch)
<1> DEFINE N == Len(file)
           c == ndpi_init_address_cache
           mem == [j \in DOMAIN file |-> TRUE]
<1>1. N \in Nat /\ DOMAIN file = 1..N /\ \A n \in 1..N : mem[n] = TRUE
  BY DEF FileSound
<1> HIDE DEF c, mem
<1>2. PICK g : Reloads(g, N, c, epoch, epoch, mem) /\ Restored(c, epoch, epoch, mem) = g[N]
  BY <1>1, RestoredIs, Zenon
<1>3. Holds(c, 0, epoch)
  <2>1. CacheSound(c) /\ Spare(c) = 0 /\ Cardinality(Places(c)) = 0 /\ \A i : ~ItemIn(c, i)
    BY NewCache, Zenon DEF c
  <2>2. 1..0 = {} /\ 0 <= 0
    OBVIOUS
  <2>3. \A i : ~\E m \in 1..0 : i = file[m] /\ i.expire_epoch >= epoch
    BY <2>2, Zenon
  <2> QED
    BY <2>1, <2>2, <2>3, Zenon DEF Holds
<1> HIDE DEF N
<1>4. \A n \in 0..N : Holds(g[n], n, epoch)
  <2> DEFINE Bad == {n \in 0..N : ~Holds(g[n], n, epoch)}
  <2> SUFFICES ASSUME Bad # {} PROVE FALSE
    BY Zenon
  <2>0. Bad \subseteq Nat
    BY <1>1
  <2>1. PICK n \in Bad : \A m \in Bad : n <= m
    BY <2>0, LeastElement, Zenon
  <2>2. n \in 0..N /\ ~Holds(g[n], n, epoch)
    BY Zenon
  <2>3. n # 0
    <3>1. Holds(g[0], 0, epoch)
      BY <1>2, <1>3, Zenon DEF Reloads
    <3> QED
      BY <2>2, <3>1, Zenon
  <2>4. n \in 1..N /\ n - 1 \in 0..N /\ ~(n <= n - 1)
    BY <1>1, <2>2, <2>3
  <2>5. Holds(g[n - 1], n - 1, epoch)
    BY <2>1, <2>4, Zenon
  <2>6. g[n] = Reloaded(g[n - 1], file[n], epoch, epoch, mem[n]) /\ mem[n] = TRUE
    BY <1>1, <1>2, <2>4, Zenon DEF Reloads
  <2>7. Holds(Reloaded(g[n - 1], file[n], epoch, epoch, TRUE), n, epoch)
    BY <2>4, <2>5, HoldsNext, Zenon DEF N
  <2> QED
    BY <2>2, <2>6, <2>7, Zenon
<1>5. N \in 0..N
  BY <1>1
<1> QED
  BY <1>2, <1>4, <1>5, Zenon DEF c, mem, N

\* The lines of the items of a list that are dumped.
Kept(list, epoch) == EntriesAt(list, {j \in DOMAIN list : ~Expired(list[j], epoch)})

\* The dump of the first k lists, list after list.
Dumps(g, k, c, epoch) ==
    /\ g = [n \in 0..k |-> g[n]] /\ g[0] = << >>
    /\ \A n \in 1..k : g[n] = g[n - 1] \o Kept(c.root[n - 1], epoch)

\* The loop over the lists has a result.
LEMMA DumpsExist ==
    ASSUME NEW c, NEW epoch, NEW N \in Nat
    PROVE  \E g : Dumps(g, N, c, epoch)
<1> DEFINE No == {k \in Nat : ~\E g : Dumps(g, k, c, epoch)}
<1> SUFFICES ASSUME No # {} PROVE FALSE
  BY Zenon
<1>1. PICK k \in No : \A m \in No : k <= m
  BY LeastElement, Zenon
<1>2. k \in Nat /\ ~\E g : Dumps(g, k, c, epoch)
  BY Zenon
<1>3. CASE k = 0
  <2> DEFINE g == [n \in 0..0 |-> << >>]
  <2>1. Dumps(g, 0, c, epoch)
    <3>1. 0 \in 0..0 /\ \A n \in 1..0 : FALSE
      OBVIOUS
    <3>2. g[0] = << >> /\ g = [n \in 0..0 |-> g[n]]
      BY <3>1, Zenon
    <3> HIDE DEF g
    <3> QED
      BY <3>1, <3>2, Zenon DEF Dumps
  <2> HIDE DEF g
  <2>2. Dumps(g, k, c, epoch)
    BY <1>3, <2>1, Zenon
  <2> QED
    BY <1>2, <2>2, Zenon
<1>4. CASE k # 0
  <2>1. k - 1 \in Nat /\ ~(k <= k - 1)
    BY <1>2, <1>4
  <2>2. k - 1 \notin No
    BY <1>1, <2>1, Zenon
  <2>3. PICK g : Dumps(g, k - 1, c, epoch)
    BY <2>1, <2>2, Zenon
  <2> DEFINE e == g[k - 1] \o Kept(c.root[k - 1], epoch)
             f == [n \in 0..k |-> IF n = k THEN e ELSE g[n]]
  <2> HIDE DEF e
  <2>4. \A n \in 0..(k - 1) : f[n] = g[n]
    BY <1>2
  <2>5. f[k] = e /\ f = [n \in 0..k |-> f[n]]
    BY <1>2
  <2> HIDE DEF f
  <2>6. f[0] = << >> /\ f[k] = f[k - 1] \o Kept(c.root[k - 1], epoch)
    <3>1. 0 \in 0..(k - 1) /\ k - 1 \in 0..(k - 1)
      BY <2>1
    <3>2. f[0] = g[0] /\ f[k - 1] = g[k - 1]
      BY <2>4, <3>1, Zenon
    <3>3. g[0] = << >>
      BY <2>3, Zenon DEF Dumps
    <3> QED
      BY <2>5, <3>2, <3>3, Zenon DEF e
  <2>7. ASSUME NEW n \in 1..k PROVE f[n] = f[n - 1] \o Kept(c.root[n - 1], epoch)
    <3>1. CASE n = k
      BY <2>6, <3>1, Zenon
    <3>2. CASE n # k
      <4>1. n \in 1..(k - 1) /\ n \in 0..(k - 1) /\ n - 1 \in 0..(k - 1)
        BY <1>2, <3>2
      <4>2. f[n] = g[n] /\ f[n - 1] = g[n - 1]
        BY <2>4, <4>1, Zenon
      <4>3. g[n] = g[n - 1] \o Kept(c.root[n - 1], epoch)
        BY <2>3, <4>1, Zenon DEF Dumps
      <4> QED
        BY <4>2, <4>3, Zenon
    <3> QED
      BY <3>1, <3>2, Zenon
  <2>8. Dumps(f, k, c, epoch)
    BY <2>5, <2>6, <2>7, Zenon DEF Dumps
  <2> QED
    BY <1>2, <2>8, Zenon
<1> QED
  BY <1>3, <1>4, Zenon

\* ndpi_address_cache_dump() is that loop.
LEMMA DumpedIs ==
    ASSUME NEW c, NEW epoch
    PROVE  \E g : Dumps(g, num_root_nodes, c, epoch) /\ Dumped(c, epoch) = g[num_root_nodes]
<1> DEFINE N == num_root_nodes
           Body(f) == [n \in 0..N |-> IF n = 0 THEN << >> ELSE f[n - 1] \o Kept(c.root[n - 1], epoch)]
           lines == CHOOSE f : f = Body(f)
<1>3. N \in Nat
  BY Buckets, Zenon
<1>1. PICK g : Dumps(g, N, c, epoch)
  BY <1>3, DumpsExist, Zenon
<1>2. Dumped(c, epoch) = lines[N]
  BY Zenon DEF Dumped, Kept
<1> HIDE DEF N
<1>4. g = Body(g)
  <2>1. g = [n \in 0..N |-> g[n]]
    BY <1>1, Zenon DEF Dumps
  <2>2. ASSUME NEW n \in 0..N
        PROVE  g[n] = IF n = 0 THEN << >> ELSE g[n - 1] \o Kept(c.root[n - 1], epoch)
    <3>1. CASE n = 0
      BY <1>1, <3>1, Zenon DEF Dumps
    <3>2. CASE n # 0
      <4>1. n \in 1..N
        BY <1>3, <3>2
      <4> QED
        BY <1>1, <3>2, <4>1, Zenon DEF Dumps
    <3> QED
      BY <3>1, <3>2, Zenon
  <2> QED
    BY <2>1, <2>2, Zenon
<1>5. lines = Body(lines)
  BY <1>4, Zenon
<1> HIDE DEF lines
<1>6. lines = [n \in 0..N |-> lines[n]] /\ lines[0] = << >>
  BY <1>3, <1>5
<1>7. ASSUME NEW n \in 1..N PROVE lines[n] = lines[n - 1] \o Kept(c.root[n - 1], epoch)
  <2>1. n \in 0..N /\ n # 0
    BY <1>3
  <2>2. lines[n] = Body(lines)[n]
    BY <1>5, Zenon
  <2>3. Body(lines)[n] = IF n = 0 THEN << >> ELSE lines[n - 1] \o Kept(c.root[n - 1], epoch)
    BY <2>1, Zenon
  <2> QED
    BY <2>1, <2>2, <2>3, Zenon
<1>8. Dumps(lines, N, c, epoch)
  BY <1>6, <1>7, Zenon DEF Dumps
<1> QED
  BY <1>2, <1>8, Zenon DEF N

\* The lines of the first n lists.
LinesSound(s, n) ==
    /\ s \in Seq(Item) /\ \A j \in DOMAIN s : hash_id(s[j].addr) \in 0..(n - 1)
    /\ \A j, k \in DOMAIN s : s[j].addr = s[k].addr => j = k

\* One list more.
LEMMA LinesNext ==
    ASSUME NEW n \in Nat, NEW s, LinesSound(s, n), NEW t \in Seq(Item), ListSound(t, n)
    PROVE  LinesSound(s \o t, n + 1)
<1> DEFINE r == s \o t
           m == Len(s)
<1>1. s \in Seq(Item) /\ m \in Nat /\ DOMAIN s = 1..m
  BY DEF LinesSound
<1>2. /\ r \in Seq(Item) /\ DOMAIN r = 1..(m + Len(t)) /\ Len(t) \in Nat /\ DOMAIN t = 1..Len(t)
      /\ \A j \in 1..m : r[j] = s[j]
      /\ \A j \in (m + 1)..(m + Len(t)) : r[j] = t[j - m]
  BY <1>1
<1> HIDE DEF r, m
<1>3. \A j \in DOMAIN r : \/ j \in DOMAIN s /\ r[j] = s[j]
                          \/ j \notin DOMAIN s /\ j - m \in DOMAIN t /\ r[j] = t[j - m]
  BY <1>1, <1>2
<1>4. \A j \in DOMAIN s : hash_id(s[j].addr) \in 0..(n - 1)
  BY Zenon DEF LinesSound
<1>5. \A j \in DOMAIN t : hash_id(t[j].addr) = n
  BY Zenon DEF ListSound
<1>6. \A j \in DOMAIN r : hash_id(r[j].addr) \in 0..n
  BY <1>3, <1>4, <1>5
<1>7. ASSUME NEW j \in DOMAIN r, NEW k \in DOMAIN r, r[j].addr = r[k].addr PROVE j = k
  <2>0. j \in Int /\ k \in Int /\ m \in Nat /\ n \notin 0..(n - 1)
    BY <1>1, <1>2
  <2>1. CASE j \in DOMAIN s /\ k \in DOMAIN s
    BY <1>3, <1>7, <2>1, Zenon DEF LinesSound
  <2>2. CASE j \in DOMAIN s /\ k \notin DOMAIN s
    <3>1. r[j] = s[j] /\ k - m \in DOMAIN t /\ r[k] = t[k - m]
      BY <1>3, <2>2, Zenon
    <3> QED
      BY <1>4, <1>5, <1>7, <2>0, <2>2, <3>1, Zenon
  <2>3. CASE j \notin DOMAIN s /\ k \in DOMAIN s
    <3>1. r[k] = s[k] /\ j - m \in DOMAIN t /\ r[j] = t[j - m]
      BY <1>3, <2>3, Zenon
    <3> QED
      BY <1>4, <1>5, <1>7, <2>0, <2>3, <3>1, Zenon
  <2>4. CASE j \notin DOMAIN s /\ k \notin DOMAIN s
    <3>1. t[j - m].addr = t[k - m].addr /\ j - m \in DOMAIN t /\ k - m \in DOMAIN t
      BY <1>3, <1>7, <2>4, Zenon
    <3>2. j - m = k - m
      BY <3>1, Zenon DEF ListSound
    <3> QED
      BY <2>0, <3>2
  <2> QED
    BY <2>1, <2>2, <2>3, <2>4, Zenon
<1>8. LinesSound(r, n + 1)
  <2>1. n + 1 - 1 = n
    OBVIOUS
  <2> QED
    BY <1>2, <1>6, <1>7, <2>1 DEF LinesSound
<1> QED
  BY <1>8, Zenon DEF r

\* What ndpi_address_cache_dump() writes are items for different addresses.
LEMMA DumpedSound ==
    ASSUME NEW c, CacheSound(c), NEW epoch
    PROVE  LinesSound(Dumped(c, epoch), num_root_nodes)
<1> DEFINE N == num_root_nodes
<1>1. N \in Nat /\ Bucket = 0..(N - 1)
  BY Buckets, Zenon DEF Bucket
<1>2. PICK g : Dumps(g, N, c, epoch) /\ Dumped(c, epoch) = g[N]
  BY DumpedIs, Zenon
<1> HIDE DEF N
<1>3. \A n \in 0..N : LinesSound(g[n], n)
  <2> DEFINE Bad == {n \in 0..N : ~LinesSound(g[n], n)}
  <2> SUFFICES ASSUME Bad # {} PROVE FALSE
    BY Zenon
  <2>0. Bad \subseteq Nat
    BY <1>1
  <2>1. PICK n \in Bad : \A m \in Bad : n <= m
    BY <2>0, LeastElement, Zenon
  <2>2. n \in 0..N /\ ~LinesSound(g[n], n)
    BY Zenon
  <2>3. n # 0
    <3>1. g[0] = << >>
      BY <1>2, Zenon DEF Dumps
    <3>2. LinesSound(<< >>, 0)
      BY DEF LinesSound
    <3> QED
      BY <2>2, <3>1, <3>2, Zenon
  <2>4. n \in 1..N /\ n - 1 \in 0..N /\ n - 1 \in Bucket /\ n - 1 \in Nat /\ ~(n <= n - 1) /\ (n - 1) + 1 = n
    BY <1>1, <2>2, <2>3
  <2>5. LinesSound(g[n - 1], n - 1)
    BY <2>1, <2>4, Zenon
  <2> DEFINE s == c.root[n - 1]
             keep == {j \in DOMAIN s : ~Expired(s[j], epoch)}
             t == Kept(s, epoch)
  <2>6. g[n] = g[n - 1] \o t
    BY <1>2, <2>4, Zenon DEF Dumps
  <2>7. s \in Seq(Item) /\ ListSound(s, n - 1) /\ keep \subseteq DOMAIN s /\ t = EntriesAt(s, keep)
    BY <2>4, Zenon DEF CacheSound, CacheShape, Kept
  <2> HIDE DEF s, t, keep
  <2>8. t \in Seq(Item) /\ ListSound(t, n - 1)
    BY <2>7, DropSound, Zenon
  <2>9. LinesSound(g[n - 1] \o t, (n - 1) + 1)
    BY <2>4, <2>5, <2>8, LinesNext, Zenon
  <2> QED
    BY <2>2, <2>4, <2>6, <2>9, Zenon
<1>4. N \in 0..N
  BY <1>1
<1> QED
  BY <1>2, <1>3, <1>4, Zenon DEF N

\* The cache, when there is one, is sound and counted; the file is a dump.
AddressInv == (cache # NoCache => Counted(cache)) /\ FileSound

\* A sound cache is not the missing one.
LEMMA SoundIsCache ==
    ASSUME NEW c, CacheSound(c)
    PROVE  c # NoCache
<1>1. DOMAIN c = {"root", "num_entries"}
  BY Zenon DEF CacheSound, CacheShape
<1>2. "num_entries" \notin DOMAIN NoCache
  BY Zenon DEF NoCache
<1> QED
  BY <1>1, <1>2, Zenon

\* A call that needs a cache has one.
LEMMA OpenedCounted ==
    ASSUME AddressInv
    PROVE  Counted(Opened)
<1>1. Counted(ndpi_init_address_cache)
  BY NewCache DEF Counted
<1> QED
  BY <1>1, Zenon DEF Opened, AddressInv

\* The items of a cache, when there is one.
ItemsOf(c) == IF c = NoCache THEN {} ELSE {ItemAt(c, x) : x \in Places(c)}

\* They are what is in its lists.
LEMMA ItemsAre ==
    ASSUME NEW c, c # NoCache => CacheSound(c)
    PROVE  \A i : i \in ItemsOf(c) <=> c # NoCache /\ ItemIn(c, i)
<1>1. CASE c = NoCache
  BY <1>1, Zenon DEF ItemsOf
<1>2. CASE c # NoCache
  <2>1. \A i : ItemIn(c, i) <=> \E x \in Places(c) : i = ItemAt(c, x)
    BY <1>2, PlacesAre, Zenon DEF CacheSound
  <2>2. ItemsOf(c) = {ItemAt(c, x) : x \in Places(c)}
    BY <1>2, Zenon DEF ItemsOf
  <2> QED
    BY <1>2, <2>1, <2>2, Zenon
<1> QED
  BY <1>1, <1>2, Zenon

\* The inductive step.
LEMMA AddressStep ==
    AddressInv /\ [AddressNext]_addressVars => AddressInv'
<1> SUFFICES ASSUME AddressInv, [AddressNext]_addressVars PROVE AddressInv'
  BY Zenon
<1>0. Counted(Opened) /\ (cache # NoCache => Counted(cache)) /\ FileSound
  BY OpenedCounted, Zenon DEF AddressInv
<1>e. \A e \in Epoch : e \in Nat
  BY AddressCacheAssumption DEF Epoch
<1>1. ASSUME NEW a \in Addr, NEW hostname \in Name, NEW now \in Epoch \ {0}, NEW ttl \in AddressTtl,
             NEW mem \in BOOLEAN, ndpi_cache_address(a, hostname, now, ttl, mem)
      PROVE  AddressInv'
  <2>1. now \in Nat /\ ttl \in Nat
    BY <1>e, AddressCacheAssumption
  <2>2. Counted(Inserted(Opened, a, hostname, now, ttl, mem))
    BY <1>0, <2>1, InsertedCounted, Zenon
  <2> QED
    BY <1>0, <1>1, <2>2, Zenon DEF ndpi_cache_address, AddressInv, FileSound
<1>2. ASSUME NEW a \in Addr, NEW epoch \in Epoch, ndpi_address_cache_find(a, epoch) PROVE AddressInv'
  <2>1. CacheSound(cache) /\ Spare(cache) \in Nat
    BY <1>0, <1>2, Zenon DEF ndpi_address_cache_find, Counted
  <2>2. CacheSound(AfterSearch(cache, a, epoch)) /\ Shrunk(cache, AfterSearch(cache, a, epoch))
    BY <2>1, Searched, Zenon
  <2>3. Counted(AfterSearch(cache, a, epoch))
    BY <2>1, <2>2, Zenon DEF Shrunk, Counted
  <2> QED
    BY <1>0, <1>2, <2>3, Zenon DEF ndpi_address_cache_find, AddressInv, FileSound
<1>3. ASSUME NEW epoch \in Epoch, ndpi_cache_address_flush_expired(epoch) PROVE AddressInv'
  <2>1. CacheSound(cache) /\ Spare(cache) \in Nat
    BY <1>0, <1>3, Zenon DEF ndpi_cache_address_flush_expired, Counted
  <2>2. CacheSound(Flushed(cache, epoch)) /\ Shrunk(cache, Flushed(cache, epoch))
    BY <2>1, FlushedItems, Zenon
  <2>3. Counted(Flushed(cache, epoch))
    BY <2>1, <2>2, Zenon DEF Shrunk, Counted
  <2> QED
    BY <1>0, <1>3, <2>3, Zenon DEF ndpi_cache_address_flush_expired, AddressInv, FileSound
<1>4. ASSUME NEW epoch \in Epoch, ndpi_cache_address_dump(epoch) PROVE AddressInv'
  <2>1. CacheSound(cache) /\ file' = Dumped(cache, epoch) /\ cache' = cache
    BY <1>0, <1>4, Zenon DEF ndpi_cache_address_dump, Counted
  <2>2. LinesSound(Dumped(cache, epoch), num_root_nodes)
    BY <2>1, DumpedSound, Zenon
  <2>3. FileSound'
    BY <2>1, <2>2, Zenon DEF LinesSound, FileSound
  <2> QED
    BY <1>0, <2>1, <2>3, Zenon DEF AddressInv
<1>5. ASSUME NEW epoch \in Epoch, NEW clock \in Epoch \ {0}, NEW mem \in [DOMAIN file -> BOOLEAN],
             ndpi_cache_address_restore(epoch, clock, mem)
      PROVE  AddressInv'
  <2>1. clock \in Epoch
    BY Zenon
  <2>2. Counted(Restored(Opened, epoch, clock, mem))
    BY <1>0, <2>1, RestoredCounted, Zenon
  <2> QED
    BY <1>0, <1>5, <2>2, Zenon DEF ndpi_cache_address_restore, AddressInv, FileSound
<1>6. CASE ndpi_term_address_cache
  BY <1>0, <1>6, Zenon DEF ndpi_term_address_cache, AddressInv, FileSound
<1>7. CASE UNCHANGED addressVars
  BY <1>0, <1>7, Zenon DEF addressVars, AddressInv, FileSound
<1> QED
  BY <1>1, <1>2, <1>3, <1>4, <1>5, <1>6, <1>7, Zenon DEF AddressNext

\* The invariant holds.
LEMMA AddressInvariant == AddressSpec => []AddressInv
<1>1. AddressInit => AddressInv
  BY DEF AddressInit, AddressInv, FileSound
<1> QED
  BY <1>1, AddressStep, PTL DEF AddressSpec

\* For every hash, size and set of addresses: an address has one item, in the
\* bucket where a search looks for it, and num_entries counts every item, through
\* any sequence of insertions, searches, flushes, dumps and restores.
THEOREM AddressHasOneItem == AddressSpec => []OneItemPerAddress
<1>1. ASSUME AddressInv PROVE OneItemPerAddress
  <2> SUFFICES ASSUME cache # NoCache
               PROVE  /\ \A x \in Places(cache) : hash_id(ItemAt(cache, x).addr) = x[1]
                      /\ \A x, y \in Places(cache) : ItemAt(cache, x).addr = ItemAt(cache, y).addr => x = y
                      /\ cache.num_entries >= Cardinality(Places(cache))
    BY Zenon DEF OneItemPerAddress
  <2>1. CacheSound(cache) /\ Spare(cache) \in Nat
    BY <1>1, Zenon DEF AddressInv, Counted
  <2>2. CacheShape(cache) /\ cache.num_entries \in Int /\ \A h \in Bucket : ListSound(cache.root[h], h)
    BY <2>1, Zenon DEF CacheSound, CacheShape
  <2>3. Cardinality(Places(cache)) \in Nat /\ \A x : x \in Places(cache) <=> PlaceIn(cache, x)
    BY <2>2, PlacesAre, Zenon
  <2>4. \A x \in Places(cache) : \E h \in Bucket : \E j \in DOMAIN cache.root[h] : x = <<h, j>>
    BY <2>3, Zenon DEF PlaceIn
  <2>5. \A h, j : ItemAt(cache, <<h, j>>) = cache.root[h][j]
    BY Zenon DEF ItemAt
  <2>6. \A x \in Places(cache) : hash_id(ItemAt(cache, x).addr) = x[1]
    BY <2>2, <2>4, <2>5 DEF ListSound
  <2>7. ASSUME NEW x \in Places(cache), NEW y \in Places(cache), ItemAt(cache, x).addr = ItemAt(cache, y).addr
        PROVE  x = y
    <3>1. PICK h \in Bucket : \E j \in DOMAIN cache.root[h] : x = <<h, j>>
      BY <2>4, Zenon
    <3>2. PICK j \in DOMAIN cache.root[h] : x = <<h, j>>
      BY <3>1, Zenon
    <3>3. PICK g \in Bucket : \E k \in DOMAIN cache.root[g] : y = <<g, k>>
      BY <2>4, Zenon
    <3>4. PICK k \in DOMAIN cache.root[g] : y = <<g, k>>
      BY <3>3, Zenon
    <3>5. g = h
      BY <2>6, <2>7, <3>2, <3>4, Zenon
    <3>6. cache.root[h][j].addr = cache.root[h][k].addr
      BY <2>5, <2>7, <3>2, <3>4, <3>5, Zenon
    <3>7. j = k
      BY <2>2, <3>2, <3>4, <3>5, <3>6, Zenon DEF ListSound
    <3> QED
      BY <3>2, <3>4, <3>5, <3>7, Zenon
  <2>8. cache.num_entries >= Cardinality(Places(cache))
    BY <2>1, <2>2, <2>3 DEF Spare
  <2> QED
    BY <2>6, <2>7, <2>8, Zenon
<1> QED
  BY <1>1, AddressInvariant, PTL

\* A life made shorter, and what justifies it.
Shortened(i, j) == i.addr = j.addr /\ j.expire_epoch < i.expire_epoch

\* The answer came after the end of i, or the cache was restored.
ByAnswer(i) ==
    \E now \in (i.expire_epoch + 1)..MaxEpoch, hostname \in Name, ttl \in AddressTtl, mem \in BOOLEAN :
        ndpi_cache_address(i.addr, hostname, now, ttl, mem)
ByRestore ==
    \E epoch \in Epoch, clock \in Epoch \ {0}, mem \in [DOMAIN file -> BOOLEAN] :
        ndpi_cache_address_restore(epoch, clock, mem)

\* No step shortens a life for another reason.
LEMMA LifeStep ==
    ASSUME AddressInv, AddressInv', AddressNext, NEW i \in Items, NEW j \in Items', Shortened(i, j)
    PROVE  ByAnswer(i) \/ ByRestore
<1>1. /\ cache # NoCache /\ CacheSound(cache) /\ ItemIn(cache, i)
      /\ cache' # NoCache /\ CacheSound(cache') /\ ItemIn(cache', j)
  <2>1. (cache # NoCache => CacheSound(cache)) /\ (cache' # NoCache => CacheSound(cache'))
    BY Zenon DEF AddressInv, Counted
  <2>2. Items = ItemsOf(cache) /\ Items' = ItemsOf(cache')
    BY Zenon DEF Items, ItemsOf
  <2>3. \A k : k \in ItemsOf(cache) <=> cache # NoCache /\ ItemIn(cache, k)
    BY <2>1, ItemsAre, Zenon
  <2>4. \A k : k \in ItemsOf(cache') <=> cache' # NoCache /\ ItemIn(cache', k)
    BY <2>1, ItemsAre, Zenon
  <2> QED
    BY <2>1, <2>2, <2>3, <2>4, Zenon
<1>2. i.expire_epoch \in Nat
  <2>1. i \in Item
    BY <1>1, ItemPlace, Zenon
  <2> QED
    BY <2>1, AddressCacheAssumption DEF Item
<1>3. i.addr = j.addr /\ j.expire_epoch < i.expire_epoch
  BY Zenon DEF Shortened
<1>4. ~ItemIn(cache, j)
  <2> SUFFICES ASSUME ItemIn(cache, j) PROVE FALSE
    BY Zenon
  <2>1. i = j
    BY <1>1, <1>3, ItemUnique, Zenon
  <2> QED
    BY <1>2, <1>3, <2>1
<1>5. ASSUME NEW a \in Addr, NEW hostname \in Name, NEW now \in Epoch \ {0}, NEW ttl \in AddressTtl,
             NEW mem \in BOOLEAN, ndpi_cache_address(a, hostname, now, ttl, mem)
      PROVE  ByAnswer(i)
  <2>1. now \in Nat /\ ttl \in Nat /\ now <= MaxEpoch /\ MaxEpoch \in Nat
    BY AddressCacheAssumption DEF Epoch
  <2>2. cache' = Inserted(cache, a, hostname, now, ttl, mem)
    BY <1>1, <1>5, Zenon DEF ndpi_cache_address, Opened
  <2>3. ItemIn(Inserted(cache, a, hostname, now, ttl, mem), j)
    BY <1>1, <2>2, Zenon
  <2>4. i.addr = a /\ Expired(i, now)
    BY <1>1, <1>3, <2>1, <2>3, InsertedLife, Zenon
  <2>5. now \in (i.expire_epoch + 1)..MaxEpoch
    BY <1>2, <2>1, <2>4 DEF Expired
  <2>6. ndpi_cache_address(i.addr, hostname, now, ttl, mem)
    BY <1>5, <2>4, Zenon
  <2> QED
    BY <2>5, <2>6, Zenon DEF ByAnswer
<1>6. ASSUME NEW a \in Addr, NEW epoch \in Epoch, ndpi_address_cache_find(a, epoch) PROVE FALSE
  <2>1. cache' = AfterSearch(cache, a, epoch)
    BY <1>6, Zenon DEF ndpi_address_cache_find
  <2>2. Purged(cache, AfterSearch(cache, a, epoch), epoch)
    BY <1>1, Searched, Zenon
  <2> QED
    BY <1>1, <1>4, <2>1, <2>2, Zenon DEF Purged
<1>7. ASSUME NEW epoch \in Epoch, ndpi_cache_address_flush_expired(epoch) PROVE FALSE
  <2>1. cache' = Flushed(cache, epoch)
    BY <1>7, Zenon DEF ndpi_cache_address_flush_expired
  <2>2. \A k : ItemIn(Flushed(cache, epoch), k) => ItemIn(cache, k)
    BY <1>1, FlushedItems, Zenon
  <2> QED
    BY <1>1, <1>4, <2>1, <2>2, Zenon
<1>8. ASSUME NEW epoch \in Epoch, ndpi_cache_address_dump(epoch) PROVE FALSE
  BY <1>1, <1>4, <1>8, Zenon DEF ndpi_cache_address_dump
<1>9. ~ndpi_term_address_cache
  BY <1>1, Zenon DEF ndpi_term_address_cache
<1> QED
  BY <1>5, <1>6, <1>7, <1>8, <1>9, Zenon DEF AddressNext, ByRestore

\* For every cache: no DNS answer ends the life of an item before its time.
THEOREM LifeIsNotShortened == AddressSpec => LifeNotShortened
<1>1. AddressInv /\ AddressInv' /\ [AddressNext]_addressVars =>
          [\A i \in Items, j \in Items' :
              i.addr = j.addr /\ j.expire_epoch < i.expire_epoch =>
                  \/ \E now \in (i.expire_epoch + 1)..MaxEpoch, hostname \in Name, ttl \in AddressTtl, mem \in BOOLEAN :
                         ndpi_cache_address(i.addr, hostname, now, ttl, mem)
                  \/ \E epoch \in Epoch, clock \in Epoch \ {0}, mem \in [DOMAIN file -> BOOLEAN] :
                         ndpi_cache_address_restore(epoch, clock, mem)]_addressVars
  BY LifeStep, Zenon DEF Shortened, ByAnswer, ByRestore
<1> QED
  BY <1>1, AddressInvariant, PTL DEF AddressSpec, LifeNotShortened

\* A dump restored into a new cache gives its valid lines.
LEMMA RestoreStep ==
    ASSUME AddressInv, NEW epoch \in Epoch \ {0}, cache = NoCache, Len(file) <= max_num_entries,
           ndpi_cache_address_restore(epoch, epoch, [j \in DOMAIN file |-> TRUE])
    PROVE  Items' = {i \in Lines : i.expire_epoch >= epoch}
<1> DEFINE d == Restored(ndpi_init_address_cache, epoch, epoch, [j \in DOMAIN file |-> TRUE])
<1>1. cache' = d
  BY Zenon DEF ndpi_cache_address_restore, Opened
<1>2. FileSound
  BY Zenon DEF AddressInv
<1>3. Holds(d, Len(file), epoch)
  BY <1>2, RestoredFaithful, Zenon
<1> HIDE DEF d
<1>4. /\ CacheSound(d)
      /\ \A i : ItemIn(d, i) <=> \E m \in 1..Len(file) : i = file[m] /\ i.expire_epoch >= epoch
  BY <1>3, Zenon DEF Holds
<1>5. d # NoCache
  BY <1>4, SoundIsCache, Zenon
<1>6. \A i : i \in ItemsOf(d) <=> d # NoCache /\ ItemIn(d, i)
  BY <1>4, ItemsAre, Zenon
<1>7. Items' = ItemsOf(d)
  BY <1>1, Zenon DEF Items, ItemsOf
<1>8. \A i : i \in Lines <=> \E m \in 1..Len(file) : i = file[m]
  BY <1>2 DEF Lines, FileSound
<1>9. \A i : i \in ItemsOf(d) <=> i \in Lines /\ i.expire_epoch >= epoch
  BY <1>4, <1>5, <1>6, <1>8, Zenon
<1> QED
  BY <1>7, <1>9, Zenon

\* For every dump: what was written and has not expired is restored, with its
\* name and its time, when there is room and memory.
THEOREM DumpIsRestored == AddressSpec => RestoreIsFaithful
<1>1. AddressInv /\ [AddressNext]_addressVars =>
          [\A epoch \in Epoch \ {0} :
              /\ cache = NoCache /\ Len(file) <= max_num_entries
              /\ ndpi_cache_address_restore(epoch, epoch, [j \in DOMAIN file |-> TRUE])
              => Items' = {i \in Lines : i.expire_epoch >= epoch}]_addressVars
  BY RestoreStep, Zenon
<1> QED
  BY <1>1, AddressInvariant, PTL DEF AddressSpec, RestoreIsFaithful
=============================================================================
