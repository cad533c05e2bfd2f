--------------------------- MODULE ModuleLifecycle ---------------------------
(***************************************************************************)
(* The life of detection modules and of the global context they may share: *)
(* ndpi_global_init(), ndpi_init_detection_module(), ndpi_set_config(),    *)
(* ndpi_finalize_initialization(), ndpi_exit_detection_module() and        *)
(* ndpi_global_deinit(), as far as they own LRU caches.  A cache of global *)
(* scope is created by the first module that is finalized, used by all and *)
(* freed with the global context; any other cache belongs to its module.   *)
(*                                                                         *)
(* An application calls these functions from one thread at a time          *)
(* (ndpi_api.h: "all these calls MUST NOT run in parallel"), so each is    *)
(* one step.  Every allocation may fail, and may be given the address of   *)
(* something freed before.                                                 *)
(***************************************************************************)
EXTENDS Integers, FiniteSets

CONSTANTS Module,   \* struct ndpi_detection_module_struct
          Kind,     \* the LRU caches: ookla, bittorrent, stun, ...
          Address,  \* where ndpi_lru_cache_init() may put a cache
          MaxValue  \* the largest lru.*.size and lru.*.ttl accepted

ASSUME LifecycleAssumption == MaxValue \in Nat

NULL == "NULL"

ASSUME AddressAssumption == NULL \notin Address

VARIABLES g_ctx, mods, heap

lifecycleVars == <<g_ctx, mods, heap>>

LOCAL_SCOPE == 0

GLOBAL_SCOPE == 1

Pointer == Address \union {NULL}

Config == [size : 0..MaxValue, ttl : 0..MaxValue, scope : {LOCAL_SCOPE, GLOBAL_SCOPE}]

\* What is remembered of a struct ndpi_lru_cache.
Cache == [size : 1..MaxValue, ttl : 0..MaxValue, shared : BOOLEAN]

Unused == [shared |-> "unused"]

NoCaches == [k \in Kind |-> NULL]

NoModule ==
    [live |-> FALSE, has_g |-> FALSE, finalized |-> FALSE, cache |-> NoCaches,
     cfg |-> [k \in Kind |-> [size |-> 0, ttl |-> 0, scope |-> LOCAL_SCOPE]]]

NoContext == [live |-> FALSE, cache |-> NoCaches]

LifecycleInit ==
    /\ g_ctx = NoContext
    /\ mods = [m \in Module |-> NoModule]
    /\ heap = [a \in Address |-> Unused]

-----------------------------------------------------------------------------

ndpi_global_init ==
    /\ ~g_ctx.live
    /\ g_ctx' = [NoContext EXCEPT !.live = TRUE]
    /\ UNCHANGED <<mods, heap>>

\* The caches of the global context outlive the modules that use them.
ndpi_global_deinit ==
    /\ g_ctx.live
    /\ \A m \in Module : ~mods[m].has_g
    /\ heap' = [a \in Address |-> IF \E k \in Kind : g_ctx.cache[k] = a THEN Unused ELSE heap[a]]
    /\ g_ctx' = NoContext
    /\ UNCHANGED mods

\* ndpi_set_default_config() gives every cache a size, a ttl and local scope.
DefaultConfig == [k \in Kind |-> [size |-> MaxValue, ttl |-> MaxValue, scope |-> LOCAL_SCOPE]]

\* A module that cannot be built completely is torn down again and NULL is
\* returned; it has no caches yet, so nothing of it remains.
ndpi_init_detection_module(m, g) ==
    /\ ~mods[m].live
    /\ g => g_ctx.live
    /\ mods' = [mods EXCEPT ![m] = [live |-> TRUE, has_g |-> g, finalized |-> FALSE,
                                    cache |-> NoCaches, cfg |-> DefaultConfig]]
    /\ UNCHANGED <<g_ctx, heap>>

\* lru.<kind>.size, .ttl or .scope.  A value out of range is refused and
\* changes nothing.
Accepted(param, value) == value \in (IF param = "scope" THEN 0..1 ELSE 0..MaxValue)

ndpi_set_config(m, k, param, value) ==
    /\ mods[m].live /\ ~mods[m].finalized
    /\ Accepted(param, value)
    /\ mods' = [mods EXCEPT ![m].cfg[k] =
                   IF param = "size" THEN [@ EXCEPT !.size = value]
                   ELSE IF param = "ttl" THEN [@ EXCEPT !.ttl = value]
                   \* clbk_only_with_global_ctx
                   ELSE [@ EXCEPT !.scope = IF mods[m].has_g THEN value ELSE LOCAL_SCOPE]]
    /\ UNCHANGED <<g_ctx, heap>>

-----------------------------------------------------------------------------
(* ndpi_finalize_initialization                                             *)

Enabled(m, k) == mods[m].cfg[k].size > 0

IsGlobal(m, k) == mods[m].cfg[k].scope = GLOBAL_SCOPE

\* The module m creates a cache of kind k: its own or the missing global one.
Creates(m, k) == Enabled(m, k) /\ (IsGlobal(m, k) => g_ctx.cache[k] = NULL)

\* The caches for which ndpi_lru_cache_init() succeeds, and where they are.
Allocations(m) ==
    {new \in [Kind -> Pointer] :
        /\ \A k \in Kind : new[k] # NULL => Creates(m, k) /\ heap[new[k]] = Unused
        /\ \A j, k \in Kind : new[j] = new[k] /\ new[j] # NULL => j = k}

ndpi_lru_cache_init(cfg) ==
    [size |-> cfg.size, ttl |-> cfg.ttl, shared |-> cfg.scope = GLOBAL_SCOPE]

\* Wrong on purpose: an existing global cache takes the ttl of the module.
Initialised_Again(m, new) ==
    [a \in Address |->
        IF \E k \in Kind : new[k] = a
        THEN ndpi_lru_cache_init(mods[m].cfg[CHOOSE k \in Kind : new[k] = a])
        ELSE IF \E k \in Kind : IsGlobal(m, k) /\ g_ctx.cache[k] = a
        THEN [heap[a] EXCEPT !.ttl = mods[m].cfg[CHOOSE k \in Kind : g_ctx.cache[k] = a].ttl]
        ELSE heap[a]]

\* The heap once the caches of new are created.
Initialised(m, new) ==
    [a \in Address |->
        IF \E k \in Kind : new[k] = a
        THEN ndpi_lru_cache_init(mods[m].cfg[CHOOSE k \in Kind : new[k] = a])
        ELSE heap[a]]

\* The function may also fail before it comes to the caches (dissectors_init(),
\* the tree of risky addresses); then it has no effect on them and the module
\* is not finalized.
ndpi_finalize_initialization(m) ==
    /\ mods[m].live /\ ~mods[m].finalized
    /\ \E new \in Allocations(m) :
        LET global == [k \in Kind |->
                        IF IsGlobal(m, k) /\ Creates(m, k) THEN new[k] ELSE g_ctx.cache[k]]
            cache  == [k \in Kind |->
                        IF ~Enabled(m, k) THEN NULL
                        ELSE IF IsGlobal(m, k) THEN global[k] ELSE new[k]]
        IN  /\ heap' = Initialised(m, new)
            /\ g_ctx' = [g_ctx EXCEPT !.cache = global]
            /\ mods' = [mods EXCEPT ![m] = [live |-> TRUE, has_g |-> @.has_g, finalized |-> TRUE,
                                            cache |-> cache, cfg |-> @.cfg]]

\* Wrong on purpose: the caches are not freed.
Freed_None(m) == {}

\* The caches the module owns are those of local scope.
Freed(m) == {mods[m].cache[k] : k \in {j \in Kind : ~IsGlobal(m, j)}} \ {NULL}

ndpi_exit_detection_module(m) ==
    /\ mods[m].live
    /\ heap' = [a \in Address |-> IF a \in Freed(m) THEN Unused ELSE heap[a]]
    /\ mods' = [mods EXCEPT ![m] = NoModule]
    /\ UNCHANGED g_ctx

LifecycleNext ==
    \/ ndpi_global_init
    \/ ndpi_global_deinit
    \/ \E m \in Module :
        \/ \E g \in BOOLEAN : ndpi_init_detection_module(m, g)
        \/ \E k \in Kind, param \in {"size", "ttl", "scope"}, value \in 0..(MaxValue + 1) :
               ndpi_set_config(m, k, param, value)
        \/ ndpi_finalize_initialization(m)
        \/ ndpi_exit_detection_module(m)

LifecycleSpec == LifecycleInit /\ [][LifecycleNext]_lifecycleVars

-----------------------------------------------------------------------------
(* Properties.                                                              *)

LifecycleTypeOK ==
    /\ g_ctx \in [live : BOOLEAN, cache : [Kind -> Pointer]]
    /\ mods \in [Module -> [live : BOOLEAN, has_g : BOOLEAN, finalized : BOOLEAN,
                            cache : [Kind -> Pointer], cfg : [Kind -> Config]]]
    /\ heap \in [Address -> Cache \union {Unused}]

\* Who will free the cache at address a: the module it is local to, or the
\* global context.
Owners(a) ==
    {x \in Module \X Kind : mods[x[1]].cache[x[2]] = a /\ ~IsGlobal(x[1], x[2])}
    \union {<<"g_ctx", k>> : k \in {j \in Kind : g_ctx.cache[j] = a}}

\* The caches a module uses are allocated, its caches of global scope are those of
\* the global context, also after other modules have come and gone, and a cache that
\* two modules, hence two threads, may use at once has a mutex.  Exactly the
\* allocated caches have someone to free them, and never two: no cache leaks and none
\* is freed twice, whichever allocations fail.
CachesOwned ==
    /\ \A m \in Module, k \in Kind :
           LET c == mods[m].cache[k]
           IN  c # NULL =>
                   /\ heap[c] # Unused
                   /\ IsGlobal(m, k) => c = g_ctx.cache[k]
                   /\ (\E n \in Module \ {m}, j \in Kind : mods[n].cache[j] = c) => heap[c].shared
    /\ \A a \in Address :
           /\ heap[a] # Unused <=> Owners(a) # {}
           /\ \A x, y \in Owners(a) : x = y

\* A cache of the global context stays as it was created, with its statistics,
\* until ndpi_global_deinit(), even when no module is left.
GlobalCacheKept ==
    [][\A k \in Kind :
        g_ctx.cache[k] # NULL /\ g_ctx'.live
            => g_ctx'.cache[k] = g_ctx.cache[k] /\ heap'[g_ctx.cache[k]] = heap[g_ctx.cache[k]]]_lifecycleVars
=============================================================================
