------------------------------ MODULE LruCache ------------------------------
(***************************************************************************)
(* struct ndpi_lru_cache of ndpi_cache.c, as the threads of an application *)
(* use it: ndpi_lru_add_to_cache() and ndpi_lru_find_cache() run between   *)
(* lock and unlock and write the entry and the statistics one store after  *)
(* the other, a counter being loaded first and stored later.               *)
(*                                                                         *)
(* Every call brings its own now_sec, the time of the packet that caused   *)
(* it, so the times of two threads are not ordered.                        *)
(***************************************************************************)
EXTENDS CacheCalls

CONSTANTS Thread,
          Slot,    \* the indexes of entries[]
          SlotOf,  \* ndpi_quick_hash(key) % num_entries
          Shared,  \* c->shared: the cache has a mutex
          U64      \* 2^64: where the counters wrap

ASSUME CacheAssumption ==
    /\ 0 \in Key /\ 0 \in Value /\ 0 \in Time
    /\ Time \subseteq Int /\ Ttl \in Nat
    /\ SlotOf \in [Key -> Slot]
    /\ Shared \in BOOLEAN
    /\ U64 \in Nat \ {0}

\* A cache of one detection module is used by the thread that owns the module.
ASSUME LocalAssumption == ~Shared => \A t, u \in Thread : t = u

VARIABLES call,     \* thread -> the call it is in, or None
          rsp,      \* thread -> what the call will return, or None
          mutex,    \* the thread between lock and unlock, or Free
          entries,  \* slot -> struct ndpi_lru_cache_entry
          stats,    \* struct ndpi_lru_cache_stats
          pc, reg,  \* where each thread is, and the counter it has loaded
          served    \* history: the calls that have returned, by kind

vars == <<call, rsp, mutex, entries, stats, pc, reg, served>>

Free == "free"

ASSUME ThreadAssumption == Free \notin Thread

Counter == 0..(U64 - 1)

Entry == [is_full : BOOLEAN, key : Key, value : Value, timestamp : Time]

Counters == [n_insert : Counter, n_search : Counter, n_found : Counter]

\* The calloc() of ndpi_lru_cache_init().
NoEntry == [is_full |-> FALSE, key |-> 0, value |-> 0, timestamp |-> 0]

ZeroCounters == [n_insert |-> 0, n_search |-> 0, n_found |-> 0]

Increment(n) == (n + 1) % U64

Init ==
    /\ call = [t \in Thread |-> None]
    /\ rsp = [t \in Thread |-> None]
    /\ mutex = Free
    /\ entries = [s \in Slot |-> NoEntry]
    /\ stats = ZeroCounters
    /\ pc = [t \in Thread |-> "idle"]
    /\ reg = [t \in Thread |-> 0]
    /\ served = ZeroCounters

-----------------------------------------------------------------------------

SlotFor(t) == SlotOf[call[t].key]

Goto(t, from, to) == pc[t] = from /\ pc' = [pc EXCEPT ![t] = to]

CallBegin(t) ==
    /\ Goto(t, "idle", "lock")
    /\ \E c \in Call : call' = [call EXCEPT ![t] = c]
    /\ UNCHANGED <<rsp, mutex, entries, stats, reg, served>>

\* Wrong on purpose: the mutex is not waited for.
lru_cache_lock_Ignored(t) ==
    /\ Goto(t, "lock", call[t].op)
    /\ mutex' = t
    /\ UNCHANGED <<call, rsp, entries, stats, reg, served>>

lru_cache_lock(t) ==
    /\ Goto(t, "lock", call[t].op)
    /\ Shared => mutex = Free
    /\ mutex' = t
    /\ UNCHANGED <<call, rsp, entries, stats, reg, served>>

\* The call returns once it has released the mutex.
lru_cache_unlock(t) ==
    /\ Goto(t, "unlock", "idle")
    /\ mutex' = Free
    /\ served' = [served EXCEPT
                    !.n_insert = IF rsp[t] = Added THEN Increment(@) ELSE @,
                    !.n_search = IF rsp[t] # Added THEN Increment(@) ELSE @,
                    !.n_found = IF rsp[t] \notin {Added, Missed} THEN Increment(@) ELSE @]
    /\ call' = [call EXCEPT ![t] = None]
    /\ rsp' = [rsp EXCEPT ![t] = None]
    /\ UNCHANGED <<entries, stats, reg>>

-----------------------------------------------------------------------------
(* ndpi_lru_add_to_cache                                                    *)

AddCount(t) ==
    /\ Goto(t, "add", "is_full")
    /\ reg' = [reg EXCEPT ![t] = stats.n_insert]
    /\ UNCHANGED <<call, rsp, mutex, entries, stats, served>>

AddIsFull(t) ==
    /\ Goto(t, "is_full", "key")
    /\ stats' = [stats EXCEPT !.n_insert = Increment(reg[t])]
    /\ entries' = [entries EXCEPT ![SlotFor(t)].is_full = TRUE]
    /\ rsp' = [rsp EXCEPT ![t] = Added]
    /\ UNCHANGED <<call, mutex, reg, served>>

AddKey(t) ==
    /\ Goto(t, "key", "value")
    /\ entries' = [entries EXCEPT ![SlotFor(t)].key = call[t].key]
    /\ UNCHANGED <<call, rsp, mutex, stats, reg, served>>

AddValue(t) ==
    /\ Goto(t, "value", "timestamp")
    /\ entries' = [entries EXCEPT ![SlotFor(t)].value = call[t].value]
    /\ UNCHANGED <<call, rsp, mutex, stats, reg, served>>

AddTimestamp(t) ==
    /\ Goto(t, "timestamp", "unlock")
    /\ entries' = [entries EXCEPT ![SlotFor(t)].timestamp = call[t].now]
    /\ UNCHANGED <<call, rsp, mutex, stats, reg, served>>

-----------------------------------------------------------------------------
(* ndpi_lru_find_cache                                                      *)

FindCount(t) ==
    /\ Goto(t, "find", "check")
    /\ reg' = [reg EXCEPT ![t] = stats.n_search]
    /\ UNCHANGED <<call, rsp, mutex, entries, stats, served>>

Matches(t) ==
    LET e == entries[SlotFor(t)]
    IN  e.is_full /\ e.key = call[t].key /\ Fresh(e, call[t].now)

FindHit(t) ==
    /\ Goto(t, "check", "found")
    /\ Matches(t)
    /\ stats' = [stats EXCEPT !.n_search = Increment(reg[t])]
    /\ UNCHANGED <<call, rsp, mutex, entries, reg, served>>

\* Wrong on purpose: a miss searches again, still holding the mutex.
FindMiss_Retries(t) ==
    /\ Goto(t, "check", "find")
    /\ ~Matches(t)
    /\ stats' = [stats EXCEPT !.n_search = Increment(reg[t])]
    /\ UNCHANGED <<call, rsp, mutex, entries, reg, served>>

\* Wrong on purpose: a search that finds nothing is not counted.
FindMiss_Uncounted(t) ==
    /\ Goto(t, "check", "unlock")
    /\ ~Matches(t)
    /\ rsp' = [rsp EXCEPT ![t] = Missed]
    /\ UNCHANGED <<call, mutex, entries, stats, reg, served>>

FindMiss(t) ==
    /\ Goto(t, "check", "unlock")
    /\ ~Matches(t)
    /\ stats' = [stats EXCEPT !.n_search = Increment(reg[t])]
    /\ rsp' = [rsp EXCEPT ![t] = Missed]
    /\ UNCHANGED <<call, mutex, entries, reg, served>>

\* *value is read, the entry cleaned, n_found loaded.
FindValue(t) ==
    /\ Goto(t, "found", "n_found")
    /\ rsp' = [rsp EXCEPT ![t] = Found(entries[SlotFor(t)].value)]
    /\ entries' = IF call[t].clean
                  THEN [entries EXCEPT ![SlotFor(t)].is_full = FALSE]
                  ELSE entries
    /\ reg' = [reg EXCEPT ![t] = stats.n_found]
    /\ UNCHANGED <<call, mutex, stats, served>>

FindFound(t) ==
    /\ Goto(t, "n_found", "unlock")
    /\ stats' = [stats EXCEPT !.n_found = Increment(reg[t])]
    /\ UNCHANGED <<call, rsp, mutex, entries, reg, served>>

-----------------------------------------------------------------------------

\* What a thread does once it owns the mutex.
InsideStep(t) ==
    \/ AddCount(t) \/ AddIsFull(t) \/ AddKey(t) \/ AddValue(t) \/ AddTimestamp(t)
    \/ FindCount(t) \/ FindHit(t) \/ FindMiss(t) \/ FindValue(t) \/ FindFound(t)
    \/ lru_cache_unlock(t)

Next == \E t \in Thread : CallBegin(t) \/ lru_cache_lock(t) \/ InsideStep(t)

Spec == Init /\ [][Next]_vars

\* A thread inside a call keeps running; which waiter gets the mutex is left
\* to the scheduler.
FairSpec == Spec /\ \A t \in Thread : WF_vars(InsideStep(t))

-----------------------------------------------------------------------------
(* Properties.                                                              *)

Inside == {"add", "is_full", "key", "value", "timestamp",
           "find", "check", "found", "n_found", "unlock"}

TypeOK ==
    /\ call \in [Thread -> Call \union {None}]
    /\ rsp \in [Thread -> Response \union {None}]
    /\ mutex \in Thread \union {Free}
    /\ entries \in [Slot -> Entry]
    /\ stats \in Counters
    /\ pc \in [Thread -> Inside \union {"idle", "lock"}]
    /\ reg \in [Thread -> Counter]
    /\ served \in Counters

\* The entry of slot s as the last call that started writing it will leave it.
Settled(s) ==
    IF mutex # Free /\ pc[mutex] \in {"key", "value", "timestamp"} /\ SlotFor(mutex) = s
    THEN [is_full |-> TRUE, key |-> call[mutex].key, value |-> call[mutex].value,
          timestamp |-> call[mutex].now]
    ELSE entries[s]

BindingOf(k) ==
    LET e == Settled(SlotOf[k])
    IN  IF e.is_full /\ e.key = k THEN Bound(e.value, e.timestamp) ELSE None

Map == INSTANCE LossyMap WITH binding <- [k \in Key |-> BindingOf(k)]

\* Seen from the callers the cache is a lossy map: no call ever sees half of an
\* entry another thread is writing, an outdated value, or a stale timestamp.
ImplementsMap == Map!MapSpec

\* The statistics count every call that has been served, once: whenever nobody
\* is inside the cache the counters equal the number of calls that returned.
StatsAgree == mutex = Free => stats = served

\* Whoever takes the mutex releases it, whichever way the call goes.
LockReleased == \A t \in Thread : (mutex = t) ~> (mutex # t)
=============================================================================
