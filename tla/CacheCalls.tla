----------------------------- MODULE CacheCalls -----------------------------
(***************************************************************************)
(* The calls of an LRU cache of ndpi_cache.c and their answers, shared by  *)
(* what the cache promises (LossyMap) and how it is built (LruCache).      *)
(***************************************************************************)
EXTENDS Integers

CONSTANTS Key, Value,
          Time,   \* now_sec, the time of the packet that caused the call
          Ttl     \* c->ttl, 0 = bindings do not expire

None == [op |-> "none"]

Binding == [op : {"bound"}, value : Value, timestamp : Time]

Bound(v, now) == [op |-> "bound", value |-> v, timestamp |-> now]

Call == [op : {"add"}, key : Key, value : Value, now : Time]
        \union [op : {"find"}, key : Key, clean : BOOLEAN, now : Time]

Found(v) == [op |-> "found", value |-> v]

Missed == [op |-> "missed"]

Added == [op |-> "added"]

Response == {Missed, Added} \union {Found(v) : v \in Value}

\* A binding answers a search made at time now: it is not from the future and,
\* unless the cache has no expiry (Ttl = 0), not older than Ttl.
Fresh(b, now) == now >= b.timestamp /\ (Ttl = 0 \/ now - b.timestamp <= Ttl)
=============================================================================
