------------------------------ MODULE LossyMap ------------------------------
(***************************************************************************)
(* What an LRU cache of ndpi_cache.c promises the dissectors that share    *)
(* it: a map from keys to (value, timestamp) that may forget any binding   *)
(* when another key is added, never answers with anything but the last     *)
(* value added for the key, and only while that binding is fresh.  Every   *)
(* call takes effect at one instant between its invocation and its return. *)
(***************************************************************************)
EXTENDS CacheCalls

CONSTANT Thread

VARIABLES binding,  \* key -> its binding or None
          call,     \* thread -> the call it is in, or None
          rsp       \* thread -> the answer its call has been given, or None

mapVars == <<binding, call, rsp>>

MapInit ==
    /\ binding = [k \in Key |-> None]
    /\ call = [t \in Thread |-> None]
    /\ rsp = [t \in Thread |-> None]

Invoke(t) ==
    /\ call[t] = None
    /\ \E c \in Call : call' = [call EXCEPT ![t] = c]
    /\ UNCHANGED <<binding, rsp>>

Pending(t, op) == call[t] # None /\ call[t].op = op /\ rsp[t] = None

Add(t) ==
    /\ Pending(t, "add")
    /\ binding' \in [Key -> Binding \union {None}]
    /\ binding'[call[t].key] = Bound(call[t].value, call[t].now)
    /\ \A k \in Key \ {call[t].key} : binding'[k] \in {binding[k], None}
    /\ rsp' = [rsp EXCEPT ![t] = Added]
    /\ UNCHANGED call

\* A search misses only what was never added, was forgotten or is not fresh.
Miss(t) ==
    /\ Pending(t, "find")
    /\ LET b == binding[call[t].key] IN b = None \/ ~Fresh(b, call[t].now)
    /\ rsp' = [rsp EXCEPT ![t] = Missed]
    /\ UNCHANGED <<binding, call>>

Hit(t) ==
    /\ Pending(t, "find")
    /\ LET c == call[t]
           b == binding[c.key]
       IN  /\ b # None
           /\ Fresh(b, c.now)
           /\ rsp' = [rsp EXCEPT ![t] = Found(b.value)]
           /\ binding' = IF c.clean THEN [binding EXCEPT ![c.key] = None] ELSE binding
    /\ UNCHANGED call

Return(t) ==
    /\ rsp[t] # None
    /\ call' = [call EXCEPT ![t] = None]
    /\ rsp' = [rsp EXCEPT ![t] = None]
    /\ UNCHANGED binding

MapNext == \E t \in Thread : Invoke(t) \/ Add(t) \/ Miss(t) \/ Hit(t) \/ Return(t)

MapSpec == MapInit /\ [][MapNext]_mapVars
=============================================================================
