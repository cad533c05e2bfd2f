---------------------------- MODULE CacheProofs ----------------------------
(***************************************************************************)
(* LruCache implements LossyMap for any number of threads, keys, slots and *)
(* values, any hash function and any time to live; and the two generations *)
(* of HostnameCache hold what was added since the last swap but one.       *)
(***************************************************************************)
EXTENDS LruCache, HostnameCache, TLAPS

AddCall == [op : {"add"}, key : Key, value : Value, now : Time]

FindCall == [op : {"find"}, key : Key, clean : BOOLEAN, now : Time]

Writing == {"key", "value", "timestamp"}

\* Exactly the thread inside the cache owns the mutex.
Exclusive == \A t \in Thread : pc[t] \in Inside <=> mutex = t

\* The call of a thread and how far it has come.
CallInv ==
    \A t \in Thread :
        /\ pc[t] = "idle" <=> call[t] = None
        /\ pc[t] \in {"add", "is_full"} \union Writing => call[t] \in AddCall
        /\ pc[t] \in {"find", "check", "found", "n_found"} => call[t] \in FindCall

\* The answer is decided when a call takes effect.
RspInv ==
    \A t \in Thread :
        /\ pc[t] \in {"idle", "lock", "add", "is_full", "find", "check", "found"} => rsp[t] = None
        /\ pc[t] \in Writing \union {"n_found", "unlock"} => rsp[t] # None

\* What the thread inside the cache has already stored, or found.
EntryInv ==
    \A t \in Thread :
        LET e == entries[SlotFor(t)]
        IN  /\ pc[t] \in Writing => e.is_full
            /\ pc[t] \in {"value", "timestamp"} => e.key = call[t].key
            /\ pc[t] = "timestamp" => e.value = call[t].value
            /\ pc[t] = "found" => Matches(t)

IInv == TypeOK /\ Exclusive /\ CallInv /\ RspInv /\ EntryInv

-----------------------------------------------------------------------------

\* A call is an add or a find, and no call is mistaken for none.
LEMMA Constants ==
    /\ None \notin Call
    /\ Call = AddCall \union FindCall
    /\ \A c \in Call : c.key \in Key /\ c.now \in Time /\ c.op \in {"add", "find"}
    /\ \A c \in AddCall : c.op = "add" /\ c.key \in Key /\ c.value \in Value /\ c.now \in Time
    /\ \A c \in FindCall : c.op = "find" /\ c.key \in Key /\ c.clean \in BOOLEAN /\ c.now \in Time
  BY Zenon DEF None, Call, AddCall, FindCall

\* Every answer the cache gives is an answer LossyMap may give.
LEMMA Answers ==
    /\ Added \in Response /\ Missed \in Response
    /\ \A v \in Value : Found(v) \in Response
    /\ None \notin Response
  BY ZenonT(60) DEF Added, Missed, Found, None, Response

\* An empty cache that nobody has called satisfies the invariant.
LEMMA InitIInv == Init => IInv
<1> SUFFICES ASSUME Init PROVE IInv
  BY Zenon
<1> USE DEF Init
<1>1. 0 \in Counter /\ ZeroCounters \in Counters
  BY CacheAssumption DEF Counter, Counters, ZeroCounters
<1>2. NoEntry \in Entry
  BY CacheAssumption, Zenon DEF NoEntry, Entry
<1>3. TypeOK
  BY <1>1, <1>2, Zenon DEF TypeOK
<1>4. Exclusive
  BY ThreadAssumption, Zenon DEF Exclusive, Inside
<1>5. CallInv /\ RspInv /\ EntryInv
  BY Zenon DEF CallInv, RspInv, EntryInv, Writing
<1> QED
  BY <1>3, <1>4, <1>5, Zenon DEF IInv

\* LossyMap and LruCache speak of the same calls and answers.
LEMMA SameTerms ==
    /\ Map!None = None /\ Map!Call = Call /\ Map!Added = Added /\ Map!Missed = Missed
    /\ Map!Binding = Binding
    /\ \A v : Map!Found(v) = Found(v)
    /\ \A v, now : Map!Bound(v, now) = Bound(v, now)
    /\ \A b, now : Map!Fresh(b, now) <=> Fresh(b, now)
  BY Zenon DEF Map!None, None, Map!Call, Call, Map!Added, Added, Map!Missed, Missed, Map!Binding,
         Binding, Map!Found, Found, Map!Bound, Bound, Map!Fresh, Fresh

-----------------------------------------------------------------------------
(* The steps of a thread, one lemma per action.                             *)

Bindings == [k \in Key |-> BindingOf(k)]

\* A step of the map, or none.
MapStep == Map!MapNext \/ UNCHANGED <<Bindings, call, rsp>>

Kept == IInv' /\ MapStep

\* A thread that begins a call has not touched the cache yet.
LEMMA CallBeginKeeps ==
    ASSUME IInv, NEW t \in Thread, CallBegin(t)
    PROVE  Kept
<1>1. PICK c \in Call : call' = [call EXCEPT ![t] = c]
  BY ZenonT(60) DEF CallBegin
<1>2. /\ pc[t] = "idle" /\ pc' = [pc EXCEPT ![t] = "lock"]
      /\ UNCHANGED <<rsp, mutex, entries, stats, reg, served>>
  BY Zenon DEF CallBegin, Goto
<1>3. TypeOK /\ Exclusive /\ CallInv /\ RspInv /\ EntryInv
  BY Zenon DEF IInv
<1>4. TypeOK'
  BY <1>1, <1>2, <1>3, Zenon DEF TypeOK
<1>5. mutex # t /\ Exclusive'
  BY <1>2, <1>3, Zenon DEF Exclusive, Inside, TypeOK
<1>6. CallInv'
  BY <1>1, <1>2, <1>3, Constants, Zenon DEF CallInv, Writing, TypeOK
<1>7. RspInv'
  BY <1>2, <1>3, Zenon DEF RspInv, Writing, TypeOK
<1>8. EntryInv'
  <2> SUFFICES ASSUME NEW u \in Thread, u # t, pc[u] \in Inside
               PROVE  pc'[u] = pc[u] /\ call'[u] = call[u] /\ entries' = entries
    BY <1>1, <1>2, <1>3, Zenon DEF EntryInv, Writing, Inside, TypeOK, SlotFor, Matches
  <2> QED
    BY <1>1, <1>2, <1>3, Zenon DEF TypeOK
<1>9. Bindings' = Bindings
  <2>1. \A s \in Slot : Settled(s)' = Settled(s)
    BY <1>1, <1>2, <1>3, <1>5, Zenon DEF Settled, SlotFor, TypeOK
  <2> QED
    BY <2>1, CacheAssumption, Zenon DEF Bindings, BindingOf
<1>10. Map!Invoke(t)
  BY ZenonT(60), <1>1, <1>2, <1>3, <1>9, SameTerms DEF Map!Invoke, Bindings, CallInv
<1> QED
  BY <1>4, <1>5, <1>6, <1>7, <1>8, <1>10, Zenon DEF Kept, IInv, MapStep, Map!MapNext

\* lru_cache_lock() lets a thread in only when nobody is inside.
LEMMA LockKeeps ==
    ASSUME IInv, NEW t \in Thread, lru_cache_lock(t)
    PROVE  Kept
<1>1. /\ pc[t] = "lock" /\ pc' = [pc EXCEPT ![t] = call[t].op] /\ mutex' = t
      /\ Shared => mutex = Free
      /\ UNCHANGED <<call, rsp, entries, stats, reg, served>>
  BY Zenon DEF lru_cache_lock, Goto
<1>2. TypeOK /\ Exclusive /\ CallInv /\ RspInv /\ EntryInv
  BY Zenon DEF IInv
<1>3. mutex = Free
  BY <1>1, <1>2, LocalAssumption, CacheAssumption, Zenon DEF Exclusive, Inside, TypeOK
<1>4. call[t] \in Call /\ call[t].op \in {"add", "find"}
  BY <1>1, <1>2, Constants, Zenon DEF CallInv, TypeOK
<1>5. \A u \in Thread : pc[u] \notin Inside
  BY <1>2, <1>3, ThreadAssumption, Zenon DEF Exclusive
<1>6. TypeOK'
  BY <1>1, <1>2, <1>4, Zenon DEF TypeOK, Inside
<1>7. Exclusive'
  BY <1>1, <1>2, <1>4, <1>5, Zenon DEF Exclusive, Inside, TypeOK
<1>8. CallInv'
  BY <1>1, <1>2, <1>4, Constants, Zenon DEF CallInv, Writing, TypeOK
<1>9. RspInv'
  BY <1>1, <1>2, <1>4, Zenon DEF RspInv, Writing, TypeOK
<1>10. EntryInv'
  BY <1>1, <1>2, <1>4, <1>5, Zenon DEF EntryInv, Writing, Inside, TypeOK
<1>11. Bindings' = Bindings
  <2>1. \A s \in Slot : Settled(s)' = Settled(s)
    BY <1>1, <1>2, <1>3, <1>4, Zenon DEF Settled, TypeOK
  <2> QED
    BY <2>1, CacheAssumption, Zenon DEF Bindings, BindingOf
<1> QED
  BY <1>1, <1>6, <1>7, <1>8, <1>9, <1>10, <1>11, Zenon DEF Kept, IInv, MapStep

\* A step of the thread inside the cache: it is alone there, so the invariant
\* only has to be shown for its own entry, call and answer.
LEMMA InsideKeeps ==
    ASSUME IInv, NEW t \in Thread, NEW to \in Inside, NEW r \in Response \union {None},
           pc[t] \in Inside, pc' = [pc EXCEPT ![t] = to], rsp' = [rsp EXCEPT ![t] = r],
           UNCHANGED <<call, mutex, served>>,
           entries' \in [Slot -> Entry], stats' \in Counters, reg' \in [Thread -> Counter],
           to \in {"add", "is_full"} \union Writing => call[t] \in AddCall,
           to \in {"find", "check", "found", "n_found"} => call[t] \in FindCall,
           r = None <=> to \in {"add", "is_full", "find", "check", "found"},
           to \in Writing => entries'[SlotFor(t)].is_full,
           to \in {"value", "timestamp"} => entries'[SlotFor(t)].key = call[t].key,
           to = "timestamp" => entries'[SlotFor(t)].value = call[t].value,
           to = "found" => entries' = entries /\ Matches(t)
    PROVE  IInv' /\ mutex = t
<1>1. TypeOK /\ Exclusive /\ CallInv /\ RspInv /\ EntryInv
  BY Zenon DEF IInv
<1>2. mutex = t /\ \A u \in Thread : u # t => pc[u] \notin Inside /\ pc'[u] = pc[u]
  BY <1>1, Zenon DEF Exclusive, TypeOK
<1>3. pc'[t] = to /\ rsp'[t] = r /\ \A u \in Thread : u # t => rsp'[u] = rsp[u]
  BY <1>1, Zenon DEF TypeOK
<1>4. TypeOK'
  BY <1>1, Zenon DEF TypeOK
<1>5. Exclusive'
  BY <1>1, <1>2, <1>3, Zenon DEF Exclusive
<1>6. CallInv'
  <2>1. pc[t] # "idle" /\ to # "idle"
    BY Zenon DEF Inside
  <2> QED
    BY <1>1, <1>2, <1>3, <2>1 DEF CallInv
<1>7. RspInv'
  BY <1>1, <1>2, <1>3 DEF RspInv, Writing, Inside
<1>8. EntryInv'
  <2> SUFFICES ASSUME NEW u \in Thread, u # t
               PROVE  pc'[u] \notin Writing \union {"found"}
    BY <1>2, <1>3, Zenon DEF EntryInv, Writing, SlotFor, Matches
  <2> QED
    BY <1>2, Zenon DEF Inside, Writing
<1> QED
  BY <1>2, <1>4, <1>5, <1>6, <1>7, <1>8, Zenon DEF IInv

\* What the invariant says of the thread t inside the cache.
Alone(t) ==
    /\ TypeOK /\ mutex = t /\ t # Free
    /\ call[t] \in Call /\ SlotFor(t) \in Slot /\ entries[SlotFor(t)] \in Entry
    /\ pc[t] \in {"add", "is_full"} \union Writing => call[t] \in AddCall
    /\ pc[t] \in {"find", "check", "found", "n_found"} => call[t] \in FindCall
    /\ stats.n_insert \in Counter /\ stats.n_search \in Counter /\ stats.n_found \in Counter

\* The mutex keeps every other thread out while one is inside.
LEMMA IsAlone ==
    ASSUME IInv, NEW t \in Thread, pc[t] \in Inside
    PROVE  Alone(t)
<1>1. TypeOK /\ Exclusive /\ CallInv
  BY Zenon DEF IInv
<1>2. mutex = t /\ t # Free
  BY <1>1, ThreadAssumption, Zenon DEF Exclusive
<1>3. call[t] \in Call
  BY <1>1, Zenon DEF CallInv, TypeOK, Inside
<1>4. SlotFor(t) \in Slot /\ entries[SlotFor(t)] \in Entry
  BY <1>1, <1>3, Constants, CacheAssumption, Zenon DEF SlotFor, TypeOK
<1>5. stats.n_insert \in Counter /\ stats.n_search \in Counter /\ stats.n_found \in Counter
  BY <1>1, Zenon DEF TypeOK, Counters
<1> QED
  BY <1>1, <1>2, <1>3, <1>4, <1>5, Zenon DEF CallInv, Alone

\* The statistics counters stay in their width: they wrap.
LEMMA Counting == \A n \in Counter : Increment(n) \in Counter
  BY CacheAssumption DEF Counter, Increment

\* A step that leaves every settled entry alone does not change the map.
LEMMA SameBindings ==
    ASSUME \A s \in Slot : Settled(s)' = Settled(s)
    PROVE  Bindings' = Bindings
  BY CacheAssumption, Zenon DEF Bindings, BindingOf

\* Loading n_insert leaves the entries alone.
LEMMA AddCountKeeps ==
    ASSUME IInv, NEW t \in Thread, AddCount(t)
    PROVE  Kept
<1>1. /\ pc[t] = "add" /\ pc' = [pc EXCEPT ![t] = "is_full"]
      /\ reg' = [reg EXCEPT ![t] = stats.n_insert]
      /\ UNCHANGED <<call, rsp, mutex, entries, stats, served>>
  BY Zenon DEF AddCount, Goto
<1>2. pc[t] \in Inside /\ rsp[t] = None
  BY <1>1, Zenon DEF Inside, IInv, RspInv
<1>here. Alone(t)
  BY <1>2, IsAlone, Zenon
<1>3. /\ rsp' = [rsp EXCEPT ![t] = None] /\ reg' \in [Thread -> Counter]
      /\ entries' \in [Slot -> Entry] /\ stats' \in Counters
  BY <1>1, <1>2, <1>here, Zenon DEF Alone, TypeOK
<1>4. IInv' /\ mutex = t
  BY ZenonT(60), <1>1, <1>2, <1>3, <1>here, InsideKeeps DEF Alone, Inside, Writing
<1>5. Bindings' = Bindings
  BY <1>1, <1>2, <1>4, <1>here, SameBindings, Zenon DEF Alone, Settled, TypeOK
<1> QED
  BY <1>1, <1>4, <1>5, Zenon DEF Kept, MapStep

\* Storing the key leaves the value and the time of the old entry behind for
\* the next two steps to overwrite.
LEMMA AddKeyKeeps ==
    ASSUME IInv, NEW t \in Thread, AddKey(t)
    PROVE  Kept
<1>1. /\ pc[t] = "key" /\ pc' = [pc EXCEPT ![t] = "value"]
      /\ entries' = [entries EXCEPT ![SlotFor(t)].key = call[t].key]
      /\ UNCHANGED <<call, rsp, mutex, stats, reg, served>>
  BY Zenon DEF AddKey, Goto
<1>2. pc[t] \in Inside /\ rsp[t] # None /\ entries[SlotFor(t)].is_full
  BY <1>1, Zenon DEF Inside, IInv, RspInv, EntryInv, Writing
<1>here. Alone(t)
  BY <1>2, IsAlone, Zenon
<1>3. call[t] \in AddCall /\ call[t].key \in Key
  BY <1>1, <1>2, <1>here, Constants, Zenon DEF Alone, Writing
<1>4. /\ rsp' = [rsp EXCEPT ![t] = rsp[t]] /\ rsp[t] \in Response \union {None}
      /\ reg' \in [Thread -> Counter] /\ stats' \in Counters
  BY <1>1, <1>2, <1>here, Zenon DEF Alone, TypeOK
<1>5. entries' \in [Slot -> Entry]
  BY <1>1, <1>2, <1>3, <1>here, Zenon DEF Alone, TypeOK, Entry
<1>6. /\ entries'[SlotFor(t)].key = call[t].key /\ entries'[SlotFor(t)].is_full
      /\ \A s \in Slot \ {SlotFor(t)} : entries'[s] = entries[s]
  BY <1>1, <1>2, <1>here, Zenon DEF Alone, TypeOK, Entry
<1>7. IInv' /\ mutex = t
  BY ZenonT(60), <1>1, <1>2, <1>3, <1>4, <1>5, <1>6, InsideKeeps DEF Inside, Writing
<1>8. Bindings' = Bindings
  <2>1. pc'[t] = "value" /\ mutex' = t /\ t # Free
    BY <1>1, <1>2, <1>here, Zenon DEF Alone, TypeOK
  <2>2. \A s \in Slot : Settled(s)' = Settled(s)
    BY <1>1, <1>6, <1>7, <2>1 DEF Settled, SlotFor
  <2> QED
    BY <2>2, SameBindings, Zenon
<1> QED
  BY <1>1, <1>7, <1>8, Zenon DEF Kept, MapStep

\* Storing the value completes all of the entry but its time.
LEMMA AddValueKeeps ==
    ASSUME IInv, NEW t \in Thread, AddValue(t)
    PROVE  Kept
<1>1. /\ pc[t] = "value" /\ pc' = [pc EXCEPT ![t] = "timestamp"]
      /\ entries' = [entries EXCEPT ![SlotFor(t)].value = call[t].value]
      /\ UNCHANGED <<call, rsp, mutex, stats, reg, served>>
  BY Zenon DEF AddValue, Goto
<1>2. /\ pc[t] \in Inside /\ rsp[t] # None
      /\ entries[SlotFor(t)].is_full /\ entries[SlotFor(t)].key = call[t].key
  BY <1>1, Zenon DEF Inside, IInv, RspInv, EntryInv, Writing
<1>here. Alone(t)
  BY <1>2, IsAlone, Zenon
<1>3. call[t] \in AddCall /\ call[t].value \in Value
  BY <1>1, <1>2, <1>here, Constants, Zenon DEF Alone, Writing
<1>4. /\ rsp' = [rsp EXCEPT ![t] = rsp[t]] /\ rsp[t] \in Response \union {None}
      /\ reg' \in [Thread -> Counter] /\ stats' \in Counters
  BY <1>1, <1>2, <1>here, Zenon DEF Alone, TypeOK
<1>5. entries' \in [Slot -> Entry]
  BY <1>1, <1>2, <1>3, <1>here, Zenon DEF Alone, TypeOK, Entry
<1>6. /\ entries'[SlotFor(t)].key = call[t].key /\ entries'[SlotFor(t)].is_full
      /\ entries'[SlotFor(t)].value = call[t].value
      /\ \A s \in Slot \ {SlotFor(t)} : entries'[s] = entries[s]
  BY <1>1, <1>2, <1>here, Zenon DEF Alone, TypeOK, Entry
<1>7. IInv' /\ mutex = t
  BY ZenonT(60), <1>1, <1>2, <1>3, <1>4, <1>5, <1>6, InsideKeeps DEF Inside, Writing
<1>8. Bindings' = Bindings
  <2>1. pc'[t] = "timestamp" /\ mutex' = t /\ t # Free
    BY <1>1, <1>2, <1>here, Zenon DEF Alone, TypeOK
  <2>2. \A s \in Slot : Settled(s)' = Settled(s)
    BY <1>1, <1>6, <1>7, <2>1 DEF Settled, SlotFor
  <2> QED
    BY <2>2, SameBindings, Zenon
<1> QED
  BY <1>1, <1>7, <1>8, Zenon DEF Kept, MapStep

\* The last store makes the entry what Settled said it would be.
LEMMA AddTimestampKeeps ==
    ASSUME IInv, NEW t \in Thread, AddTimestamp(t)
    PROVE  Kept
<1>1. /\ pc[t] = "timestamp" /\ pc' = [pc EXCEPT ![t] = "unlock"]
      /\ entries' = [entries EXCEPT ![SlotFor(t)].timestamp = call[t].now]
      /\ UNCHANGED <<call, rsp, mutex, stats, reg, served>>
  BY Zenon DEF AddTimestamp, Goto
<1>2. /\ pc[t] \in Inside /\ rsp[t] # None
      /\ entries[SlotFor(t)].is_full /\ entries[SlotFor(t)].key = call[t].key
      /\ entries[SlotFor(t)].value = call[t].value
  BY <1>1, Zenon DEF Inside, IInv, RspInv, EntryInv, Writing
<1>here. Alone(t)
  BY <1>2, IsAlone, Zenon
<1>3. call[t] \in AddCall /\ call[t].now \in Time
  BY <1>1, <1>2, <1>here, Constants, Zenon DEF Alone, Writing
<1>4. /\ rsp' = [rsp EXCEPT ![t] = rsp[t]] /\ rsp[t] \in Response \union {None}
      /\ reg' \in [Thread -> Counter] /\ stats' \in Counters
  BY <1>1, <1>2, <1>here, Zenon DEF Alone, TypeOK
<1>5. entries' \in [Slot -> Entry]
  BY <1>1, <1>2, <1>3, <1>here, Zenon DEF Alone, TypeOK, Entry
<1>6. /\ entries'[SlotFor(t)] = [is_full |-> TRUE, key |-> call[t].key,
                                 value |-> call[t].value, timestamp |-> call[t].now]
      /\ \A s \in Slot \ {SlotFor(t)} : entries'[s] = entries[s]
  BY ZenonT(60), <1>1, <1>2, <1>here DEF Alone, TypeOK, Entry
<1>7. IInv' /\ mutex = t
  BY ZenonT(60), <1>1, <1>2, <1>4, <1>5, InsideKeeps DEF Inside, Writing
<1>8. Bindings' = Bindings
  <2>1. pc'[t] = "unlock" /\ mutex' = t /\ t # Free
    BY <1>1, <1>2, <1>here, Zenon DEF Alone, TypeOK
  <2>2. \A s \in Slot : Settled(s)' = Settled(s)
    BY <1>1, <1>6, <1>7, <2>1, Zenon DEF Settled
  <2> QED
    BY <2>2, SameBindings, Zenon
<1> QED
  BY <1>1, <1>7, <1>8, Zenon DEF Kept, MapStep

\* Loading n_search leaves the entries alone.
LEMMA FindCountKeeps ==
    ASSUME IInv, NEW t \in Thread, FindCount(t)
    PROVE  Kept
<1>1. /\ pc[t] = "find" /\ pc' = [pc EXCEPT ![t] = "check"]
      /\ reg' = [reg EXCEPT ![t] = stats.n_search]
      /\ UNCHANGED <<call, rsp, mutex, entries, stats, served>>
  BY Zenon DEF FindCount, Goto
<1>2. pc[t] \in Inside /\ rsp[t] = None
  BY <1>1, Zenon DEF Inside, IInv, RspInv
<1>here. Alone(t)
  BY <1>2, IsAlone, Zenon
<1>3. /\ rsp' = [rsp EXCEPT ![t] = None] /\ reg' \in [Thread -> Counter]
      /\ entries' \in [Slot -> Entry] /\ stats' \in Counters
  BY <1>1, <1>2, <1>here, Zenon DEF Alone, TypeOK
<1>4. IInv' /\ mutex = t
  BY ZenonT(60), <1>1, <1>2, <1>3, <1>here, InsideKeeps DEF Alone, Inside, Writing
<1>5. Bindings' = Bindings
  BY <1>1, <1>2, <1>4, <1>here, SameBindings, Zenon DEF Alone, Settled, TypeOK
<1> QED
  BY <1>1, <1>4, <1>5, Zenon DEF Kept, MapStep

\* An entry that matches is counted as a search; it is fresh and will be read.
LEMMA FindHitKeeps ==
    ASSUME IInv, NEW t \in Thread, FindHit(t)
    PROVE  Kept
<1>1. /\ pc[t] = "check" /\ pc' = [pc EXCEPT ![t] = "found"] /\ Matches(t)
      /\ stats' = [stats EXCEPT !.n_search = Increment(reg[t])]
      /\ UNCHANGED <<call, rsp, mutex, entries, reg, served>>
  BY Zenon DEF FindHit, Goto
<1>2. pc[t] \in Inside /\ rsp[t] = None
  BY <1>1, Zenon DEF Inside, IInv, RspInv
<1>here. Alone(t)
  BY <1>2, IsAlone, Zenon
<1>3. /\ rsp' = [rsp EXCEPT ![t] = None] /\ reg' \in [Thread -> Counter]
      /\ entries' \in [Slot -> Entry] /\ stats' \in Counters
  BY <1>1, <1>2, <1>here, Counting, Zenon DEF Alone, TypeOK, Counters
<1>4. IInv' /\ mutex = t
  BY ZenonT(60), <1>1, <1>2, <1>3, <1>here, InsideKeeps DEF Alone, Inside, Writing
<1>5. Bindings' = Bindings
  BY <1>1, <1>2, <1>4, <1>here, SameBindings, Zenon DEF Alone, Settled, TypeOK
<1> QED
  BY <1>1, <1>4, <1>5, Zenon DEF Kept, MapStep

\* Counting a hit leaves the entries alone.
LEMMA FindFoundKeeps ==
    ASSUME IInv, NEW t \in Thread, FindFound(t)
    PROVE  Kept
<1>1. /\ pc[t] = "n_found" /\ pc' = [pc EXCEPT ![t] = "unlock"]
      /\ stats' = [stats EXCEPT !.n_found = Increment(reg[t])]
      /\ UNCHANGED <<call, rsp, mutex, entries, reg, served>>
  BY Zenon DEF FindFound, Goto
<1>2. pc[t] \in Inside /\ rsp[t] # None
  BY <1>1, Zenon DEF Inside, IInv, RspInv
<1>here. Alone(t)
  BY <1>2, IsAlone, Zenon
<1>3. /\ rsp' = [rsp EXCEPT ![t] = rsp[t]] /\ rsp[t] \in Response \union {None}
      /\ reg' \in [Thread -> Counter] /\ entries' \in [Slot -> Entry] /\ stats' \in Counters
  BY <1>1, <1>2, <1>here, Counting, Zenon DEF Alone, TypeOK, Counters
<1>4. IInv' /\ mutex = t
  BY ZenonT(60), <1>1, <1>2, <1>3, <1>here, InsideKeeps DEF Alone, Inside, Writing
<1>5. Bindings' = Bindings
  BY <1>1, <1>2, <1>4, <1>here, SameBindings, Zenon DEF Alone, Settled, TypeOK
<1> QED
  BY <1>1, <1>4, <1>5, Zenon DEF Kept, MapStep

\* Marking the slot used is where an insertion takes effect: the binding of any
\* key that shares the slot is lost.
LEMMA AddIsFullKeeps ==
    ASSUME IInv, NEW t \in Thread, AddIsFull(t)
    PROVE  Kept
<1> DEFINE rec == [is_full |-> TRUE, key |-> call[t].key, value |-> call[t].value,
                   timestamp |-> call[t].now]
<1>1. /\ pc[t] = "is_full" /\ pc' = [pc EXCEPT ![t] = "key"]
      /\ stats' = [stats EXCEPT !.n_insert = Increment(reg[t])]
      /\ entries' = [entries EXCEPT ![SlotFor(t)].is_full = TRUE]
      /\ rsp' = [rsp EXCEPT ![t] = Added]
      /\ UNCHANGED <<call, mutex, reg, served>>
  BY Zenon DEF AddIsFull, Goto
<1>2. pc[t] \in Inside /\ rsp[t] = None
  BY <1>1, Zenon DEF Inside, IInv, RspInv
<1>here. Alone(t)
  BY <1>2, IsAlone, Zenon
<1>3. /\ call[t] \in AddCall /\ call[t] # None /\ call[t].op = "add" /\ call[t].key \in Key
      /\ call[t].value \in Value /\ call[t].now \in Time
  BY <1>1, <1>2, <1>here, Constants, Zenon DEF Alone
<1>4. reg' \in [Thread -> Counter] /\ stats' \in Counters
  BY <1>1, <1>2, <1>here, Counting, Zenon DEF Alone, TypeOK, Counters
<1>5. entries' \in [Slot -> Entry]
  BY ZenonT(60), <1>1, <1>2, <1>here DEF Alone, TypeOK, Entry
<1>6. entries'[SlotFor(t)].is_full /\ \A s \in Slot \ {SlotFor(t)} : entries'[s] = entries[s]
  BY <1>1, <1>2, <1>here, Zenon DEF Alone, TypeOK, Entry
<1>7. IInv' /\ mutex = t
  BY ZenonT(60), <1>1, <1>2, <1>3, <1>4, <1>5, <1>6, Answers, InsideKeeps DEF Inside, Writing
<1>8. /\ Settled(SlotFor(t))' = rec
      /\ \A s \in Slot \ {SlotFor(t)} : Settled(s)' = Settled(s) /\ Settled(s) \in Entry
  <2>1. pc'[t] = "key" /\ mutex' = t /\ t # Free /\ entries \in [Slot -> Entry] /\ SlotFor(t)' = SlotFor(t)
    BY <1>1, <1>2, <1>here, Zenon DEF Alone, TypeOK, SlotFor
  <2> QED
    BY <1>1, <1>6, <1>7, <2>1, Zenon DEF Settled, SlotFor
<1>9. Bindings'[call[t].key] = Bound(call[t].value, call[t].now)
  BY <1>1, <1>3, <1>8 DEF Bindings, BindingOf, SlotFor
<1>10. \A k \in Key \ {call[t].key} : Bindings'[k] \in {Bindings[k], None}
  <2> SUFFICES ASSUME NEW k \in Key, k # call[t].key
               PROVE  BindingOf(k)' \in {BindingOf(k), None}
    BY Zenon DEF Bindings
  <2>1. CASE SlotOf[k] = SlotFor(t)
    BY SMTT(60), <1>1, <1>8, <2>1 DEF BindingOf, SlotFor
  <2>2. CASE SlotOf[k] # SlotFor(t)
    BY <1>8, <2>2, CacheAssumption, Zenon DEF BindingOf
  <2> QED
    BY <2>1, <2>2, Zenon
<1>11. Bindings' \in [Key -> Binding \union {None}]
  <2> SUFFICES ASSUME NEW k \in Key PROVE BindingOf(k)' \in Binding \union {None}
    BY Zenon DEF Bindings
  <2>1. rec \in Entry
    BY <1>3, Zenon DEF Entry
  <2>2. Settled(SlotOf[k])' \in Entry
    BY <1>1, <1>8, <2>1, CacheAssumption, Zenon DEF SlotFor
  <2> QED
    BY <2>2, Zenon DEF BindingOf, Binding, Bound, Entry
<1>12. Map!Add(t)
  BY <1>1, <1>2, <1>3, <1>9, <1>10, <1>11, SameTerms, Zenon DEF Map!Add, Map!Pending, Bindings
<1> QED
  BY <1>7, <1>12, Zenon DEF Kept, MapStep, Map!MapNext

\* A miss is a miss of the map: the entry of the slot is the binding of its key.
LEMMA FindMissKeeps ==
    ASSUME IInv, NEW t \in Thread, FindMiss(t)
    PROVE  Kept
<1>1. /\ pc[t] = "check" /\ pc' = [pc EXCEPT ![t] = "unlock"] /\ ~Matches(t)
      /\ stats' = [stats EXCEPT !.n_search = Increment(reg[t])]
      /\ rsp' = [rsp EXCEPT ![t] = Missed]
      /\ UNCHANGED <<call, mutex, entries, reg, served>>
  BY Zenon DEF FindMiss, Goto
<1>2. pc[t] \in Inside /\ rsp[t] = None
  BY <1>1, Zenon DEF Inside, IInv, RspInv
<1>here. Alone(t)
  BY <1>2, IsAlone, Zenon
<1>3. reg' \in [Thread -> Counter] /\ entries' \in [Slot -> Entry] /\ stats' \in Counters
  BY <1>1, <1>2, <1>here, Counting, Zenon DEF Alone, TypeOK, Counters
<1>4. IInv' /\ mutex = t
  BY ZenonT(60), <1>1, <1>2, <1>3, <1>here, Answers, InsideKeeps DEF Alone, Inside, Writing
<1>5. Bindings' = Bindings
  BY <1>1, <1>2, <1>4, <1>here, SameBindings, Zenon DEF Alone, Settled, TypeOK
<1>6. call[t] # None /\ call[t].op = "find" /\ call[t].key \in Key /\ call[t].now \in Time
  BY <1>1, <1>2, <1>here, Constants, Zenon DEF Alone
<1>7. LET b == Bindings[call[t].key] IN b = None \/ ~Fresh(b, call[t].now)
  <2>1. Settled(SlotFor(t)) = entries[SlotFor(t)]
    BY <1>1, <1>4, Zenon DEF Settled
  <2> QED
    BY ZenonT(60), <1>1, <1>6, <2>1 DEF Bindings, BindingOf, SlotFor, Matches, Bound, Fresh
<1>8. Map!Miss(t)
  BY <1>1, <1>2, <1>5, <1>6, <1>7, SameTerms, Zenon DEF Map!Miss, Map!Pending, Bindings
<1> QED
  BY <1>4, <1>8, Zenon DEF Kept, MapStep, Map!MapNext

\* Reading the value, and emptying the slot when asked to, is where a hit takes
\* effect.
LEMMA FindValueKeeps ==
    ASSUME IInv, NEW t \in Thread, FindValue(t)
    PROVE  Kept
<1> DEFINE e == entries[SlotFor(t)]
<1>1. /\ pc[t] = "found" /\ pc' = [pc EXCEPT ![t] = "n_found"]
      /\ rsp' = [rsp EXCEPT ![t] = Found(e.value)]
      /\ entries' = IF call[t].clean
                    THEN [entries EXCEPT ![SlotFor(t)].is_full = FALSE] ELSE entries
      /\ reg' = [reg EXCEPT ![t] = stats.n_found]
      /\ UNCHANGED <<call, mutex, stats, served>>
  BY Zenon DEF FindValue, Goto
<1>2. pc[t] \in Inside /\ rsp[t] = None /\ Matches(t)
  BY <1>1, Zenon DEF Inside, IInv, RspInv, EntryInv
<1>here. Alone(t)
  BY <1>2, IsAlone, Zenon
<1>3. /\ call[t] \in FindCall /\ call[t] # None /\ call[t].op = "find" /\ call[t].key \in Key
      /\ call[t].clean \in BOOLEAN /\ e \in Entry /\ e.value \in Value
  BY <1>1, <1>2, <1>here, Constants, Zenon DEF Alone, Entry
<1>4. reg' \in [Thread -> Counter] /\ stats' \in Counters
  BY <1>1, <1>2, <1>here, Zenon DEF Alone, TypeOK
<1>5. entries' \in [Slot -> Entry]
  BY ZenonT(60), <1>1, <1>2, <1>3, <1>here DEF Alone, TypeOK, Entry
<1>6. /\ \A s \in Slot \ {SlotFor(t)} : entries'[s] = entries[s]
      /\ IF call[t].clean THEN ~entries'[SlotFor(t)].is_full ELSE entries' = entries
  BY <1>1, <1>2, <1>here, Zenon DEF Alone, TypeOK, Entry
<1>7. IInv' /\ mutex = t
  BY ZenonT(60), <1>1, <1>2, <1>3, <1>4, <1>5, Answers, InsideKeeps DEF Inside, Writing
<1>8. \A s \in Slot : Settled(s) = entries[s] /\ Settled(s)' = entries'[s]
  BY <1>1, <1>2, <1>7, <1>here, Zenon DEF Alone, Settled, TypeOK
<1>9. /\ e.is_full /\ e.key = call[t].key /\ Fresh(e, call[t].now) /\ SlotFor(t) \in Slot
  BY <1>2, <1>here, Zenon DEF Alone, Matches
<1>10. Bindings[call[t].key] = Bound(e.value, e.timestamp)
  BY <1>3, <1>8, <1>9, Zenon DEF Bindings, BindingOf, SlotFor
<1>11. /\ Bindings[call[t].key] # None /\ Bindings[call[t].key].value = e.value
       /\ Fresh(Bindings[call[t].key], call[t].now)
  BY <1>9, <1>10 DEF Bound, None, Fresh
<1>12. Bindings' = IF call[t].clean THEN [Bindings EXCEPT ![call[t].key] = None] ELSE Bindings
  <2>1. CASE ~call[t].clean
    BY SMTT(60), <1>6, <1>8, <2>1, CacheAssumption DEF Bindings, BindingOf
  <2>2. CASE call[t].clean
    <3> SUFFICES ASSUME NEW k \in Key
                 PROVE  BindingOf(k)' = IF k = call[t].key THEN None ELSE BindingOf(k)
      BY ZenonT(60), <2>2 DEF Bindings
    <3>1. CASE SlotOf[k] = SlotFor(t)
      BY <1>6, <1>8, <1>9, <2>2, <3>1, Zenon DEF BindingOf
    <3>2. CASE SlotOf[k] # SlotFor(t)
      BY <1>6, <1>8, <3>2, CacheAssumption DEF BindingOf, SlotFor
    <3> QED
      BY <3>1, <3>2, Zenon
  <2> QED
    BY <1>3, <2>1, <2>2, Zenon
<1>13. Map!Hit(t)
  BY ZenonT(60), <1>1, <1>2, <1>3, <1>11, <1>12, SameTerms DEF Map!Hit, Map!Pending, Bindings
<1> QED
  BY <1>7, <1>13, Zenon DEF Kept, MapStep, Map!MapNext

\* lru_cache_unlock() hands over the answer and leaves a settled entry.
LEMMA UnlockKeeps ==
    ASSUME IInv, NEW t \in Thread, lru_cache_unlock(t)
    PROVE  Kept
<1>1. /\ pc[t] = "unlock" /\ pc' = [pc EXCEPT ![t] = "idle"] /\ mutex' = Free
      /\ call' = [call EXCEPT ![t] = None] /\ rsp' = [rsp EXCEPT ![t] = None]
      /\ UNCHANGED <<entries, stats, reg>>
  BY Zenon DEF lru_cache_unlock, Goto
<1>2. served' \in Counters
  BY ZenonT(60), Counting DEF lru_cache_unlock, IInv, TypeOK, Counters
<1>3. TypeOK /\ Exclusive /\ CallInv /\ RspInv /\ EntryInv
  BY Zenon DEF IInv
<1>4. mutex = t /\ t # Free /\ \A u \in Thread : u # t => pc[u] \notin Inside
  BY <1>1, <1>3, ThreadAssumption, Zenon DEF Exclusive, Inside
<1>5. \A u \in Thread : u # t => pc'[u] = pc[u] /\ call'[u] = call[u] /\ rsp'[u] = rsp[u]
  BY <1>1, <1>3, Zenon DEF TypeOK
<1>6. pc'[t] = "idle" /\ call'[t] = None /\ rsp'[t] = None
  BY <1>1, <1>3, Zenon DEF TypeOK
<1>7. TypeOK'
  BY <1>1, <1>2, <1>3, Zenon DEF TypeOK
<1>8. Exclusive'
  BY <1>1, <1>4, <1>5, <1>6, ThreadAssumption, Zenon DEF Exclusive, Inside
<1>9. CallInv' /\ RspInv'
  BY <1>3, <1>5, <1>6 DEF CallInv, RspInv, Writing
<1>10. EntryInv'
  <2> SUFFICES ASSUME NEW u \in Thread PROVE pc'[u] \notin Writing \union {"found"}
    BY Zenon DEF EntryInv, Writing
  <2> QED
    BY <1>4, <1>5, <1>6, Zenon DEF Inside, Writing
<1>11. Bindings' = Bindings
  BY <1>1, <1>4, SameBindings, Zenon DEF Settled
<1>12. Map!Return(t)
  BY <1>1, <1>3, <1>11, SameTerms, Zenon DEF Map!Return, Bindings, RspInv
<1> QED
  BY <1>7, <1>8, <1>9, <1>10, <1>12, Zenon DEF Kept, IInv, MapStep, Map!MapNext

\* Every step keeps the invariant and is a step of LossyMap or none.
LEMMA StepKeeps == IInv /\ [Next]_vars => Kept
<1>1. ASSUME IInv, NEW t \in Thread, CallBegin(t) \/ lru_cache_lock(t) \/ InsideStep(t)
      PROVE  Kept
  BY <1>1, CallBeginKeeps, LockKeeps, AddCountKeeps, AddIsFullKeeps, AddKeyKeeps, AddValueKeeps,
     AddTimestampKeeps, FindCountKeeps, FindHitKeeps, FindMissKeeps, FindValueKeeps,
     FindFoundKeeps, UnlockKeeps, Zenon DEF InsideStep
<1>2. ASSUME IInv, UNCHANGED vars PROVE Kept
  <2> USE <1>2 DEF vars
  <2>1. IInv'
    BY ZenonT(60) DEF IInv, TypeOK, Exclusive, CallInv, RspInv, EntryInv, SlotFor, Matches
  <2>2. Bindings' = Bindings
    BY SameBindings, Zenon DEF Settled, SlotFor
  <2> QED
    BY ZenonT(60), <2>1, <2>2 DEF Kept, MapStep
<1> QED
  BY <1>1, <1>2, Zenon DEF Next

-----------------------------------------------------------------------------

\* Every reachable state of ndpi_lru_add_to_cache() and ndpi_lru_find_cache(),
\* however their threads interleave, satisfies the inductive invariant.
THEOREM Invariant == Spec => []IInv
<1>1. IInv /\ [Next]_vars => IInv'
  BY StepKeeps, Zenon DEF Kept
<1> QED
  BY InitIInv, <1>1, PTL DEF Spec

\* The cache of ndpi_cache.c keeps its types: the counters stay below 2^64 and
\* the entries hold keys, values and times that some call brought.
THEOREM TypeCorrect == Spec => []TypeOK
<1>1. IInv => TypeOK
  BY Zenon DEF IInv
<1> QED
  BY Invariant, <1>1, PTL

\* lru_cache_lock() and lru_cache_unlock() make the stores of
\* ndpi_lru_add_to_cache() and ndpi_lru_find_cache() atomic: for any number of
\* threads the cache behaves like the lossy map its callers take it for.
THEOREM Refinement == Spec => ImplementsMap
<1>1. Init => Map!MapInit
  <2> SUFFICES ASSUME Init PROVE Map!MapInit
    BY Zenon
  <2>1. \A s \in Slot : ~Settled(s).is_full
    BY Zenon DEF Init, Settled, NoEntry
  <2> QED
    BY <2>1, SameTerms, CacheAssumption, Zenon DEF Map!MapInit, Init, BindingOf
<1>2. MapStep => [Map!MapNext]_Map!mapVars
  BY Zenon DEF MapStep, Map!mapVars, Bindings
<1>3. IInv /\ [Next]_vars => [Map!MapNext]_Map!mapVars
  BY <1>2, StepKeeps, Zenon DEF Kept
<1> QED
  BY Invariant, <1>1, <1>3, PTL DEF Spec, ImplementsMap, Map!MapSpec

-----------------------------------------------------------------------------
(* The statistics.                                                          *)

Searched == [served EXCEPT !.n_search = Increment(@)]

\* The counters once a call that answers r has returned.
Counted(r) ==
    [served EXCEPT !.n_insert = IF r = Added THEN Increment(@) ELSE @,
                   !.n_search = IF r # Added THEN Increment(@) ELSE @,
                   !.n_found = IF r \notin {Added, Missed} THEN Increment(@) ELSE @]

\* How far the call inside the cache has counted itself.
StatInv ==
    /\ mutex = Free => stats = served
    /\ \A t \in Thread :
        /\ pc[t] \in {"add", "is_full", "find", "check"} => stats = served
        /\ pc[t] = "is_full" => reg[t] = stats.n_insert
        /\ pc[t] = "check" => reg[t] = stats.n_search
        /\ pc[t] = "n_found" => reg[t] = stats.n_found
        /\ pc[t] \in Writing => rsp[t] = Added
        /\ pc[t] = "n_found" => rsp[t] \notin {Added, Missed}
        /\ pc[t] \in {"found", "n_found"} => stats = Searched
        /\ pc[t] \in Writing \union {"unlock"} => stats = Counted(rsp[t])

\* Only the thread inside the cache has anything to say about the counters.
LEMMA StatStep ==
    ASSUME IInv, StatInv, NEW t \in Thread, InsideStep(t)
    PROVE  StatInv'
<1>1. /\ pc[t] \in Inside /\ mutex = t /\ t # Free
      /\ \A u \in Thread : u # t => pc[u] \notin Inside
  <2>1. pc[t] \in Inside
    BY Zenon DEF InsideStep, Inside, Goto, AddCount, AddIsFull, AddKey, AddValue, AddTimestamp,
           FindCount, FindHit, FindMiss, FindValue, FindFound, lru_cache_unlock
  <2> QED
    BY <2>1, ThreadAssumption, Zenon DEF IInv, Exclusive
<1>2. served \in Counters /\ TypeOK
  BY Zenon DEF IInv, TypeOK
<1>3. CASE lru_cache_unlock(t)
  <2>1. pc[t] = "unlock" /\ stats = Counted(rsp[t])
    BY <1>3, Zenon DEF lru_cache_unlock, Goto, StatInv
  <2>2. stats' = served' /\ mutex' = Free
    BY <1>3, <2>1, Zenon DEF lru_cache_unlock, Counted
  <2>3. \A u \in Thread : pc'[u] \notin Inside
    BY <1>1, <1>2, <1>3, Zenon DEF lru_cache_unlock, Goto, TypeOK, Inside
  <2> QED
    BY <2>2, <2>3, Zenon DEF StatInv, Inside, Writing
<1>4. CASE ~lru_cache_unlock(t)
  <2>1. /\ UNCHANGED <<mutex, served>>
        /\ \A u \in Thread : u # t => pc'[u] \notin Inside
    BY <1>1, <1>2, <1>4, Zenon DEF InsideStep, TypeOK, Goto, AddCount, AddIsFull, AddKey, AddValue,
       AddTimestamp, FindCount, FindHit, FindMiss, FindValue, FindFound
  <2> SUFFICES /\ pc'[t] \in {"add", "is_full", "find", "check"} => stats' = served
               /\ pc'[t] = "is_full" => reg'[t] = stats'.n_insert
               /\ pc'[t] = "check" => reg'[t] = stats'.n_search
               /\ pc'[t] = "n_found" => reg'[t] = stats'.n_found
               /\ pc'[t] \in Writing => rsp'[t] = Added
               /\ pc'[t] = "n_found" => rsp'[t] \notin {Added, Missed}
               /\ pc'[t] \in {"found", "n_found"} => stats' = Searched
               /\ pc'[t] \in Writing \union {"unlock"} => stats' = Counted(rsp'[t])
    BY ZenonT(60), <1>1, <2>1 DEF StatInv, Inside, Writing, Searched, Counted
  <2>2. CASE AddCount(t)
    BY ZenonT(60), <1>2, <2>2 DEF AddCount, Goto, TypeOK, StatInv, Writing
  <2>3. CASE AddIsFull(t)
    <3>1. /\ stats' = [served EXCEPT !.n_insert = Increment(served.n_insert)]
          /\ pc'[t] = "key" /\ rsp'[t] = Added
      BY <1>2, <2>3, Zenon DEF AddIsFull, Goto, TypeOK, StatInv
    <3>2. stats' = Counted(Added)
      BY ZenonT(60), <1>2, <3>1 DEF Counted, Counters, Added, Missed
    <3> QED
      BY <3>1, <3>2, Zenon DEF Writing
  <2>4. CASE AddKey(t) \/ AddValue(t) \/ AddTimestamp(t)
    BY <1>2, <2>4, Zenon DEF AddKey, AddValue, AddTimestamp, Goto, TypeOK, StatInv, Writing
  <2>5. CASE FindCount(t)
    BY <1>2, <2>5, Zenon DEF FindCount, Goto, TypeOK, StatInv, Writing
  <2>6. CASE FindHit(t)
    BY <1>2, <2>6, Zenon DEF FindHit, Goto, TypeOK, StatInv, Writing, Searched
  <2>7. CASE FindMiss(t)
    <3>1. /\ stats' = [served EXCEPT !.n_search = Increment(served.n_search)]
          /\ pc'[t] = "unlock" /\ rsp'[t] = Missed
      BY <1>2, <2>7, Zenon DEF FindMiss, Goto, TypeOK, StatInv
    <3>2. stats' = Counted(Missed)
      BY ZenonT(60), <1>2, <3>1 DEF Counted, Counters, Added, Missed
    <3> QED
      BY <3>1, <3>2, Zenon DEF Writing
  <2>8. CASE FindValue(t)
    BY <1>2, <2>8, Zenon DEF FindValue, Goto, TypeOK, StatInv, Writing, Found, Added, Missed
  <2>9. CASE FindFound(t)
    <3>1. /\ stats = Searched /\ reg[t] = stats.n_found /\ rsp[t] \notin {Added, Missed}
          /\ stats' = [stats EXCEPT !.n_found = Increment(stats.n_found)]
          /\ pc'[t] = "unlock" /\ rsp'[t] = rsp[t]
      BY <1>2, <2>9, Zenon DEF FindFound, Goto, TypeOK, StatInv
    <3>2. stats' = Counted(rsp[t])
      BY ZenonT(60), <1>2, <3>1 DEF Searched, Counted, Counters
    <3> QED
      BY <3>1, <3>2, Zenon DEF Writing
  <2> QED
    BY ZenonT(60), <1>4, <2>2, <2>3, <2>4, <2>5, <2>6, <2>7, <2>8, <2>9 DEF InsideStep
<1> QED
  BY <1>3, <1>4, Zenon

\* No update of the statistics is lost: whatever the number of threads,
\* whenever nobody is between lru_cache_lock() and lru_cache_unlock() the
\* counters of ndpi_lru_get_stats() are the numbers of calls served.
THEOREM StatsCorrect == Spec => []StatsAgree
<1>1. Init => StatInv
  BY Zenon DEF Init, StatInv, Writing
<1>2. ASSUME IInv, StatInv, [Next]_vars PROVE StatInv'
  <2>1. CASE UNCHANGED vars
    BY ZenonT(60), <1>2, <2>1 DEF vars, StatInv, Searched, Counted
  <2>2. ASSUME NEW t \in Thread, CallBegin(t) PROVE StatInv'
    BY ZenonT(60), <1>2, <2>2 DEF CallBegin, Goto, StatInv, Searched, Counted, Writing, IInv, TypeOK
  <2>3. ASSUME NEW t \in Thread, lru_cache_lock(t) PROVE StatInv'
    <3>1. mutex = Free /\ call[t].op \in {"add", "find"} /\ \A u \in Thread : pc[u] \notin Inside
      BY SMTT(60), <1>2, <2>3, LocalAssumption, CacheAssumption, ThreadAssumption, Constants
         DEF lru_cache_lock, Goto, IInv, TypeOK, Exclusive, CallInv, Inside
    <3> QED
      BY <1>2, <2>3, <3>1, ThreadAssumption, Zenon
         DEF lru_cache_lock, Goto, StatInv, Writing, IInv, TypeOK, Inside
  <2> QED
    BY <1>2, <2>1, <2>2, <2>3, StatStep, Zenon DEF Next
<1>3. StatInv => StatsAgree
  BY Zenon DEF StatInv, StatsAgree
<1> QED
  BY Invariant, <1>1, <1>2, <1>3, PTL DEF Spec

-----------------------------------------------------------------------------
(* The hostname cache.                                                      *)

\* What the filters hold, for the names that are hashed whole: the young generation the
\* pairs resolved since the last swap, the old one those of the generation before.
GenerationsInv ==
    /\ filter = NoFilter \/ << >> \notin filter
    /\ shadow = NoFilter \/ << >> \notin shadow
    /\ age \in [Host \X Ip -> 0..Old]
    /\ \A h \in Host \ WithPort, ip \in Ip :
         /\ (filter # NoFilter /\ <<ip, h>> \in filter) <=> age[<<h, ip>>] = 0
         /\ age[<<h, ip>>] = 1 => shadow # NoFilter /\ <<ip, h>> \in shadow
         /\ shadow # NoFilter /\ <<ip, h>> \in shadow => age[<<h, ip>>] < Old
    /\ last # NoSearch =>
         /\ last.host \in Host /\ last.ip \in Ip
         /\ filter # NoFilter /\ last.host \notin WithPort =>
              (last.found <=> age[<<last.host, last.ip>>] < Old)

\* A name without a port is hashed whole, and no filter holds the empty pair.
LEMMA HashFacts ==
    /\ \A ip \in Ip, h \in Host : ndpi_cache_hash_hostname_ip(ip, h) # << >>
    /\ \A ip, jp \in Ip, h, n \in Host : h \notin WithPort =>
         (ndpi_cache_hash_hostname_ip(jp, n) = <<ip, h>> <=> n = h /\ jp = ip)
    /\ \A ip \in Ip, h \in Host : h \notin WithPort =>
         ndpi_cache_hash_hostname_ip(ip, h) = <<ip, h>>
    /\ {} # NoFilter
    /\ << >> \in NoFilter
BY Zenon DEF ndpi_cache_hash_hostname_ip, NoFilter

\* A search finds the pairs of both generations and changes neither.
LEMMA SearchKeeps ==
    ASSUME GenerationsInv, NEW ip \in Ip, NEW h \in Host, Search(ip, h)
    PROVE  GenerationsInv'
<1>1. UNCHANGED <<enabled, filter, shadow, age>>
      /\ last' = [host |-> h, ip |-> ip, found |-> ndpi_cache_find_hostname_ip(ip, h)]
  BY Zenon DEF Search
<1>2. last'.host = h /\ last'.ip = ip /\ last'.found = ndpi_cache_find_hostname_ip(ip, h)
  BY <1>1, Zenon
<1>3. ASSUME filter # NoFilter, h \notin WithPort
      PROVE  ndpi_cache_find_hostname_ip(ip, h) <=> age[<<h, ip>>] < Old
  <2>1. ndpi_cache_hash_hostname_ip(ip, h) = <<ip, h>>
    BY <1>3, HashFacts, Zenon
  <2>2. age[<<h, ip>>] \in 0..2
    BY Zenon DEF GenerationsInv, Old
  <2>3. /\ <<ip, h>> \in filter <=> age[<<h, ip>>] = 0
        /\ age[<<h, ip>>] = 1 => shadow # NoFilter /\ <<ip, h>> \in shadow
        /\ shadow # NoFilter /\ <<ip, h>> \in shadow => age[<<h, ip>>] < Old
    BY <1>3, Zenon DEF GenerationsInv
  <2> QED
    BY <1>3, <2>1, <2>2, <2>3
    DEF ndpi_cache_find_hostname_ip, ndpi_filter_contains, Old
<1> QED
  BY <1>1, <1>2, <1>3, Zenon DEF GenerationsInv

\* A pair that is resolved joins the young generation.
LEMMA InsertKeeps ==
    ASSUME GenerationsInv, NEW ip \in Ip, NEW h \in Host, NEW alloc \in BOOLEAN,
           ndpi_cache_hostname_ip(ip, h, alloc)
    PROVE  GenerationsInv'
<1> DEFINE hash == ndpi_cache_hash_hostname_ip(ip, h)
           old == IF filter = NoFilter THEN {} ELSE filter
<1>1. /\ filter' = old \union {hash} /\ shadow' = shadow /\ last' = NoSearch
      /\ age' = [age EXCEPT ![<<h, ip>>] = 0]
  BY Zenon DEF ndpi_cache_hostname_ip
<1>2. << >> \notin filter' /\ filter' # NoFilter
  BY <1>1, HashFacts DEF GenerationsInv
<1>3. age' \in [Host \X Ip -> 0..Old]
  BY <1>1 DEF GenerationsInv, Old
<1>4. ASSUME NEW n \in Host \ WithPort, NEW jp \in Ip
      PROVE  /\ (filter' # NoFilter /\ <<jp, n>> \in filter') <=> age'[<<n, jp>>] = 0
             /\ age'[<<n, jp>>] = 1 => shadow' # NoFilter /\ <<jp, n>> \in shadow'
             /\ shadow' # NoFilter /\ <<jp, n>> \in shadow' => age'[<<n, jp>>] < Old
  <2>1. hash = <<jp, n>> <=> n = h /\ jp = ip
    BY HashFacts
  <2>2. age'[<<n, jp>>] = IF n = h /\ jp = ip THEN 0 ELSE age[<<n, jp>>]
    BY <1>1, Zenon DEF GenerationsInv
  <2>3. <<jp, n>> \in old <=> age[<<n, jp>>] = 0
    BY Zenon DEF GenerationsInv
  <2>4. <<jp, n>> \in filter' <=> age'[<<n, jp>>] = 0
    BY <1>1, <2>1, <2>2, <2>3, Zenon
  <2>5. /\ age[<<n, jp>>] = 1 => shadow # NoFilter /\ <<jp, n>> \in shadow
        /\ shadow # NoFilter /\ <<jp, n>> \in shadow => age[<<n, jp>>] < Old
    BY Zenon DEF GenerationsInv
  <2> QED
    BY <1>1, <1>2, <2>2, <2>4, <2>5 DEF Old
<1> QED
  BY <1>1, <1>2, <1>3, <1>4, Zenon DEF GenerationsInv

\* A swap makes the young generation the old one, and forgets the old one.
LEMMA SwapKeeps ==
    ASSUME GenerationsInv, NEW alloc \in BOOLEAN, ndpi_cache_hostname_ip_swap(alloc)
    PROVE  GenerationsInv'
<1>1. /\ shadow' = filter /\ filter' = (IF alloc THEN {} ELSE NoFilter) /\ last' = NoSearch
      /\ age' = [p \in Host \X Ip |-> IF age[p] < Old THEN age[p] + 1 ELSE Old]
  BY Zenon DEF ndpi_cache_hostname_ip_swap, Generations
<1>2. age' \in [Host \X Ip -> 0..Old]
  BY <1>1 DEF GenerationsInv, Old
<1>3. ASSUME NEW n \in Host \ WithPort, NEW jp \in Ip
      PROVE  /\ ~(filter' # NoFilter /\ <<jp, n>> \in filter')
             /\ age'[<<n, jp>>] # 0
             /\ age'[<<n, jp>>] = 1 => shadow' # NoFilter /\ <<jp, n>> \in shadow'
             /\ shadow' # NoFilter /\ <<jp, n>> \in shadow' => age'[<<n, jp>>] < Old
  <2>1. age[<<n, jp>>] \in 0..2 /\ <<n, jp>> \in Host \X Ip
    BY Zenon DEF GenerationsInv, Old
  <2>2. age'[<<n, jp>>] = IF age[<<n, jp>>] < 2 THEN age[<<n, jp>>] + 1 ELSE 2
    BY <1>1, <2>1, Zenon DEF Old
  <2>3. (filter # NoFilter /\ <<jp, n>> \in filter) <=> age[<<n, jp>>] = 0
    BY Zenon DEF GenerationsInv
  <2> QED
    BY <1>1, <2>1, <2>2, <2>3, HashFacts DEF Old
<1> QED
  BY Zenon, <1>1, <1>2, <1>3, HashFacts DEF GenerationsInv

\* Every step keeps the two generations.
LEMMA GenerationsStep ==
    ASSUME GenerationsInv, [HostnameNext]_hostnameVars
    PROVE  GenerationsInv'
<1>1. CASE \E ip \in Ip, h \in Host, alloc \in BOOLEAN :
             DnsAnswer(ip, h, alloc) \/ ndpi_cache_hostname_ip(ip, h, alloc)
  BY <1>1, InsertKeeps, HostAssumption, Zenon DEF DnsAnswer
<1>2. CASE \E ip \in Ip, h \in Host : TlsClientHello(ip, h) \/ HttpRequest(ip, h) \/ Search(ip, h)
  BY <1>2, SearchKeeps, HostAssumption, Zenon DEF TlsClientHello, HttpRequest
<1>3. CASE \E alloc \in BOOLEAN : ndpi_cache_hostname_ip_swap(alloc)
  BY <1>3, SwapKeeps, Zenon
<1>4. CASE ndpi_cache_enable
  BY <1>4, Zenon DEF ndpi_cache_enable, GenerationsInv
<1>5. CASE UNCHANGED hostnameVars
  BY <1>5, Zenon DEF hostnameVars, GenerationsInv
<1> QED
  BY <1>1, <1>2, <1>3, <1>4, <1>5, Zenon DEF HostnameNext

\* A search for a name without a port finds exactly the pairs that were resolved fewer than
\* two swaps ago, in every behaviour and for any set of names and addresses
\* (ndpi_cache_find_hostname_ip, ndpi_cache_hostname_ip_swap).
THEOREM SearchSeesTwoGenerations ==
    HostnameSpec => [](last.host \notin WithPort => TwoGenerations)
<1>1. HostnameInit => GenerationsInv
  BY DEF HostnameInit, GenerationsInv, NoSearch, Old
<1>2. GenerationsInv /\ [HostnameNext]_hostnameVars => GenerationsInv'
  BY GenerationsStep, Zenon
<1>3. GenerationsInv => (last.host \notin WithPort => TwoGenerations)
  BY Zenon DEF GenerationsInv, TwoGenerations
<1> QED
  BY <1>1, <1>2, <1>3, PTL DEF HostnameSpec
=============================================================================
