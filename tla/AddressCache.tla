----------------------------- MODULE AddressCache -----------------------------
(***************************************************************************)
(* The cache of resolved addresses of a detection module                   *)
(* (struct ndpi_address_cache): a hash table whose buckets are linked      *)
(* lists.  DNS answers fill it, applications search, flush, dump and       *)
(* restore it, and it is lost with the module.                             *)
(*                                                                         *)
(* A hostname is a nonempty word, as a DNS answer carries, which the "%s"  *)
(* of the dump and the "%255s" of the restore leave as it is; an address   *)
(* is written as 32 hexadecimal digits and read back as such.              *)
(***************************************************************************)
EXTENDS Lists

CONSTANTS Addr,             \* ndpi_ip_addr_t
          Name,             \* host names
          Hash,             \* ndpi_quick_hash() of an address
          MaxEpoch,         \* bounds the time given to a call
          AddressTtl,              \* times to live of DNS answers
          U32,              \* 2^32 in the code
          max_num_entries,  \* cfg.address_cache_size, not 0
          MaxCount          \* bounds num_entries, which updates increase

ASSUME AddressCacheAssumption ==
    /\ MaxEpoch \in Nat /\ U32 \in Nat /\ MaxEpoch < U32 /\ AddressTtl \subseteq 0..(U32 - 1)
    /\ max_num_entries \in Nat \ {0} /\ MaxCount \in Nat
    /\ Hash \in [Addr -> Nat]

NDPI_NUM_DEFAULT_ROOT_NODES == 512

VARIABLES cache, file

addressVars == <<cache, file>>

\* The cache of a module that has none.
NoCache == [root |-> "none"]

\* A time; 0 stands for "no time given".
Epoch == 0..MaxEpoch

Item == [addr : Addr, hostname : Name, expire_epoch : 0..(U32 - 1)]

num_root_nodes ==
    LET n == max_num_entries \div 16
        m == IF n < NDPI_NUM_DEFAULT_ROOT_NODES THEN n ELSE NDPI_NUM_DEFAULT_ROOT_NODES
    IN  IF m > 1 THEN m ELSE 1

hash_id(a) == Hash[a] % num_root_nodes

ndpi_init_address_cache ==
    [root |-> [h \in 0..(num_root_nodes - 1) |-> << >>], num_entries |-> 0]

\* The items of the linked lists: a bucket and a place in it.
Places(c) == UNION {{h} \X DOMAIN c.root[h] : h \in DOMAIN c.root}

ItemAt(c, x) == c.root[x[1]][x[2]]

AddressInit == cache = NoCache /\ file = << >>

-----------------------------------------------------------------------------
(* The operations, as functions from one struct to the next.                *)

Expired(item, now) == now # 0 /\ item.expire_epoch < now

\* Wrong on purpose: the search looks at the head of the list only.
Hits_Head(list, a, now) == {j \in DOMAIN list : j = 1 /\ list[j].addr = a /\ ~Expired(list[j], now)}

\* Where a search stops: at the first item for a that has not expired.
Hits(list, a, now) == {j \in DOMAIN list : list[j].addr = a /\ ~Expired(list[j], now)}

\* A search removes the expired items it passes on its way.
AfterSearch(c, a, now) ==
    LET list == c.root[hash_id(a)]
        hits == Hits(list, a, now)
        left == EntriesAt(list, {j \in DOMAIN list :
                                    ~Expired(list[j], now) \/ (hits # {} /\ j >= Least(hits))})
    IN  [root |-> [c.root EXCEPT ![hash_id(a)] = left],
         num_entries |-> c.num_entries - (Len(list) - Len(left))]

\* What ndpi_address_cache_flush_expired() leaves.
Flushed(c, now) ==
    LET num_purged == Cardinality({x \in Places(c) : ItemAt(c, x).expire_epoch > now})
    IN  [root |-> [h \in DOMAIN c.root |->
                      EntriesAt(c.root[h], {j \in DOMAIN c.root[h] :
                                                ~(c.root[h][j].expire_epoch > now)})],
         num_entries |-> c.num_entries - num_purged]

\* Wrong on purpose: the new time to live replaces the old one.
Renewed_Replaced(item, hostname, until, mem) ==
    [item EXCEPT !.expire_epoch = until, !.hostname = IF mem THEN hostname ELSE @]

\* The item of an address that is inserted again.
Renewed(item, hostname, until, mem) ==
    [item EXCEPT !.expire_epoch = IF until > @ THEN until ELSE @,
                 !.hostname = IF mem THEN hostname ELSE @]

epoch_valid_until(now, ttl) == (now + ttl) % U32

\* ndpi_address_cache_insert(); mem says that its allocation succeeds.
Inserted(c, a, hostname, now, ttl, mem) ==
    LET until == epoch_valid_until(now, ttl)
        f == AfterSearch(c, a, now)
        h == hash_id(a)
        hits == Hits(f.root[h], a, now)
        g == IF f.num_entries = max_num_entries THEN Flushed(f, now) ELSE f
    IN  IF hits # {}
        THEN LET j == Least(hits)
                 list == [f.root[h] EXCEPT ![j] = Renewed(@, hostname, until, mem)]
             IN  [root |-> [f.root EXCEPT ![h] = list], num_entries |-> f.num_entries + 1]
        ELSE IF g.num_entries = max_num_entries \/ ~mem THEN g  \* no room, no memory
        ELSE LET item == [addr |-> a, hostname |-> hostname, expire_epoch |-> until]
             IN  [root |-> [g.root EXCEPT ![h] = <<item>> \o @], num_entries |-> g.num_entries + 1]

\* The time of an insertion: time(NoCache) when none is given.
TimeOf(epoch, clock) == IF epoch = 0 THEN clock ELSE epoch

\* Wrong on purpose: the time left is taken for the time to live of a new item.
Reloaded_Epoch(c, item, epoch, clock, mem) ==
    IF item.expire_epoch >= epoch
    THEN Inserted(c, item.addr, item.hostname, TimeOf(epoch, clock), item.expire_epoch, mem)
    ELSE c

\* One line of ndpi_address_cache_restore().
Reloaded(c, item, epoch, clock, mem) ==
    IF item.expire_epoch >= epoch
    THEN Inserted(c, item.addr, item.hostname, TimeOf(epoch, clock), item.expire_epoch - epoch, mem)
    ELSE c

\* ndpi_address_cache_restore(); mem tells the lines whose allocation succeeds.
Restored(c, epoch, clock, mem) ==
    LET after[n \in 0..Len(file)] ==
            IF n = 0 THEN c ELSE Reloaded(after[n - 1], file[n], epoch, clock, mem[n])
    IN  after[Len(file)]

\* The lines of ndpi_address_cache_dump(), list after list.
Dumped(c, epoch) ==
    LET kept(list) == EntriesAt(list, {j \in DOMAIN list : ~Expired(list[j], epoch)})
        lines[n \in 0..num_root_nodes] ==
            IF n = 0 THEN << >> ELSE lines[n - 1] \o kept(c.root[n - 1])
    IN  lines[num_root_nodes]

-----------------------------------------------------------------------------
(* The calls of a detection module.                                         *)

\* The cache is made when it is first needed; that may fail.
Opened == IF cache = NoCache THEN ndpi_init_address_cache ELSE cache

\* now is the time of the packet, or that of the clock when the packet has none.
ndpi_cache_address(a, hostname, now, ttl, mem) ==
    /\ Opened.num_entries < MaxCount
    /\ cache' = Inserted(Opened, a, hostname, now, ttl, mem)
    /\ UNCHANGED file

ndpi_address_cache_find(a, epoch) ==
    /\ cache # NoCache
    /\ cache' = AfterSearch(cache, a, epoch)
    /\ UNCHANGED file

ndpi_cache_address_flush_expired(epoch) ==
    /\ cache # NoCache
    /\ cache' = Flushed(cache, epoch)
    /\ UNCHANGED file

ndpi_cache_address_dump(epoch) ==
    /\ cache # NoCache
    /\ file' = Dumped(cache, epoch)
    /\ UNCHANGED cache

ndpi_cache_address_restore(epoch, clock, mem) ==
    /\ Opened.num_entries + Len(file) <= MaxCount
    /\ cache' = Restored(Opened, epoch, clock, mem)
    /\ UNCHANGED file

\* The module exits, or the process dies; the file remains.
ndpi_term_address_cache ==
    /\ cache # NoCache
    /\ cache' = NoCache
    /\ UNCHANGED file

AddressNext ==
    \/ \E a \in Addr, hostname \in Name, now \in Epoch \ {0}, ttl \in AddressTtl, mem \in BOOLEAN :
           ndpi_cache_address(a, hostname, now, ttl, mem)
    \/ \E a \in Addr, epoch \in Epoch : ndpi_address_cache_find(a, epoch)
    \/ \E epoch \in Epoch : ndpi_cache_address_flush_expired(epoch)
    \/ \E epoch \in Epoch : ndpi_cache_address_dump(epoch)
    \/ \E epoch \in Epoch, clock \in Epoch \ {0}, mem \in [DOMAIN file -> BOOLEAN] :
           ndpi_cache_address_restore(epoch, clock, mem)
    \/ ndpi_term_address_cache

AddressSpec == AddressInit /\ [][AddressNext]_addressVars

-----------------------------------------------------------------------------
(* Properties.                                                              *)

Items == IF cache = NoCache THEN {} ELSE {ItemAt(cache, x) : x \in Places(cache)}

Lines == {file[n] : n \in DOMAIN file}

AddressTypeOK ==
    /\ cache # NoCache =>
        /\ DOMAIN cache.root = 0..(num_root_nodes - 1)
        /\ Items \subseteq Item
        /\ cache.num_entries \in Int
    /\ Lines \subseteq Item

\* An address has at most one item, in the bucket where a search looks for it,
\* whatever searches, flushes and restores removed and inserted before; and
\* num_entries counts every item, so that its unsigned decrements never wrap.
OneItemPerAddress ==
    cache # NoCache =>
        /\ \A x \in Places(cache) : hash_id(ItemAt(cache, x).addr) = x[1]
        /\ \A x, y \in Places(cache) : ItemAt(cache, x).addr = ItemAt(cache, y).addr => x = y
        /\ cache.num_entries >= Cardinality(Places(cache))

\* A DNS answer shortens the life of an item only after its end.  (A restore
\* may shorten it: it writes the times of the dump.)
LifeNotShortened ==
    [][\A i \in Items, j \in Items' :
        i.addr = j.addr /\ j.expire_epoch < i.expire_epoch =>
            \/ \E now \in (i.expire_epoch + 1)..MaxEpoch, hostname \in Name, ttl \in AddressTtl, mem \in BOOLEAN :
                   ndpi_cache_address(i.addr, hostname, now, ttl, mem)
            \/ \E epoch \in Epoch, clock \in Epoch \ {0}, mem \in [DOMAIN file -> BOOLEAN] :
                   ndpi_cache_address_restore(epoch, clock, mem)]_addressVars

\* A dump restored into a new cache gives back every item that has not expired,
\* with its name and its time, when there is room and memory for them.
RestoreIsFaithful ==
    [][\A epoch \in Epoch \ {0} :
        /\ cache = NoCache /\ Len(file) <= max_num_entries
        /\ ndpi_cache_address_restore(epoch, epoch, [j \in DOMAIN file |-> TRUE])
        => Items' = {i \in Lines : i.expire_epoch >= epoch}]_addressVars

\* reader_util.c before its call of ndpi_cache_address_flush_expired(): "At the
\* first packet flush expired cached addresses".  What is flushed had expired.
FlushOnlyExpired ==
    [][\A epoch \in Epoch \ {0} :
        ndpi_cache_address_flush_expired(epoch) =>
            \A i \in Items \ Items' : i.expire_epoch < epoch]_addressVars

\* ndpi_address_cache_insert(): "We have room to insert the new element".  The
\* cache never holds more than max_num_entries items.
RoomForNew == cache # NoCache => Cardinality(Places(cache)) <= max_num_entries
=============================================================================
