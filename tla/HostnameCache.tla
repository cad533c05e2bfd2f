----------------------------- MODULE HostnameCache -----------------------------
(***************************************************************************)
(* The cache behind the risk NDPI_UNRESOLVED_HOSTNAME: which host names    *)
(* were resolved to which address.  DNS answers fill it, TLS, QUIC and     *)
(* HTTP flows are searched in it, and the application ages it by           *)
(* ndpi_cache_hostname_ip_swap().  It holds two generations of 32-bit      *)
(* hashes (dns_hostname.cache and dns_hostname.cache_shadow); the hash is  *)
(* taken as free of collisions, so a filter is the set of what was hashed. *)
(***************************************************************************)
EXTENDS Integers, FiniteSets

CONSTANTS Host,      \* host names as packets and applications write them
          Ip,        \* addresses
          Norm,      \* what ndpi_hostname_sni_set() keeps of a name
          NoPort,    \* a name without its ":port"
          WithPort   \* the names that contain a ":"

ASSUME HostAssumption ==
    /\ Norm \in [Host -> Host] /\ NoPort \in [Host -> Host]
    /\ WithPort \subseteq Host
    /\ \A h \in Host : NoPort[h] \notin WithPort

VARIABLES enabled,  \* cfg.hostname_dns_check_enabled
          filter,   \* dns_hostname.cache
          shadow,   \* dns_hostname.cache_shadow
          age,      \* swaps since a pair was last resolved; Old if never, or long ago
          last      \* the last search and its result

hostnameVars == <<enabled, filter, shadow, age, last>>

\* No filter, unlike any set of hashes.
NoFilter == {<< >>}

\* A filter holds two generations.
Old == 2

NoSearch == [host |-> "none", found |-> FALSE]

HostnameInit ==
    /\ enabled \in BOOLEAN
    /\ filter = NoFilter /\ shadow = NoFilter
    /\ age = [p \in Host \X Ip |-> Old]
    /\ last = NoSearch

-----------------------------------------------------------------------------

\* What is hashed.  At a ":" the length of the name becomes that of the empty
\* string after it, so that the address overwrites the name.
ndpi_cache_hash_hostname_ip(ip, h) == IF h \in WithPort THEN <<ip>> ELSE <<ip, h>>

ndpi_filter_contains(f, hashval) == f # NoFilter /\ hashval \in f

\* Wrong on purpose: the former generation is not searched.
ndpi_cache_find_hostname_ip_Young(ip, h) == ndpi_filter_contains(filter, ndpi_cache_hash_hostname_ip(ip, h))

ndpi_cache_find_hostname_ip(ip, h) ==
    LET hashval == ndpi_cache_hash_hostname_ip(ip, h)
    IN  filter # NoFilter /\ (ndpi_filter_contains(filter, hashval) \/ ndpi_filter_contains(shadow, hashval))

Search(ip, h) ==
    /\ last' = [host |-> h, ip |-> ip, found |-> ndpi_cache_find_hostname_ip(ip, h)]
    /\ UNCHANGED <<enabled, filter, shadow, age>>

\* ndpi_cache_hostname_ip(); alloc says that a missing filter can be made.
ndpi_cache_hostname_ip(ip, h, alloc) ==
    /\ filter # NoFilter \/ alloc
    /\ filter' = (IF filter = NoFilter THEN {} ELSE filter) \union {ndpi_cache_hash_hostname_ip(ip, h)}
    /\ age' = [age EXCEPT ![<<h, ip>>] = 0]
    /\ last' = NoSearch
    /\ UNCHANGED <<enabled, shadow>>

\* An A or AAAA record of a DNS answer.
DnsAnswer(ip, h, alloc) == enabled /\ ndpi_cache_hostname_ip(ip, Norm[h], alloc)

\* A ClientHello with a server name, over TLS or QUIC.
TlsClientHello(ip, h) == enabled /\ Search(ip, Norm[h])

\* An HTTP request with a Host header.
HttpRequest(ip, h) == enabled /\ Search(ip, NoPort[h])

Generations(alloc) == shadow' = filter /\ filter' = IF alloc THEN {} ELSE NoFilter

ndpi_cache_hostname_ip_swap(alloc) ==
    /\ enabled
    /\ Generations(alloc)
    /\ age' = [p \in Host \X Ip |-> IF age[p] < Old THEN age[p] + 1 ELSE Old]
    /\ last' = NoSearch
    /\ UNCHANGED enabled

ndpi_cache_enable ==
    /\ enabled' = TRUE
    /\ last' = NoSearch
    /\ UNCHANGED <<filter, shadow, age>>

HostnameNext ==
    \/ \E ip \in Ip, h \in Host :
        \/ \E alloc \in BOOLEAN : DnsAnswer(ip, h, alloc) \/ ndpi_cache_hostname_ip(ip, h, alloc)
        \/ TlsClientHello(ip, h)
        \/ HttpRequest(ip, h)
        \/ Search(ip, h)
    \/ \E alloc \in BOOLEAN : ndpi_cache_hostname_ip_swap(alloc)
    \/ ndpi_cache_enable

HostnameSpec == HostnameInit /\ [][HostnameNext]_hostnameVars

-----------------------------------------------------------------------------
(* Properties.                                                              *)

Hashes == {<<ip>> : ip \in Ip} \union (Ip \X Host)

HostnameTypeOK ==
    /\ enabled \in BOOLEAN
    /\ filter \in {NoFilter} \union SUBSET Hashes /\ shadow \in {NoFilter} \union SUBSET Hashes
    /\ age \in [Host \X Ip -> 0..Old]
    /\ last.found \in BOOLEAN

\* ndpi_cache_find_hostname_ip(): "Check if the combination hostname/IP was
\* found".  What is found was resolved, not more than two swaps ago.
FoundWasCached ==
    last # NoSearch /\ last.found => age[<<last.host, last.ip>>] < Old

\* A search finds exactly the pairs that were resolved fewer than two swaps ago,
\* unless memory ran out at the last swap.
TwoGenerations ==
    last # NoSearch /\ filter # NoFilter => (last.found <=> age[<<last.host, last.ip>>] < Old)

\* doc/flow_risks.rst on NDPI_UNRESOLVED_HOSTNAME: "Risk set when talking (TLS,
\* QUIC, HTTP) with a symbolic hostname not previously observed on a DNS
\* resolution".  No risk is set for an HTTP request to a resolved name.
HttpRiskIsUnresolved ==
    [][\A ip \in Ip, h \in Host :
        HttpRequest(ip, h) /\ filter # NoFilter /\ age[<<Norm[h], ip>>] < Old => last'.found]_hostnameVars
=============================================================================
