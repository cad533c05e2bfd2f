----------------------------- MODULE CustomRules -----------------------------
(***************************************************************************)
(* The rules of a protocols file (ndpi_main.c): how a rule gives ports,    *)
(* addresses and fingerprints to a protocol, a built-in one or a new one   *)
(* of its own, how the end of the initialization turns the ports into the  *)
(* two trees that flows are guessed from, and what the guess of a new flow *)
(* makes of them.                                                          *)
(*                                                                         *)
(* A protocol is its identifier: 0 is the unknown protocol, the built-in   *)
(* ones are 1 .. Len(BuiltIn), and the custom ones follow.  An address is  *)
(* a sequence of bits and a network is a prefix of one, so that the best   *)
(* match in the patricia tree is the longest prefix.  Port 0 of an address *)
(* rule is a rule for every port.                                          *)
(***************************************************************************)
EXTENDS Lists

CONSTANTS
    BuiltIn,              \* the built-in protocols: [name, tcp, udp] with their default ranges
    EnabledProto,         \* the identifiers of the detection bitmask
    BuiltInNet,           \* network -> protocol, as the lists of the library have them
    BuiltInHost,          \* host name -> protocol, as the lists of the library have them
    PrivateAddress,       \* the addresses ndpi_is_public_ipv4 rejects (none for IPv6)
    Rule,                 \* the rules that can be loaded: [proto, user_id, elems]
    GuessFlow,            \* the flows: [l4, sport, dport, client, server]
    UseSport, UseClient,  \* use_client_port_in_guess and use_client_ip_in_guess
    MAX_DEFAULT_PORTS,    \* ranges of a protocol and transport
    UV16_MAX_USER_VALUES, \* entries of a node before its list
    RulesMax              \* bound: the rules loaded in a behaviour

\* The ranges ndpi_set_proto_defaults is called with.
DefaultRange == [port_low : Nat, port_high : Nat, is_custom : {FALSE}]

\* The lists of the library name its own protocols; ports are numbers, and a flow has
\* one of two transports.
ASSUME RulesAssumption ==
    /\ BuiltIn \in Seq([name : STRING, tcp : Seq(DefaultRange), udp : Seq(DefaultRange)])
    /\ \A net \in DOMAIN BuiltInNet : BuiltInNet[net] \in DOMAIN BuiltIn /\ Len(net) \in Nat
    /\ \A rule \in Rule :
          /\ rule.proto \in STRING /\ Len(rule.elems) \in Nat
          /\ \A i \in 1 .. Len(rule.elems) :
                LET elem == rule.elems[i]
                IN  /\ elem.kind \in {"tcp", "udp"} => elem.low \in Nat /\ elem.high \in Nat
                    /\ elem.kind = "ip" => elem.port \in Nat /\ Len(elem.net) \in Nat
    /\ \A flow \in GuessFlow :
          flow.l4 \in {"tcp", "udp"} /\ Len(flow.client) \in Nat /\ Len(flow.server) \in Nat
    /\ MAX_DEFAULT_PORTS \in Nat /\ UV16_MAX_USER_VALUES \in Nat \ {0}

VARIABLE rules

NoGuess ==
    [flow |-> [l4 |-> "none", sport |-> 0, dport |-> 0, client |-> << >>, server |-> << >>],
     app |-> 0, master |-> 0, custom |-> FALSE]

\* A module after ndpi_init_detection_module has its protocols, and nothing to guess
\* from.  asked is a ghost: the elements of rules that were taken, in their order.
NewRules ==
    [proto_defaults |->
         [i \in DOMAIN BuiltIn |->
             [name |-> BuiltIn[i].name, isCustomProto |-> FALSE, tcp |-> BuiltIn[i].tcp,
              udp |-> BuiltIn[i].udp]],
     user_proto_id |-> << >>,
     nodes |-> << >>, hosts |-> << >>,
     keys |-> << >>,
     finalized |-> FALSE, tcpRoot |-> << >>, udpRoot |-> << >>,
     loaded |-> 0, guess |-> NoGuess, asked |-> << >>]

RulesInit == rules = NewRules

num_supported_protocols(c) == Len(c.proto_defaults) + 1

ndpi_is_custom_protocol(c, id) ==
    id \in DOMAIN c.proto_defaults /\ c.proto_defaults[id].isCustomProto

num_custom_protocols(c) ==
    Cardinality({id \in DOMAIN c.proto_defaults : c.proto_defaults[id].isCustomProto})

\* The lowest identifier of that name, or 0.
ndpi_get_proto_by_name(c, name) ==
    LET ids == {id \in DOMAIN c.proto_defaults : c.proto_defaults[id].name = name}
    IN  IF ids = {} THEN 0 ELSE Least(ids)

is_proto_enabled(c, id) == ndpi_is_custom_protocol(c, id) \/ id \in EnabledProto

-----------------------------------------------------------------------------
(* Loading a rule.                                                         *)

\* A range is kept in the first free slot, and is dropped when there is none; a
\* range that starts at 0 leaves its slot free.
StoreRange(slots, range) ==
    IF Len(slots) < MAX_DEFAULT_PORTS /\ range.port_low # 0 THEN Append(slots, range) ELSE slots

Asked(c, id, elem) ==
    Append(c.asked, [proto |-> id, elem |-> elem, early |-> ~c.finalized])

PortElement(c, id, elem) ==
    LET range == [port_low |-> elem.low, port_high |-> elem.high, is_custom |-> TRUE]
        slots == c.proto_defaults[id]
    IN  [c EXCEPT !.proto_defaults[id] =
                      IF elem.kind = "tcp" THEN [slots EXCEPT !.tcp = StoreRange(slots.tcp, range)]
                      ELSE [slots EXCEPT !.udp = StoreRange(slots.udp, range)],
                  !.asked = Asked(c, id, elem)]

\* A network takes another protocol in its node, or at the head of the node's list
\* once the entries of the node are taken.
ndpi_add_host_ip_subprotocol(c, id, elem) ==
    LET old  == IF elem.net \in DOMAIN c.nodes THEN c.nodes[elem.net]
                ELSE [uv16 |-> << >>, data |-> << >>]
        item == [user_value |-> id, port |-> elem.port]
        new  == IF Len(old.uv16) < UV16_MAX_USER_VALUES
                THEN [old EXCEPT !.uv16 = Append(@, item)]
                ELSE [old EXCEPT !.data = << item >> \o @]
    IN  [c EXCEPT !.nodes = [n \in DOMAIN @ \union {elem.net} |-> IF n = elem.net THEN new ELSE @[n]],
                  !.asked = Asked(c, id, elem)]

\* A fingerprint or an address of a page replaces the protocol it had.
ndpi_hash_add_entry(c, id, elem) ==
    [c EXCEPT !.keys = [key \in DOMAIN @ \union {elem.key} |-> IF key = elem.key THEN id ELSE @[key]],
              !.asked = Asked(c, id, elem)]

\* A host name keeps the first protocol it was given.
ndpi_add_host_url_subprotocol(c, id, elem) ==
    [c EXCEPT !.hosts = [host \in DOMAIN @ \union {elem.host} |->
                             IF host \in DOMAIN @ THEN @[host] ELSE id],
              !.asked = Asked(c, id, elem)]

\* One element: a value that does not parse ends the rule, and so do a host name once
\* the automaton is closed, and a key that was there already, although its protocol
\* is replaced.
HandleElement(state, elem) ==
    IF state.ended THEN state
    ELSE CASE elem.kind \in {"tcp", "udp"} ->
                  [state EXCEPT !.c = PortElement(@, state.id, elem)]
           [] elem.kind = "ip" ->
                  [state EXCEPT !.c = ndpi_add_host_ip_subprotocol(@, state.id, elem)]
           [] elem.kind = "key" ->
                  [state EXCEPT !.c = ndpi_hash_add_entry(@, state.id, elem),
                                !.ended = elem.key \in DOMAIN state.c.keys]
           [] elem.kind = "host" /\ ~state.c.finalized ->
                  [state EXCEPT !.c = ndpi_add_host_url_subprotocol(@, state.id, elem)]
           [] OTHER -> [state EXCEPT !.ended = TRUE]

\* An unknown name becomes a protocol with the next identifier and no port.
AddProtocol(c, rule) ==
    LET id == num_supported_protocols(c)
    IN  [c EXCEPT !.proto_defaults =
                      Append(@, [name |-> rule.proto, isCustomProto |-> TRUE, tcp |-> << >>,
                                 udp |-> << >>]),
                  !.user_proto_id =
                      Append(@, IF rule.user_id = 0 THEN id ELSE rule.user_id)]

\* The elements of a rule, one after the other.
ElementsHandled(first, elems) ==
    LET upto[n \in 0 .. Len(elems)] ==
            IF n = 0 THEN first ELSE HandleElement(upto[n - 1], elems[n])
    IN  upto[Len(elems)]

\* A rule whose identifier is below the next free one is discarded; the others are
\* applied element by element, and what precedes an element that fails stays.
HandledRule(c, rule) ==
    LET id    == ndpi_get_proto_by_name(c, rule.proto)
        known == IF id = 0 THEN AddProtocol(c, rule) ELSE c
        first == [c |-> known, id |-> IF id = 0 THEN num_supported_protocols(c) ELSE id,
                  ended |-> FALSE]
    IN  IF rule.user_id # 0 /\ rule.user_id < num_supported_protocols(c) THEN c
        ELSE ElementsHandled(first, rule.elems).c

ndpi_handle_rule(rule) ==
    /\ rules.loaded < RulesMax
    /\ rules' = [HandledRule(rules, rule) EXCEPT !.loaded = @ + 1]

-----------------------------------------------------------------------------
(* The end of the initialization.                                          *)

\* Mutant: the protocol that took a port first keeps it.
addDefaultPort_First(root, range, id, custom) ==
    [p \in DOMAIN root \union (range.port_low .. range.port_high) |->
        IF p \in DOMAIN root THEN root[p]
        ELSE [proto_idx |-> id, customUserProto |-> custom \/ range.is_custom]]

\* The ports of a range enter the tree up to the first that is there already: that
\* one goes to the protocol, and the range ends.
addDefaultPort(root, range, id, custom) ==
    LET ports == range.port_low .. range.port_high
        taken == ports \intersect DOMAIN root
        dup   == Least(taken)
        mine  == custom \/ range.is_custom
        new   == IF taken = {} THEN ports ELSE {p \in ports : p < dup}
        node(p) == IF p \in new THEN [proto_idx |-> id, customUserProto |-> mine]
                   ELSE IF taken # {} /\ p = dup
                   THEN [proto_idx |-> id, customUserProto |-> root[p].customUserProto \/ mine]
                   ELSE root[p]
    IN  [p \in DOMAIN root \union new |-> node(p)]

RangesOf(c, id, l4) == IF l4 = "tcp" THEN c.proto_defaults[id].tcp ELSE c.proto_defaults[id].udp

\* The ranges of a protocol enter the tree in the order of their slots.
RangesAdded(c, l4, root, id) ==
    LET ranges == RangesOf(c, id, l4)
        tree[j \in 0 .. Len(ranges)] ==
            IF j = 0 THEN root
            ELSE addDefaultPort(tree[j - 1], ranges[j], id, c.proto_defaults[id].isCustomProto)
    IN  tree[Len(ranges)]

ProtocolAdded(c, l4, root, id) ==
    IF is_proto_enabled(c, id) THEN RangesAdded(c, l4, root, id) ELSE root

\* The protocols that are enabled, in the order of their identifiers.
load_default_ports(c, l4) ==
    LET tree[id \in 0 .. Len(c.proto_defaults)] ==
            IF id = 0 THEN << >> ELSE ProtocolAdded(c, l4, tree[id - 1], id)
    IN  tree[Len(c.proto_defaults)]

\* The lists of the library take the first entry of a node, whatever it held.
ndpi_init_ptree_ipv4(nodes) ==
    LET item(n) == [user_value |-> BuiltInNet[n], port |-> 0]
    IN  [n \in DOMAIN nodes \union DOMAIN BuiltInNet |->
            IF n \notin DOMAIN BuiltInNet THEN nodes[n]
            ELSE IF n \in DOMAIN nodes THEN [nodes[n] EXCEPT !.uv16[1] = item(n)]
            ELSE [uv16 |-> << item(n) >>, data |-> << >>]]

load_string_based_protocols(c) ==
    LET enabled == {host \in DOMAIN BuiltInHost : is_proto_enabled(c, BuiltInHost[host])}
    IN  [host \in DOMAIN c.hosts \union enabled |->
            IF host \in DOMAIN c.hosts THEN c.hosts[host] ELSE BuiltInHost[host]]

FinalizeRules ==
    /\ ~rules.finalized
    /\ rules' = [rules EXCEPT !.finalized = TRUE,
                              !.hosts = load_string_based_protocols(rules),
                              !.tcpRoot = load_default_ports(rules, "tcp"),
                              !.udpRoot = load_default_ports(rules, "udp"),
                              !.nodes = ndpi_init_ptree_ipv4(@)]

-----------------------------------------------------------------------------
(* The guess of a new flow.                                                *)

\* The node of the server's port, or of the client's; NoNode when neither is there.
NoNode == [proto_idx |-> 0, customUserProto |-> FALSE]

ndpi_get_guessed_protocol_id(c, flow) ==
    LET root == IF flow.l4 = "tcp" THEN c.tcpRoot ELSE c.udpRoot
    IN  IF flow.dport \in DOMAIN root THEN root[flow.dport]
        ELSE IF UseSport /\ flow.sport \in DOMAIN root THEN root[flow.sport]
        ELSE NoNode

\* A network holds the addresses that begin with its bits.
IsNetworkOf(net, address) ==
    Len(net) <= Len(address) /\ \A i \in 1 .. Len(net) : net[i] = address[i]

\* The longest network of an address decides alone: its entries in their order, then,
\* when they are all in use, its list.
ndpi_network_port_ptree_match(c, address, port) ==
    LET nets   == {n \in DOMAIN c.nodes : IsNetworkOf(n, address)}
        best   == c.nodes[CHOOSE n \in nets : \A other \in nets : Len(other) <= Len(n)]
        fits   == {i \in 1 .. Len(best.uv16) : best.uv16[i].port \in {0, port}}
        listed == {i \in 1 .. Len(best.data) : best.data[i].port = port}
    IN  IF nets = {} \/ (num_custom_protocols(c) = 0 /\ address \in PrivateAddress) THEN 0
        ELSE IF fits # {} THEN best.uv16[Least(fits)].user_value
        ELSE IF listed # {} THEN best.data[Least(listed)].user_value ELSE 0

ndpi_guess_host_protocol_id(c, flow) ==
    LET server == ndpi_network_port_ptree_match(c, flow.server, flow.dport)
    IN  IF server = 0 /\ UseClient
        THEN ndpi_network_port_ptree_match(c, flow.client, flow.sport) ELSE server

\* A custom protocol by port, a port of a rule, and a custom protocol by address
\* decide at once, in this order; otherwise the flow is left to the dissectors.
do_guess(c, flow) ==
    LET found   == ndpi_get_guessed_protocol_id(c, flow)
        by_port == found.proto_idx
        by_ip   == ndpi_guess_host_protocol_id(c, flow)
    IN  IF ndpi_is_custom_protocol(c, by_port) \/ (found.customUserProto /\ by_port # 0)
        THEN [flow |-> flow, app |-> by_port, master |-> 0, custom |-> TRUE]
        ELSE IF ndpi_is_custom_protocol(c, by_ip)
        THEN [flow |-> flow, app |-> by_ip, master |-> by_port, custom |-> TRUE]
        ELSE [NoGuess EXCEPT !.flow = flow]

GuessNewFlow(flow) ==
    /\ rules.finalized
    /\ rules' = [rules EXCEPT !.guess = do_guess(rules, flow)]

RulesNext ==
    \/ \E rule \in Rule : ndpi_handle_rule(rule)
    \/ FinalizeRules
    \/ \E flow \in GuessFlow : GuessNewFlow(flow)

RulesSpec == RulesInit /\ [][RulesNext]_rules

-----------------------------------------------------------------------------
(* Properties.                                                             *)

IsPort(a, l4) == a.elem.kind = l4 /\ a.elem.low # 0

\* The ranges of the same protocol and transport that precede the n-th element asked.
Earlier(c, n) ==
    {m \in 1 .. n - 1 :
        c.asked[m].proto = c.asked[n].proto /\ IsPort(c.asked[m], c.asked[n].elem.kind)}

\* The n-th element asked gives ports to a custom protocol, before the end of the
\* initialization and while the protocol had room for them.
OwnPort(c, n) ==
    LET a == c.asked[n]
    IN  /\ a.early /\ ndpi_is_custom_protocol(c, a.proto)
        /\ \E l4 \in {"tcp", "udp"} : IsPort(a, l4)
        /\ a.elem.low <= a.elem.high
        /\ Cardinality(Earlier(c, n)) < MAX_DEFAULT_PORTS

\* What the rules say of the flow that was guessed last: a port of the flow, or one of
\* its addresses with no port or with the port of its side, for the protocol it got.
NamesFlow(a, guess) ==
    \/ /\ a.elem.kind = guess.flow.l4
       /\ \/ guess.flow.dport \in a.elem.low .. a.elem.high
          \/ UseSport /\ guess.flow.sport \in a.elem.low .. a.elem.high
    \/ /\ a.elem.kind = "ip" /\ a.proto = guess.app
       /\ \/ IsNetworkOf(a.elem.net, guess.flow.server) /\ a.elem.port \in {0, guess.flow.dport}
          \/ /\ UseClient /\ IsNetworkOf(a.elem.net, guess.flow.client)
             /\ a.elem.port \in {0, guess.flow.sport}

\* Rules decide what they were written for, and nothing else.  A flow to the (first)
\* port that a rule gave to a protocol of its own is reported as a custom protocol,
\* that one or one defined later; a flow is reported on account of a rule
\* (NDPI_CONFIDENCE_CUSTOM_RULE, do_guess) only if some rule names one of its ports,
\* or one of its addresses for that very protocol; and a host name stays with the
\* protocol of the first rule that names it, although the lists of the library are
\* loaded after the rules.
RulesHonoured ==
    /\ rules.guess.flow.l4 # "none" =>
        /\ \A n \in DOMAIN rules.asked :
              /\ OwnPort(rules, n)
              /\ rules.asked[n].elem.kind = rules.guess.flow.l4
              /\ rules.asked[n].elem.low = rules.guess.flow.dport
              => /\ rules.guess.custom
                 /\ ndpi_is_custom_protocol(rules, rules.guess.app)
                 /\ rules.guess.app >= rules.asked[n].proto
        /\ rules.guess.custom =>
              \E n \in DOMAIN rules.asked : NamesFlow(rules.asked[n], rules.guess)
    /\ \A n \in DOMAIN rules.asked :
          /\ rules.asked[n].elem.kind = "host"
          /\ \A m \in 1 .. n - 1 :
                ~(/\ rules.asked[m].elem.kind = "host"
                  /\ rules.asked[m].elem.host = rules.asked[n].elem.host)
          => rules.hosts[rules.asked[n].elem.host] = rules.asked[n].proto

\* What addDefaultPort says of a port that several protocols ask for ("custom rules
\* wins over "default"/hard-coded default ports"): once the trees are built, a port
\* that a rule names belongs to a protocol that some rule gave it to.
CustomRulesWin ==
    rules.finalized =>
      \A n \in DOMAIN rules.asked :
        LET a == rules.asked[n]
            root == IF a.elem.kind = "tcp" THEN rules.tcpRoot ELSE rules.udpRoot
        IN  (a.early /\ \E l4 \in {"tcp", "udp"} : IsPort(a, l4)) =>
              /\ a.elem.low \in DOMAIN root
              /\ \E m \in DOMAIN rules.asked :
                    /\ rules.asked[m].proto = root[a.elem.low].proto_idx
                    /\ rules.asked[m].elem.kind = a.elem.kind
                    /\ a.elem.low \in rules.asked[m].elem.low .. rules.asked[m].elem.high
=============================================================================
