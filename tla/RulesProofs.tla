----------------------------- MODULE RulesProofs -----------------------------
(***************************************************************************)
(* The rules of a protocols file decide what they were written for, for    *)
(* any built-in protocols, any rules in any order, before and after the    *)
(* end of the initialization.                                              *)
(***************************************************************************)
EXTENDS CustomRules, ListProofs

L4 == {"tcp", "udp"}

Element == UNION {{rule.elems[i] : i \in 1 .. Len(rule.elems)} : rule \in Rule}

PortRange == [port_low : Nat, port_high : Nat, is_custom : BOOLEAN]

Protocol == [name : STRING, isCustomProto : BOOLEAN, tcp : Seq(PortRange), udp : Seq(PortRange)]

AskedElement == [proto : Nat, elem : Element, early : BOOLEAN]

NodeItem == [user_value : Nat, port : Nat]

NodeType == [uv16 : Seq(NodeItem), data : Seq(NodeItem)]

RuleFields ==
    {"proto_defaults", "user_proto_id", "nodes", "hosts", "keys", "finalized", "tcpRoot",
     "udpRoot", "loaded", "guess", "asked"}

\* The state of the module, as far as the argument needs it.
RulesTyped(c) ==
    /\ DOMAIN c = RuleFields
    /\ c.proto_defaults \in Seq(Protocol)
    /\ c.asked \in Seq(AskedElement)
    /\ c.finalized \in BOOLEAN
    /\ \A net \in DOMAIN c.nodes : c.nodes[net] \in NodeType /\ Len(net) \in Nat

Protocols(c) == 1 .. Len(c.proto_defaults)

IsOwn(id) == id > Len(BuiltIn)

\* The protocols of rules have the identifiers after the built-in ones.
OwnAreLast(c) ==
    /\ Len(c.proto_defaults) >= Len(BuiltIn)
    /\ \A id \in Protocols(c) : c.proto_defaults[id].isCustomProto <=> IsOwn(id)

AskedKnown(c) == \A n \in 1 .. Len(c.asked) : c.asked[n].proto \in Protocols(c)

PortAsked(c, l4, low, high) ==
    \E n \in 1 .. Len(c.asked) :
        c.asked[n].elem.kind = l4 /\ c.asked[n].elem.low = low /\ c.asked[n].elem.high = high

AddressAsked(c, net, id, port) ==
    \E n \in 1 .. Len(c.asked) :
        /\ c.asked[n].elem.kind = "ip" /\ c.asked[n].elem.net = net
        /\ c.asked[n].elem.port = port /\ c.asked[n].proto = id

IsHost(a, host) == a.elem.kind = "host" /\ a.elem.host = host

HostAsked(c, host) == \E n \in 1 .. Len(c.asked) : IsHost(c.asked[n], host)

\* A range that counts as one of a rule is one.
RangeSound(c, id, l4, range) ==
    IsOwn(id) \/ range.is_custom => PortAsked(c, l4, range.port_low, range.port_high)

RangesSound(c) ==
    \A id \in Protocols(c), l4 \in L4 :
        \A j \in 1 .. Len(RangesOf(c, id, l4)) : RangeSound(c, id, l4, RangesOf(c, id, l4)[j])

AskedFor(c, id, l4) ==
    {m \in 1 .. Len(c.asked) : c.asked[m].proto = id /\ IsPort(c.asked[m], l4)}

\* A protocol of its own has no more ranges than rules gave it.
SlotsCounted(c) ==
    \A id \in Protocols(c), l4 \in L4 :
        IsOwn(id) => Len(RangesOf(c, id, l4)) <= Cardinality(AskedFor(c, id, l4))

HasRange(c, id, elem) ==
    \E j \in 1 .. Len(RangesOf(c, id, elem.kind)) :
        /\ RangesOf(c, id, elem.kind)[j].port_low = elem.low
        /\ RangesOf(c, id, elem.kind)[j].port_high = elem.high

\* The ports a rule gave to a protocol of its own are stored.
PortsStored(c) ==
    \A n \in 1 .. Len(c.asked) : OwnPort(c, n) => HasRange(c, c.asked[n].proto, c.asked[n].elem)

ItemSound(c, net, item) ==
    /\ item.user_value \in Protocols(c)
    /\ IsOwn(item.user_value) => AddressAsked(c, net, item.user_value, item.port)

\* An entry of the address tree for a protocol of a rule comes from that rule.
NodesSound(c) ==
    \A net \in DOMAIN c.nodes :
        /\ \A i \in 1 .. Len(c.nodes[net].uv16) : ItemSound(c, net, c.nodes[net].uv16[i])
        /\ \A i \in 1 .. Len(c.nodes[net].data) : ItemSound(c, net, c.nodes[net].data[i])

IsFirstHost(c, n) ==
    /\ c.asked[n].elem.kind = "host"
    /\ \A m \in 1 .. n - 1 : ~IsHost(c.asked[m], c.asked[n].elem.host)

\* A host name has the protocol of the first rule that names it.
HostsKept(c) ==
    \A n \in 1 .. Len(c.asked) :
        IsFirstHost(c, n) => /\ c.asked[n].elem.host \in DOMAIN c.hosts
                             /\ c.hosts[c.asked[n].elem.host] = c.asked[n].proto

\* Until the initialization ends, only rules name hosts.
HostsSound(c) == ~c.finalized => \A host \in DOMAIN c.hosts : HostAsked(c, host)

\* Some rule names the port.
PortNamed(c, l4, p) ==
    \E n \in 1 .. Len(c.asked) :
        c.asked[n].elem.kind = l4 /\ p \in c.asked[n].elem.low .. c.asked[n].elem.high

NodeSound(c, l4, p, node) ==
    /\ node.proto_idx \in Protocols(c)
    /\ IsOwn(node.proto_idx) \/ node.customUserProto => PortNamed(c, l4, p)

\* A node of a tree that counts as one of a rule is for a port that a rule names.
TreeSound(c, l4, root) == \A p \in DOMAIN root : NodeSound(c, l4, p, root[p])

\* The first port that a rule gave to a protocol of its own is in the tree, for that
\* protocol or a later one.
TreeOwns(c, l4, root) ==
    \A n \in 1 .. Len(c.asked) :
        OwnPort(c, n) /\ c.asked[n].elem.kind = l4 =>
            /\ c.asked[n].elem.low \in DOMAIN root
            /\ root[c.asked[n].elem.low].proto_idx >= c.asked[n].proto

RootOf(c, l4) == IF l4 = "tcp" THEN c.tcpRoot ELSE c.udpRoot

TreesBuilt(c) ==
    c.finalized => \A l4 \in L4 : TreeSound(c, l4, RootOf(c, l4)) /\ TreeOwns(c, l4, RootOf(c, l4))

\* The last guess respects the rules.
GuessOwn(c) ==
    \A n \in 1 .. Len(c.asked) :
        /\ OwnPort(c, n)
        /\ c.asked[n].elem.kind = c.guess.flow.l4
        /\ c.asked[n].elem.low = c.guess.flow.dport
        => /\ c.guess.custom
           /\ ndpi_is_custom_protocol(c, c.guess.app)
           /\ c.guess.app >= c.asked[n].proto

GuessNamed(c) ==
    c.guess.custom => \E n \in 1 .. Len(c.asked) : NamesFlow(c.asked[n], c.guess)

GuessSound(c) ==
    c.guess.flow.l4 # "none" => c.finalized /\ GuessOwn(c) /\ GuessNamed(c)

\* The inductive invariant.
RulesSound(c) ==
    /\ RulesTyped(c) /\ OwnAreLast(c) /\ AskedKnown(c)
    /\ RangesSound(c) /\ SlotsCounted(c) /\ PortsStored(c)
    /\ NodesSound(c)
    /\ HostsKept(c) /\ HostsSound(c)
    /\ TreesBuilt(c)
    /\ GuessSound(c)

RulesInv == RulesSound(rules)
-----------------------------------------------------------------------------
(* One more element asked for.                                             *)

SameProtocols(c, e) ==
    /\ Len(e.proto_defaults) = Len(c.proto_defaults)
    /\ \A id \in Protocols(c) : e.proto_defaults[id].isCustomProto = c.proto_defaults[id].isCustomProto

SameTrees(c, e) ==
    e.finalized = c.finalized /\ e.tcpRoot = c.tcpRoot /\ e.udpRoot = c.udpRoot /\ e.guess = c.guess

\* e is c after the element elem was taken for the protocol id.
AskStep(c, e, id, elem) ==
    /\ RulesTyped(c) /\ RulesTyped(e) /\ OwnAreLast(c) /\ AskedKnown(c)
    /\ id \in Protocols(c) /\ elem \in Element
    /\ e.asked = Asked(c, id, elem)
    /\ SameProtocols(c, e) /\ SameTrees(c, e)

AskedMore(c, e, id, elem) ==
    /\ Len(c.asked) \in Nat /\ Len(e.asked) = Len(c.asked) + 1
    /\ \A n \in 1 .. Len(c.asked) : e.asked[n] = c.asked[n]
    /\ e.asked[Len(e.asked)].proto = id /\ e.asked[Len(e.asked)].elem = elem
    /\ e.asked[Len(e.asked)].early <=> ~c.finalized
    /\ Protocols(e) = Protocols(c)

\* What was asked before is still asked.
LEMMA OneMoreAsked ==
    ASSUME NEW c, NEW e, NEW id, NEW elem, AskStep(c, e, id, elem)
    PROVE  AskedMore(c, e, id, elem)
<1>1. c.asked \in Seq(AskedElement)
  BY Zenon DEF AskStep, RulesTyped
<1>2. e.asked = Append(c.asked, [proto |-> id, elem |-> elem, early |-> ~c.finalized])
  BY Zenon DEF AskStep, Asked
<1>3. Protocols(e) = Protocols(c)
  BY Zenon DEF AskStep, SameProtocols, Protocols
<1> DEFINE a == [proto |-> id, elem |-> elem, early |-> ~c.finalized]
<1>4. a.proto = id /\ a.elem = elem
  BY Zenon
<1>5. a.early <=> ~c.finalized
  BY Zenon
<1> HIDE DEF a
<1>6. /\ Len(c.asked) \in Nat /\ Len(e.asked) = Len(c.asked) + 1
      /\ \A n \in 1 .. Len(c.asked) : e.asked[n] = c.asked[n]
      /\ e.asked[Len(e.asked)] = a
  BY <1>1, <1>2 DEF a
<1> QED
  BY <1>3, <1>4, <1>5, <1>6, Zenon DEF AskedMore

\* The identifiers stay in order.
LEMMA KnownNext ==
    ASSUME NEW c, NEW e, NEW id, NEW elem, AskStep(c, e, id, elem)
    PROVE  OwnAreLast(e) /\ AskedKnown(e)
<1>0. AskedMore(c, e, id, elem)
  BY OneMoreAsked, Zenon
<1>1. OwnAreLast(e)
  BY <1>0, Zenon DEF AskStep, OwnAreLast, SameProtocols, AskedMore
<1>2. ASSUME NEW n \in 1 .. Len(e.asked) PROVE e.asked[n].proto \in Protocols(e)
  <2>1. CASE n \in 1 .. Len(c.asked)
    BY <2>1, <1>0, Zenon DEF AskStep, AskedKnown, AskedMore
  <2>2. CASE n = Len(e.asked)
    BY <2>2, <1>0, Zenon DEF AskStep, AskedMore
  <2> QED
    BY <2>1, <2>2, <1>0 DEF AskedMore
<1> QED
  BY <1>1, <1>2, Zenon DEF AskedKnown

\* What rules name is still named.
LEMMA NamedNext ==
    ASSUME NEW c, NEW e, NEW id, NEW elem, AskStep(c, e, id, elem)
    PROVE  /\ \A l4, low, high : PortAsked(c, l4, low, high) => PortAsked(e, l4, low, high)
           /\ \A net, own, port : AddressAsked(c, net, own, port) => AddressAsked(e, net, own, port)
           /\ \A host : HostAsked(c, host) => HostAsked(e, host)
           /\ \A l4, p : PortNamed(c, l4, p) => PortNamed(e, l4, p)
<1>1. \A n \in 1 .. Len(c.asked) : n \in 1 .. Len(e.asked) /\ e.asked[n] = c.asked[n]
  <2>1. AskedMore(c, e, id, elem)
    BY OneMoreAsked, Zenon
  <2> QED
    BY <2>1 DEF AskedMore
<1>2. \A l4, low, high : PortAsked(c, l4, low, high) => PortAsked(e, l4, low, high)
  BY <1>1, Zenon DEF PortAsked
<1>3. \A net, own, port : AddressAsked(c, net, own, port) => AddressAsked(e, net, own, port)
  BY <1>1, Zenon DEF AddressAsked
<1>4. \A host : HostAsked(c, host) => HostAsked(e, host)
  BY <1>1, Zenon DEF HostAsked
<1>5. \A l4, p : PortNamed(c, l4, p) => PortNamed(e, l4, p)
  BY <1>1, Zenon DEF PortNamed
<1> QED
  BY <1>2, <1>3, <1>4, <1>5, Zenon

SameOwnPort(c, e, n) == OwnPort(e, n) <=> OwnPort(c, n)

\* Which of the elements before it gave ports to a protocol of its own does not change.
LEMMA OwnPortNext ==
    ASSUME NEW c, NEW e, NEW id, NEW elem, AskStep(c, e, id, elem), NEW n \in 1 .. Len(c.asked)
    PROVE  SameOwnPort(c, e, n)
<1>0. AskedMore(c, e, id, elem)
  BY OneMoreAsked, Zenon
<1>1. e.asked[n] = c.asked[n]
  BY <1>0, Zenon DEF AskedMore
<1>2. \A m \in 1 .. n - 1 : e.asked[m] = c.asked[m]
  BY <1>0 DEF AskedMore
<1>3. Earlier(e, n) = Earlier(c, n)
  BY <1>1, <1>2, Zenon DEF Earlier
<1>4. c.asked[n].proto \in Protocols(c)
  BY Zenon DEF AskStep, AskedKnown
<1>5. ndpi_is_custom_protocol(e, c.asked[n].proto) <=> ndpi_is_custom_protocol(c, c.asked[n].proto)
  <2>1. DOMAIN c.proto_defaults = Protocols(c) /\ DOMAIN e.proto_defaults = Protocols(e)
    <3>1. c.proto_defaults \in Seq(Protocol) /\ e.proto_defaults \in Seq(Protocol)
      BY Zenon DEF AskStep, RulesTyped
    <3> QED
      BY <3>1 DEF Protocols
  <2>2. Protocols(e) = Protocols(c)
    BY <1>0, Zenon DEF AskedMore
  <2> QED
    BY <2>1, <2>2, <1>4, Zenon DEF ndpi_is_custom_protocol, AskStep, SameProtocols
<1> QED
  BY <1>1, <1>3, <1>5, Zenon DEF OwnPort, SameOwnPort

\* An element taken once the trees are built changes nothing that they must hold.
LEMMA TreesNext ==
    ASSUME NEW c, NEW e, NEW id, NEW elem, AskStep(c, e, id, elem), TreesBuilt(c)
    PROVE  TreesBuilt(e)
<1>0. AskedMore(c, e, id, elem)
  BY OneMoreAsked, Zenon
<1> SUFFICES ASSUME e.finalized, NEW l4 \in L4
             PROVE  TreeSound(e, l4, RootOf(e, l4)) /\ TreeOwns(e, l4, RootOf(e, l4))
  BY Zenon DEF TreesBuilt
<1>1. c.finalized /\ RootOf(e, l4) = RootOf(c, l4)
  BY Zenon DEF AskStep, SameTrees, RootOf
<1>2. TreeSound(c, l4, RootOf(c, l4)) /\ TreeOwns(c, l4, RootOf(c, l4))
  BY <1>1, Zenon DEF TreesBuilt
<1>3. TreeSound(e, l4, RootOf(e, l4))
  <2>1. \A p : PortNamed(c, l4, p) => PortNamed(e, l4, p)
    BY NamedNext, Zenon
  <2>2. Protocols(e) = Protocols(c)
    BY <1>0, Zenon DEF AskedMore
  <2> QED
    BY <1>1, <1>2, <2>1, <2>2, Zenon DEF TreeSound, NodeSound
<1>4. ASSUME NEW n \in 1 .. Len(e.asked), OwnPort(e, n)
      PROVE  n \in 1 .. Len(c.asked) /\ OwnPort(c, n) /\ e.asked[n] = c.asked[n]
  <2>1. n # Len(e.asked)
    BY <1>0, <1>1, <1>4, Zenon DEF AskedMore, OwnPort
  <2>2. n \in 1 .. Len(c.asked)
    BY <1>0, <2>1 DEF AskedMore
  <2>3. SameOwnPort(c, e, n)
    BY <2>2, OwnPortNext, Zenon
  <2>4. e.asked[n] = c.asked[n]
    BY <1>0, <2>2, Zenon DEF AskedMore
  <2> QED
    BY <1>4, <2>2, <2>3, <2>4, Zenon DEF SameOwnPort
<1>5. TreeOwns(e, l4, RootOf(e, l4))
  BY <1>1, <1>2, <1>4, Zenon DEF TreeOwns
<1> QED
  BY <1>3, <1>5, Zenon

\* Nor anything the last guess must respect.
LEMMA GuessNext ==
    ASSUME NEW c, NEW e, NEW id, NEW elem, AskStep(c, e, id, elem), GuessSound(c)
    PROVE  GuessSound(e)
<1>0. AskedMore(c, e, id, elem)
  BY OneMoreAsked, Zenon
<1> SUFFICES ASSUME e.guess.flow.l4 # "none"
             PROVE  e.finalized /\ GuessOwn(e) /\ GuessNamed(e)
  BY Zenon DEF GuessSound
<1>1. c.finalized /\ e.finalized /\ e.guess = c.guess /\ GuessOwn(c) /\ GuessNamed(c)
  BY Zenon DEF AskStep, SameTrees, GuessSound
<1>2. GuessNamed(e)
  <2>1. \A n \in 1 .. Len(c.asked) : n \in 1 .. Len(e.asked) /\ e.asked[n] = c.asked[n]
    BY <1>0 DEF AskedMore
  <2> QED
    BY <1>1, <2>1, Zenon DEF GuessNamed
<1>3. ASSUME NEW n \in 1 .. Len(e.asked), OwnPort(e, n)
      PROVE  n \in 1 .. Len(c.asked) /\ OwnPort(c, n) /\ e.asked[n] = c.asked[n]
  <2>1. n # Len(e.asked)
    BY <1>0, <1>1, <1>3, Zenon DEF AskedMore, OwnPort
  <2>2. n \in 1 .. Len(c.asked)
    BY <1>0, <2>1 DEF AskedMore
  <2>3. SameOwnPort(c, e, n)
    BY <2>2, OwnPortNext, Zenon
  <2>4. e.asked[n] = c.asked[n]
    BY <1>0, <2>2, Zenon DEF AskedMore
  <2> QED
    BY <1>3, <2>2, <2>3, <2>4, Zenon DEF SameOwnPort
<1>4. \A app : ndpi_is_custom_protocol(c, app) => ndpi_is_custom_protocol(e, app)
  <2>1. DOMAIN c.proto_defaults = Protocols(c) /\ DOMAIN e.proto_defaults = Protocols(e)
    <3>1. c.proto_defaults \in Seq(Protocol) /\ e.proto_defaults \in Seq(Protocol)
      BY Zenon DEF AskStep, RulesTyped
    <3> QED
      BY <3>1 DEF Protocols
  <2>2. Protocols(e) = Protocols(c)
    BY <1>0, Zenon DEF AskedMore
  <2> QED
    BY <2>1, <2>2, Zenon DEF ndpi_is_custom_protocol, AskStep, SameProtocols
<1>5. GuessOwn(e)
  BY <1>1, <1>3, <1>4, Zenon DEF GuessOwn
<1> QED
  BY <1>1, <1>2, <1>5, Zenon

\* An element that is no address leaves the nodes as they are.
LEMMA NodesNext ==
    ASSUME NEW c, NEW e, NEW id, NEW elem, AskStep(c, e, id, elem), NodesSound(c),
           e.nodes = c.nodes
    PROVE  NodesSound(e)
<1>1. Protocols(e) = Protocols(c)
  BY OneMoreAsked, Zenon DEF AskedMore
<1>2. \A net, own, port : AddressAsked(c, net, own, port) => AddressAsked(e, net, own, port)
  BY NamedNext, Zenon
<1> QED
  BY <1>1, <1>2, Zenon DEF NodesSound, ItemSound

\* An element that is no host name leaves the names as they are.
LEMMA HostsNext ==
    ASSUME NEW c, NEW e, NEW id, NEW elem, AskStep(c, e, id, elem), HostsKept(c), HostsSound(c),
           e.hosts = c.hosts, elem.kind # "host"
    PROVE  HostsKept(e) /\ HostsSound(e)
<1>0. AskedMore(c, e, id, elem)
  BY OneMoreAsked, Zenon
<1>1. HostsSound(e)
  <2>1. \A host : HostAsked(c, host) => HostAsked(e, host)
    BY NamedNext, Zenon
  <2> QED
    BY <2>1, Zenon DEF HostsSound, AskStep, SameTrees
<1>2. ASSUME NEW n \in 1 .. Len(e.asked), IsFirstHost(e, n)
      PROVE  n \in 1 .. Len(c.asked) /\ IsFirstHost(c, n) /\ e.asked[n] = c.asked[n]
  <2>1. n # Len(e.asked)
    BY <1>0, <1>2, Zenon DEF AskedMore, IsFirstHost
  <2>2. n \in 1 .. Len(c.asked) /\ \A m \in 1 .. n - 1 : m \in 1 .. Len(c.asked)
    BY <1>0, <2>1 DEF AskedMore
  <2> QED
    BY <1>0, <1>2, <2>2, Zenon DEF AskedMore, IsFirstHost
<1>3. HostsKept(e)
  BY <1>2, Zenon DEF HostsKept
<1> QED
  BY <1>1, <1>3, Zenon

RangesKept(c) == RangesSound(c) /\ SlotsCounted(c) /\ PortsStored(c)

\* An element that gives no port leaves the ranges as they are.
LEMMA RangesNext ==
    ASSUME NEW c, NEW e, NEW id, NEW elem, AskStep(c, e, id, elem), RangesKept(c),
           e.proto_defaults = c.proto_defaults, elem.kind \notin L4
    PROVE  RangesKept(e)
<1>0. AskedMore(c, e, id, elem)
  BY OneMoreAsked, Zenon
<1>1. Protocols(e) = Protocols(c) /\ \A own, l4 : RangesOf(e, own, l4) = RangesOf(c, own, l4)
  BY <1>0, Zenon DEF AskedMore, RangesOf
<1>2. RangesSound(e)
  <2>1. \A l4, low, high : PortAsked(c, l4, low, high) => PortAsked(e, l4, low, high)
    BY NamedNext, Zenon
  <2> QED
    BY <1>1, <2>1, Zenon DEF RangesKept, RangesSound, RangeSound
<1>3. ASSUME NEW l4 \in L4 PROVE ~IsPort(e.asked[Len(e.asked)], l4)
  BY <1>0, Zenon DEF AskedMore, IsPort
<1>4. \A n \in 1 .. Len(e.asked) : n # Len(e.asked) => n \in 1 .. Len(c.asked)
  BY <1>0 DEF AskedMore
<1>5. \A n \in 1 .. Len(c.asked) : n \in 1 .. Len(e.asked) /\ e.asked[n] = c.asked[n]
  BY <1>0 DEF AskedMore
<1>6. SlotsCounted(e)
  <2>1. ASSUME NEW own, NEW l4 \in L4 PROVE AskedFor(e, own, l4) = AskedFor(c, own, l4)
    BY <1>3, <1>4, <1>5, Zenon DEF AskedFor
  <2> QED
    BY <1>1, <2>1, Zenon DEF RangesKept, SlotsCounted
<1>7. ASSUME NEW n \in 1 .. Len(e.asked), OwnPort(e, n)
      PROVE  HasRange(e, e.asked[n].proto, e.asked[n].elem)
  <2>1. n # Len(e.asked)
    BY <1>3, <1>7, Zenon DEF OwnPort, L4
  <2>2. n \in 1 .. Len(c.asked) /\ e.asked[n] = c.asked[n]
    BY <1>4, <1>5, <2>1, Zenon
  <2>3. SameOwnPort(c, e, n)
    BY <2>2, OwnPortNext, Zenon
  <2>4. HasRange(c, c.asked[n].proto, c.asked[n].elem)
    BY <1>7, <2>2, <2>3, Zenon DEF RangesKept, PortsStored, SameOwnPort
  <2> QED
    BY <1>1, <2>2, <2>4, Zenon DEF HasRange
<1> QED
  BY <1>2, <1>6, <1>7, Zenon DEF RangesKept, PortsStored

\* The invariant, with what one element touches taken together.
LEMMA SoundParts ==
    ASSUME NEW c
    PROVE  RulesSound(c) <=> /\ RulesTyped(c) /\ OwnAreLast(c) /\ AskedKnown(c)
                             /\ RangesKept(c) /\ NodesSound(c)
                             /\ HostsKept(c) /\ HostsSound(c)
                             /\ TreesBuilt(c) /\ GuessSound(c)
BY Zenon DEF RulesSound, RangesKept

\* The parts that no element touches.
LEMMA AskedSound ==
    ASSUME NEW c, NEW e, NEW id, NEW elem, AskStep(c, e, id, elem), RulesSound(c),
           RangesKept(e), NodesSound(e), HostsKept(e), HostsSound(e)
    PROVE  RulesSound(e)
<1>1. RulesTyped(e) /\ OwnAreLast(e) /\ AskedKnown(e)
  BY KnownNext, Zenon DEF AskStep
<1>2. TreesBuilt(e)
  BY TreesNext, Zenon DEF RulesSound
<1>3. GuessSound(e)
  BY GuessNext, Zenon DEF RulesSound
<1> QED
  BY <1>1, <1>2, <1>3, Zenon DEF RulesSound, RangesKept
-----------------------------------------------------------------------------
(* The four kinds of elements.                                             *)

\* Numbers where ports are.
LEMMA ElementType ==
    ASSUME NEW elem \in Element
    PROVE  /\ elem.kind \in L4 => elem.low \in Nat /\ elem.high \in Nat
           /\ elem.kind = "ip" => elem.port \in Nat /\ Len(elem.net) \in Nat
<1>1. PICK rule \in Rule : \E i \in 1 .. Len(rule.elems) : elem = rule.elems[i]
  BY Zenon DEF Element
<1>2. \A k \in 1 .. Len(rule.elems) :
        /\ rule.elems[k].kind \in L4 => rule.elems[k].low \in Nat /\ rule.elems[k].high \in Nat
        /\ rule.elems[k].kind = "ip" => rule.elems[k].port \in Nat /\ Len(rule.elems[k].net) \in Nat
  BY RulesAssumption, Zenon DEF L4
<1> QED
  BY <1>1, <1>2, Zenon

\* The element that was asked last has the type of one.
LEMMA AskedType ==
    ASSUME NEW c, RulesTyped(c), NEW id \in Protocols(c), NEW elem \in Element
    PROVE  Asked(c, id, elem) \in Seq(AskedElement)
<1>1. c.asked \in Seq(AskedElement) /\ c.finalized \in BOOLEAN /\ c.proto_defaults \in Seq(Protocol)
  BY Zenon DEF RulesTyped
<1>2. id \in Nat
  BY <1>1 DEF Protocols
<1> DEFINE early == ~c.finalized
<1>3. early \in BOOLEAN
  BY Zenon
<1> HIDE DEF early
<1>4. [proto |-> id, elem |-> elem, early |-> early] \in AskedElement
  BY <1>2, <1>3, Zenon DEF AskedElement
<1>5. Append(c.asked, [proto |-> id, elem |-> elem, early |-> early]) \in Seq(AskedElement)
  BY <1>1, <1>4
<1> QED
  BY <1>5, Zenon DEF Asked, early

\* A key.
LEMMA KeySound ==
    ASSUME NEW c, RulesSound(c), NEW id \in Protocols(c), NEW elem \in Element, elem.kind = "key"
    PROVE  RulesSound(ndpi_hash_add_entry(c, id, elem))
<1> DEFINE e == ndpi_hash_add_entry(c, id, elem)
<1>0. RulesTyped(c)
  BY Zenon DEF RulesSound
<1>1. /\ DOMAIN e = RuleFields /\ e.asked = Asked(c, id, elem)
      /\ e.proto_defaults = c.proto_defaults /\ e.nodes = c.nodes /\ e.hosts = c.hosts
      /\ e.finalized = c.finalized /\ e.tcpRoot = c.tcpRoot /\ e.udpRoot = c.udpRoot
      /\ e.guess = c.guess
  BY <1>0, Zenon DEF ndpi_hash_add_entry, RulesTyped, RuleFields
<1> HIDE DEF e
<1>2. RulesTyped(e)
  BY <1>0, <1>1, AskedType, Zenon DEF RulesTyped
<1>3. AskStep(c, e, id, elem)
  BY <1>0, <1>1, <1>2, Zenon DEF AskStep, SameProtocols, SameTrees, RulesSound
<1>4. elem.kind \notin L4 /\ elem.kind # "host"
  BY Zenon DEF L4
<1>5. RangesKept(e) /\ NodesSound(e) /\ HostsKept(e) /\ HostsSound(e)
  BY <1>1, <1>3, <1>4, RangesNext, NodesNext, HostsNext, SoundParts, Zenon
<1> QED
  BY <1>3, <1>5, AskedSound, Zenon DEF e

\* A host name, while the names can still be added.
LEMMA HostSound ==
    ASSUME NEW c, RulesSound(c), NEW id \in Protocols(c), NEW elem \in Element, elem.kind = "host",
           ~c.finalized
    PROVE  RulesSound(ndpi_add_host_url_subprotocol(c, id, elem))
<1> DEFINE e == ndpi_add_host_url_subprotocol(c, id, elem)
           h == elem.host
<1>0. RulesTyped(c)
  BY Zenon DEF RulesSound
<1>1. /\ DOMAIN e = RuleFields /\ e.asked = Asked(c, id, elem)
      /\ e.proto_defaults = c.proto_defaults /\ e.nodes = c.nodes
      /\ e.finalized = c.finalized /\ e.tcpRoot = c.tcpRoot /\ e.udpRoot = c.udpRoot
      /\ e.guess = c.guess
  BY <1>0, Zenon DEF ndpi_add_host_url_subprotocol, RulesTyped, RuleFields
<1>a. e.hosts = [host \in DOMAIN c.hosts \union {h} |->
                    IF host \in DOMAIN c.hosts THEN c.hosts[host] ELSE id]
  BY <1>0, Zenon DEF ndpi_add_host_url_subprotocol, RulesTyped, RuleFields
<1> HIDE DEF e, h
<1>2. RulesTyped(e)
  BY <1>0, <1>1, AskedType, Zenon DEF RulesTyped
<1>3. AskStep(c, e, id, elem)
  BY <1>0, <1>1, <1>2, Zenon DEF AskStep, SameProtocols, SameTrees, RulesSound
<1>4. elem.kind \notin L4
  BY Zenon DEF L4
<1>5. AskedMore(c, e, id, elem)
  BY <1>3, OneMoreAsked, Zenon
<1>6. \A host \in DOMAIN c.hosts : host \in DOMAIN e.hosts /\ e.hosts[host] = c.hosts[host]
  BY <1>a, Zenon
<1>7. h \in DOMAIN e.hosts /\ (h \notin DOMAIN c.hosts => e.hosts[h] = id)
  BY <1>a, Zenon
<1>8. \A n \in 1 .. Len(c.asked) : n \in 1 .. Len(e.asked) /\ e.asked[n] = c.asked[n]
  BY <1>5 DEF AskedMore
<1>9. HostsSound(e)
  <2>1. \A host : HostAsked(c, host) => HostAsked(e, host)
    BY <1>3, NamedNext, Zenon
  <2>2. Len(e.asked) \in 1 .. Len(e.asked)
    BY <1>5 DEF AskedMore
  <2>3. HostAsked(e, h)
    BY <2>2, <1>5, Zenon DEF AskedMore, HostAsked, IsHost, h
  <2>4. \A host \in DOMAIN e.hosts : host \in DOMAIN c.hosts \/ host = h
    BY <1>a, Zenon
  <2> QED
    BY <2>1, <2>3, <2>4, Zenon DEF RulesSound, HostsSound
<1>10. ASSUME NEW n \in 1 .. Len(e.asked), IsFirstHost(e, n)
       PROVE  /\ e.asked[n].elem.host \in DOMAIN e.hosts
              /\ e.hosts[e.asked[n].elem.host] = e.asked[n].proto
  <2>1. CASE n = Len(e.asked)
    <3>1. e.asked[n].elem = elem /\ e.asked[n].proto = id
      BY <1>5, <2>1, Zenon DEF AskedMore
    <3>2. \A m \in 1 .. Len(c.asked) : m \in 1 .. n - 1
      BY <1>5, <2>1 DEF AskedMore
    <3>3. ~HostAsked(c, h)
      BY <1>8, <1>10, <3>1, <3>2, Zenon DEF IsFirstHost, HostAsked, h
    <3>4. h \notin DOMAIN c.hosts
      BY <3>3, Zenon DEF RulesSound, HostsSound
    <3> QED
      BY <1>7, <3>1, <3>4, Zenon DEF h
  <2>2. CASE n # Len(e.asked)
    <3>1. n \in 1 .. Len(c.asked) /\ \A m \in 1 .. n - 1 : m \in 1 .. Len(c.asked)
      BY <1>5, <2>2 DEF AskedMore
    <3>2. IsFirstHost(c, n) /\ e.asked[n] = c.asked[n]
      BY <1>8, <1>10, <3>1, Zenon DEF IsFirstHost
    <3> QED
      BY <1>6, <3>1, <3>2, Zenon DEF RulesSound, HostsKept
  <2> QED
    BY <2>1, <2>2, Zenon
<1>11. RangesKept(e) /\ NodesSound(e)
  BY <1>1, <1>3, <1>4, RangesNext, NodesNext, SoundParts, Zenon
<1>12. HostsKept(e)
  BY <1>10, Zenon DEF HostsKept
<1> QED
  BY <1>3, <1>9, <1>11, <1>12, AskedSound, Zenon DEF e

\* What a network's node becomes when it takes an item.
NodeWith(c, net, item) ==
    LET old == IF net \in DOMAIN c.nodes THEN c.nodes[net] ELSE [uv16 |-> << >>, data |-> << >>]
    IN  IF Len(old.uv16) < UV16_MAX_USER_VALUES
        THEN [old EXCEPT !.uv16 = Append(@, item)]
        ELSE [old EXCEPT !.data = << item >> \o @]

OldOr(c, net, item, x) ==
    \/ x = item
    \/ /\ net \in DOMAIN c.nodes
       /\ \/ \E i \in 1 .. Len(c.nodes[net].uv16) : x = c.nodes[net].uv16[i]
          \/ \E i \in 1 .. Len(c.nodes[net].data) : x = c.nodes[net].data[i]

\* It holds the item and the ones it had.
LEMMA NodeItems ==
    ASSUME NEW c, NEW net, NEW item \in NodeItem, net \in DOMAIN c.nodes => c.nodes[net] \in NodeType
    PROVE  /\ NodeWith(c, net, item) \in NodeType
           /\ \A i \in 1 .. Len(NodeWith(c, net, item).uv16) :
                OldOr(c, net, item, NodeWith(c, net, item).uv16[i])
           /\ \A i \in 1 .. Len(NodeWith(c, net, item).data) :
                OldOr(c, net, item, NodeWith(c, net, item).data[i])
<1> DEFINE old == IF net \in DOMAIN c.nodes THEN c.nodes[net] ELSE [uv16 |-> << >>, data |-> << >>]
           new == NodeWith(c, net, item)
<1>1. old \in NodeType
  BY DEF NodeType
<1>2. \A x : /\ \A i \in 1 .. Len(old.uv16) : x = old.uv16[i] => OldOr(c, net, item, x)
             /\ \A i \in 1 .. Len(old.data) : x = old.data[i] => OldOr(c, net, item, x)
  <2>1. CASE net \in DOMAIN c.nodes
    BY <2>1, Zenon DEF OldOr
  <2>2. CASE net \notin DOMAIN c.nodes
    <3>1. Len(old.uv16) = 0 /\ Len(old.data) = 0
      BY <2>2, Zenon
    <3> HIDE DEF old
    <3> QED
      BY <3>1
  <2> QED
    BY <2>1, <2>2, Zenon
<1>3. new = IF Len(old.uv16) < UV16_MAX_USER_VALUES
            THEN [old EXCEPT !.uv16 = Append(@, item)]
            ELSE [old EXCEPT !.data = << item >> \o @]
  BY Zenon DEF NodeWith
<1> HIDE DEF old, new
<1>4. CASE Len(old.uv16) < UV16_MAX_USER_VALUES
  <2>1. new = [old EXCEPT !.uv16 = Append(old.uv16, item)]
    BY <1>3, <1>4, Zenon
  <2>2. new \in NodeType /\ new.data = old.data /\ new.uv16 = Append(old.uv16, item)
    <3> DEFINE longer == Append(old.uv16, item)
    <3>1. longer \in Seq(NodeItem)
      BY <1>1 DEF NodeType
    <3> HIDE DEF longer
    <3>2. new = [old EXCEPT !.uv16 = longer]
      BY <2>1, Zenon DEF longer
    <3>3. new \in NodeType /\ new.data = old.data /\ new.uv16 = longer
      BY <1>1, <3>1, <3>2, Zenon DEF NodeType
    <3> QED
      BY <3>3, Zenon DEF longer
  <2>3. ASSUME NEW i \in 1 .. Len(new.uv16) PROVE OldOr(c, net, item, new.uv16[i])
    <3>1. old.uv16 \in Seq(NodeItem)
      BY <1>1, Zenon DEF NodeType
    <3>2. CASE i = Len(old.uv16) + 1
      BY <2>2, <3>1, <3>2 DEF OldOr
    <3>3. CASE i \in 1 .. Len(old.uv16)
      <4>1. new.uv16[i] = old.uv16[i]
        BY <2>2, <3>1, <3>3
      <4> QED
        BY <1>2, <3>3, <4>1, Zenon
    <3> QED
      BY <2>2, <3>1, <3>2, <3>3
  <2> QED
    BY <1>2, <2>2, <2>3, Zenon DEF new
<1>5. CASE ~(Len(old.uv16) < UV16_MAX_USER_VALUES)
  <2>1. new = [old EXCEPT !.data = << item >> \o old.data]
    BY <1>3, <1>5, Zenon
  <2>2. new \in NodeType /\ new.uv16 = old.uv16 /\ new.data = << item >> \o old.data
    <3> DEFINE longer == << item >> \o old.data
    <3>1. longer \in Seq(NodeItem)
      <4>1. << item >> \in Seq(NodeItem) /\ old.data \in Seq(NodeItem)
        BY <1>1 DEF NodeType
      <4> QED
        BY <4>1
    <3> HIDE DEF longer
    <3>2. new = [old EXCEPT !.data = longer]
      BY <2>1, Zenon DEF longer
    <3>3. new \in NodeType /\ new.uv16 = old.uv16 /\ new.data = longer
      BY <1>1, <3>1, <3>2, Zenon DEF NodeType
    <3> QED
      BY <3>3, Zenon DEF longer
  <2>3. ASSUME NEW i \in 1 .. Len(new.data) PROVE OldOr(c, net, item, new.data[i])
    <3>1. old.data \in Seq(NodeItem)
      BY <1>1, Zenon DEF NodeType
    <3>2. CASE i = 1
      BY <2>2, <3>1, <3>2 DEF OldOr
    <3>3. CASE i # 1
      <4>1. i - 1 \in 1 .. Len(old.data) /\ new.data[i] = old.data[i - 1]
        BY <2>2, <3>1, <3>3
      <4> QED
        BY <1>2, <4>1, Zenon
    <3> QED
      BY <3>2, <3>3, Zenon
  <2> QED
    BY <1>2, <2>2, <2>3, Zenon DEF new
<1> QED
  BY <1>4, <1>5, Zenon

\* An address.
LEMMA AddressSound ==
    ASSUME NEW c, RulesSound(c), NEW id \in Protocols(c), NEW elem \in Element, elem.kind = "ip"
    PROVE  RulesSound(ndpi_add_host_ip_subprotocol(c, id, elem))
<1> DEFINE e == ndpi_add_host_ip_subprotocol(c, id, elem)
           own == elem.net
           item == [user_value |-> id, port |-> elem.port]
           node == NodeWith(c, own, item)
<1>0. RulesTyped(c)
  BY Zenon DEF RulesSound
<1>1. /\ DOMAIN e = RuleFields /\ e.asked = Asked(c, id, elem)
      /\ e.proto_defaults = c.proto_defaults /\ e.hosts = c.hosts
      /\ e.finalized = c.finalized /\ e.tcpRoot = c.tcpRoot /\ e.udpRoot = c.udpRoot
      /\ e.guess = c.guess
  BY <1>0, Zenon DEF ndpi_add_host_ip_subprotocol, RulesTyped, RuleFields
<1>2. e.nodes = [n \in DOMAIN c.nodes \union {own} |-> IF n = own THEN node ELSE c.nodes[n]]
  <2>1. e = [c EXCEPT !.nodes = [n \in DOMAIN @ \union {own} |-> IF n = own THEN node ELSE @[n]],
                      !.asked = Asked(c, id, elem)]
    BY Zenon DEF ndpi_add_host_ip_subprotocol, NodeWith
  <2> HIDE DEF e, node, own, item
  <2> QED
    BY <1>0, <2>1, Zenon DEF RulesTyped, RuleFields
<1>3. item \in NodeItem /\ item.user_value = id /\ item.port = elem.port
  <2>1. elem.port \in Nat
    BY ElementType, Zenon
  <2>2. id \in Nat
    <3>1. c.proto_defaults \in Seq(Protocol)
      BY <1>0, Zenon DEF RulesTyped
    <3> QED
      BY <3>1 DEF Protocols
  <2> QED
    BY <2>1, <2>2, Zenon DEF NodeItem
<1> HIDE DEF e, own, item, node
<1>4. /\ node \in NodeType
      /\ \A i \in 1 .. Len(node.uv16) : OldOr(c, own, item, node.uv16[i])
      /\ \A i \in 1 .. Len(node.data) : OldOr(c, own, item, node.data[i])
  BY <1>0, <1>3, NodeItems, Zenon DEF node, RulesTyped
<1>5. own \in DOMAIN e.nodes /\ e.nodes[own] = node
  BY <1>2, Zenon
<1>6. \A n \in DOMAIN e.nodes : n # own => n \in DOMAIN c.nodes /\ e.nodes[n] = c.nodes[n]
  BY <1>2, Zenon
<1>7. RulesTyped(e)
  <2>0. Len(own) \in Nat
    BY ElementType, Zenon DEF own
  <2>1. \A n \in DOMAIN e.nodes : e.nodes[n] \in NodeType /\ Len(n) \in Nat
    BY <1>0, <1>4, <1>5, <1>6, <2>0, Zenon DEF RulesTyped
  <2> QED
    BY <1>0, <1>1, <2>1, AskedType, Zenon DEF RulesTyped
<1>8. AskStep(c, e, id, elem)
  BY <1>0, <1>1, <1>7, Zenon DEF AskStep, SameProtocols, SameTrees, RulesSound
<1>9. AskedMore(c, e, id, elem)
  BY <1>8, OneMoreAsked, Zenon
<1>10. Protocols(e) = Protocols(c)
  BY <1>9, Zenon DEF AskedMore
<1>11. \A n, x : ItemSound(c, n, x) => ItemSound(e, n, x)
  <2>1. \A n, p, port : AddressAsked(c, n, p, port) => AddressAsked(e, n, p, port)
    BY <1>8, NamedNext, Zenon
  <2> QED
    BY <2>1, <1>10, Zenon DEF ItemSound
<1>12. ItemSound(e, own, item)
  <2>1. Len(e.asked) \in 1 .. Len(e.asked)
    BY <1>9 DEF AskedMore
  <2>2. AddressAsked(e, own, id, elem.port)
    BY <1>9, <2>1, Zenon DEF AskedMore, AddressAsked, own
  <2> QED
    BY <1>3, <1>10, <2>2, Zenon DEF ItemSound
<1>13. ASSUME NEW x, OldOr(c, own, item, x) PROVE ItemSound(e, own, x)
  BY <1>11, <1>12, <1>13, Zenon DEF OldOr, RulesSound, NodesSound
<1>14. ASSUME NEW n \in DOMAIN e.nodes
       PROVE  /\ \A i \in 1 .. Len(e.nodes[n].uv16) : ItemSound(e, n, e.nodes[n].uv16[i])
              /\ \A i \in 1 .. Len(e.nodes[n].data) : ItemSound(e, n, e.nodes[n].data[i])
  <2>1. CASE n = own
    BY <1>4, <1>5, <1>13, <2>1, Zenon
  <2>2. CASE n # own
    BY <1>6, <1>11, <2>2, Zenon DEF RulesSound, NodesSound
  <2> QED
    BY <2>1, <2>2, Zenon
<1>15. NodesSound(e)
  BY <1>14, Zenon DEF NodesSound
<1>16. elem.kind \notin L4 /\ elem.kind # "host"
  BY Zenon DEF L4
<1>17. RangesKept(e) /\ HostsKept(e) /\ HostsSound(e)
  BY <1>1, <1>8, <1>16, RangesNext, HostsNext, SoundParts, Zenon
<1> QED
  BY <1>8, <1>15, <1>17, AskedSound, Zenon DEF e

\* e has one range more than c, when there was room for it.
RangeStored(c, e, id, elem) ==
    /\ \A own \in Protocols(c), l4 \in L4 :
         own # id \/ l4 # elem.kind => RangesOf(e, own, l4) = RangesOf(c, own, l4)
    /\ RangesOf(c, id, elem.kind) \in Seq(PortRange)
    /\ RangesOf(e, id, elem.kind) =
         StoreRange(RangesOf(c, id, elem.kind),
                    [port_low |-> elem.low, port_high |-> elem.high, is_custom |-> TRUE])

\* A port is stored with its protocol, and nowhere else.
LEMMA PortStored ==
    ASSUME NEW c, RulesTyped(c), NEW id \in Protocols(c), NEW elem \in Element, elem.kind \in L4
    PROVE  /\ RangeStored(c, PortElement(c, id, elem), id, elem)
           /\ PortElement(c, id, elem).proto_defaults \in Seq(Protocol)
           /\ SameProtocols(c, PortElement(c, id, elem))
<1> DEFINE e == PortElement(c, id, elem)
           range == [port_low |-> elem.low, port_high |-> elem.high, is_custom |-> TRUE]
           slots == c.proto_defaults[id]
           more == IF elem.kind = "tcp" THEN [slots EXCEPT !.tcp = StoreRange(slots.tcp, range)]
                   ELSE [slots EXCEPT !.udp = StoreRange(slots.udp, range)]
           N == Len(c.proto_defaults)
<1>0. c.proto_defaults \in Seq(Protocol) /\ id \in 1 .. N
  BY Zenon DEF RulesTyped, Protocols
<1>1. c.proto_defaults \in Seq(Protocol) /\ id \in 1 .. N /\ N \in Nat
  BY <1>0
<1>2. slots \in Protocol
  BY <1>1
<1>3. range \in PortRange
  <2>1. elem.low \in Nat /\ elem.high \in Nat
    BY ElementType, Zenon
  <2> QED
    BY <2>1, Zenon DEF PortRange
<1>4. e.proto_defaults = [c.proto_defaults EXCEPT ![id] = more]
  <2>1. e = [c EXCEPT !.proto_defaults[id] = more, !.asked = Asked(c, id, elem)]
    BY Zenon DEF PortElement
  <2> HIDE DEF e, more
  <2> QED
    BY <1>1, <2>1, Zenon DEF RulesTyped, RuleFields
<1>5. \A s \in Seq(PortRange) : StoreRange(s, range) \in Seq(PortRange)
  <2> HIDE DEF range
  <2> QED
    BY <1>3 DEF StoreRange
<1>6. more \in Protocol /\ more.isCustomProto = slots.isCustomProto
  <2>1. StoreRange(slots.tcp, range) \in Seq(PortRange) /\ StoreRange(slots.udp, range) \in Seq(PortRange)
    BY <1>2, <1>5, Zenon DEF Protocol
  <2> HIDE DEF slots, range
  <2> QED
    BY <1>2, <2>1, Zenon DEF Protocol
<1>7. /\ elem.kind = "tcp" => more.tcp = StoreRange(slots.tcp, range) /\ more.udp = slots.udp
      /\ elem.kind = "udp" => more.udp = StoreRange(slots.udp, range) /\ more.tcp = slots.tcp
  <2> HIDE DEF slots, range
  <2> QED
    BY <1>2, Zenon DEF Protocol
<1> HIDE DEF e, range, slots, more
<1>8. /\ e.proto_defaults \in Seq(Protocol) /\ Len(e.proto_defaults) = N
      /\ e.proto_defaults[id] = more
      /\ \A own \in 1 .. N : own # id => e.proto_defaults[own] = c.proto_defaults[own]
  BY <1>1, <1>4, <1>6
<1>9. SameProtocols(c, e)
  BY <1>6, <1>8, Zenon DEF SameProtocols, Protocols, slots
<1>10. \A own \in Protocols(c), l4 \in L4 :
         own # id \/ l4 # elem.kind => RangesOf(e, own, l4) = RangesOf(c, own, l4)
  BY <1>7, <1>8, Zenon DEF RangesOf, Protocols, slots, L4
<1>11. /\ RangesOf(c, id, elem.kind) \in Seq(PortRange)
       /\ RangesOf(e, id, elem.kind) = StoreRange(RangesOf(c, id, elem.kind), range)
  BY <1>2, <1>7, <1>8, Zenon DEF RangesOf, slots, L4, Protocol
<1> QED
  BY <1>8, <1>9, <1>10, <1>11, Zenon DEF RangeStored, e, range

\* A range that was stored is the last of the slots.
LEMMA StoredSlots ==
    ASSUME NEW s \in Seq(PortRange), NEW range \in PortRange
    PROVE  /\ StoreRange(s, range) \in Seq(PortRange)
           /\ Len(s) <= Len(StoreRange(s, range)) /\ Len(StoreRange(s, range)) <= Len(s) + 1
           /\ \A j \in 1 .. Len(s) : StoreRange(s, range)[j] = s[j]
           /\ \A j \in 1 .. Len(StoreRange(s, range)) :
                j \in 1 .. Len(s) \/ StoreRange(s, range)[j] = range
           /\ range.port_low = 0 => StoreRange(s, range) = s
           /\ range.port_low # 0 /\ Len(s) < MAX_DEFAULT_PORTS =>
                /\ Len(StoreRange(s, range)) = Len(s) + 1
                /\ StoreRange(s, range)[Len(s) + 1] = range
<1>1. CASE Len(s) < MAX_DEFAULT_PORTS /\ range.port_low # 0
  <2>1. StoreRange(s, range) = Append(s, range)
    BY <1>1, Zenon DEF StoreRange
  <2> QED
    BY <1>1, <2>1
<1>2. CASE ~(Len(s) < MAX_DEFAULT_PORTS /\ range.port_low # 0)
  <2>1. StoreRange(s, range) = s
    BY <1>2, Zenon DEF StoreRange
  <2> QED
    BY <1>2, <2>1
<1> QED
  BY <1>1, <1>2, Zenon

CountsMore(c, e, id, elem, own, l4) ==
    /\ Cardinality(AskedFor(c, own, l4)) \in Nat /\ Cardinality(AskedFor(e, own, l4)) \in Nat
    /\ Cardinality(AskedFor(c, own, l4)) <= Cardinality(AskedFor(e, own, l4))
    /\ own = id /\ l4 = elem.kind /\ elem.low # 0 =>
         Cardinality(AskedFor(e, own, l4)) = Cardinality(AskedFor(c, own, l4)) + 1

\* Asking for a port once more counts one more, for its protocol and transport.
LEMMA AskedForNext ==
    ASSUME NEW c, NEW e, NEW id, NEW elem, AskStep(c, e, id, elem), NEW own, NEW l4
    PROVE  CountsMore(c, e, id, elem, own, l4)
<1> DEFINE A == AskedFor(c, own, l4)
           B == AskedFor(e, own, l4)
           n == Len(e.asked)
<1>0. AskedMore(c, e, id, elem)
  BY OneMoreAsked, Zenon
<1>1. n \in Nat /\ n \in 1 .. n /\ Len(c.asked) \in Nat /\ n \notin 1 .. Len(c.asked)
  BY <1>0 DEF AskedMore
<1>2. A \subseteq 1 .. Len(c.asked) /\ B \subseteq 1 .. n
  BY Zenon DEF AskedFor
<1>3. IsFiniteSet(1 .. n)
  BY <1>1, FS_Interval
<1>4. A \subseteq B
  BY <1>0 DEF AskedFor, AskedMore
<1> HIDE DEF A, B, n
<1>5. IsFiniteSet(B)
  BY <1>2, <1>3, FS_Subset, Zenon
<1>6. IsFiniteSet(A) /\ Cardinality(A) <= Cardinality(B)
  BY <1>4, <1>5, FS_Subset, Zenon
<1>7. Cardinality(A) \in Nat /\ Cardinality(B) \in Nat
  BY <1>5, <1>6, FS_CardinalityType, Zenon
<1>8. ASSUME own = id, l4 = elem.kind, elem.low # 0
      PROVE  Cardinality(B) = Cardinality(A) + 1
  <2>1. n \in B
    BY <1>0, <1>1, <1>8, Zenon DEF AskedMore, B, n, AskedFor, IsPort
  <2>2. \A m \in B : m = n \/ m \in A
    BY <1>0 DEF AskedMore, A, B, n, AskedFor
  <2>3. n \notin A
    BY <1>1, <1>2, Zenon
  <2>4. B = A \union {n}
    BY <1>4, <2>1, <2>2, Zenon
  <2> QED
    BY <1>6, <2>3, <2>4, FS_AddElement, Zenon
<1> QED
  BY <1>6, <1>7, <1>8, Zenon DEF A, B, CountsMore

\* The range that an element asks for.
AsRange(elem) == [port_low |-> elem.low, port_high |-> elem.high, is_custom |-> TRUE]

\* Every range of a transport is kept, and one is new at most.
SlotsGrow(c, e, id, elem) ==
    \A own \in Protocols(c), l4 \in L4 :
        /\ \A j \in 1 .. Len(RangesOf(c, own, l4)) :
             /\ j \in 1 .. Len(RangesOf(e, own, l4))
             /\ RangesOf(e, own, l4)[j] = RangesOf(c, own, l4)[j]
        /\ \A j \in 1 .. Len(RangesOf(e, own, l4)) :
             \/ j \in 1 .. Len(RangesOf(c, own, l4)) /\ RangesOf(e, own, l4)[j] = RangesOf(c, own, l4)[j]
             \/ own = id /\ l4 = elem.kind /\ RangesOf(e, own, l4)[j] = AsRange(elem)

\* The slots of a protocol, before and after a port.
LEMMA SlotsNext ==
    ASSUME NEW c, NEW e, NEW id \in Protocols(c), NEW elem \in Element, elem.kind \in L4,
           RangeStored(c, e, id, elem)
    PROVE  /\ SlotsGrow(c, e, id, elem)
           /\ Len(RangesOf(c, id, elem.kind)) \in Nat /\ Len(RangesOf(e, id, elem.kind)) \in Nat
           /\ Len(RangesOf(e, id, elem.kind)) <= Len(RangesOf(c, id, elem.kind)) + 1
           /\ elem.low = 0 => Len(RangesOf(e, id, elem.kind)) <= Len(RangesOf(c, id, elem.kind))
           /\ elem.low # 0 /\ Len(RangesOf(c, id, elem.kind)) < MAX_DEFAULT_PORTS =>
                HasRange(e, id, elem)
<1> DEFINE s == RangesOf(c, id, elem.kind)
           t == RangesOf(e, id, elem.kind)
           range == AsRange(elem)
<1>1. range \in PortRange /\ range.port_low = elem.low /\ range.port_high = elem.high
  <2>1. elem.low \in Nat /\ elem.high \in Nat
    BY ElementType, Zenon
  <2> QED
    BY <2>1, Zenon DEF PortRange, AsRange
<1>2. s \in Seq(PortRange) /\ t = StoreRange(s, range)
  BY Zenon DEF RangeStored, AsRange
<1> HIDE DEF s, t, range
<1>3. /\ t \in Seq(PortRange) /\ Len(s) <= Len(t) /\ Len(t) <= Len(s) + 1
      /\ \A j \in 1 .. Len(s) : t[j] = s[j]
      /\ \A j \in 1 .. Len(t) : j \in 1 .. Len(s) \/ t[j] = range
      /\ range.port_low = 0 => t = s
      /\ range.port_low # 0 /\ Len(s) < MAX_DEFAULT_PORTS => Len(t) = Len(s) + 1 /\ t[Len(s) + 1] = range
  BY <1>1, <1>2, StoredSlots
<1>4. Len(s) \in Nat /\ Len(t) \in Nat
  BY <1>2, <1>3
<1>5. /\ \A j \in 1 .. Len(s) : j \in 1 .. Len(t) /\ t[j] = s[j]
      /\ \A j \in 1 .. Len(t) : (j \in 1 .. Len(s) /\ t[j] = s[j]) \/ t[j] = range
  BY <1>3, <1>4
<1>6. SlotsGrow(c, e, id, elem)
  <2> SUFFICES ASSUME NEW own \in Protocols(c), NEW l4 \in L4
               PROVE  /\ \A j \in 1 .. Len(RangesOf(c, own, l4)) :
                           /\ j \in 1 .. Len(RangesOf(e, own, l4))
                           /\ RangesOf(e, own, l4)[j] = RangesOf(c, own, l4)[j]
                      /\ \A j \in 1 .. Len(RangesOf(e, own, l4)) :
                           \/ /\ j \in 1 .. Len(RangesOf(c, own, l4))
                              /\ RangesOf(e, own, l4)[j] = RangesOf(c, own, l4)[j]
                           \/ own = id /\ l4 = elem.kind /\ RangesOf(e, own, l4)[j] = AsRange(elem)
    BY Zenon DEF SlotsGrow
  <2>1. CASE own = id /\ l4 = elem.kind
    BY <1>5, <2>1, Zenon DEF s, t, range
  <2>2. CASE ~(own = id /\ l4 = elem.kind)
    <3>1. RangesOf(e, own, l4) = RangesOf(c, own, l4)
      BY <2>2, Zenon DEF RangeStored
    <3> QED
      BY <3>1, Zenon
  <2> QED
    BY <2>1, <2>2, Zenon
<1>7. elem.low = 0 => Len(t) <= Len(s)
  BY <1>1, <1>3, <1>4, Zenon
<1>8. ASSUME elem.low # 0, Len(s) < MAX_DEFAULT_PORTS
      PROVE  \E j \in 1 .. Len(t) : t[j].port_low = elem.low /\ t[j].port_high = elem.high
  <2>1. Len(s) + 1 \in 1 .. Len(t) /\ t[Len(s) + 1] = range
    BY <1>1, <1>3, <1>4, <1>8
  <2> QED
    BY <1>1, <2>1, Zenon
<1> QED
  BY <1>3, <1>4, <1>6, <1>7, <1>8, Zenon DEF s, t, HasRange

\* A port: what is stored was asked, what was asked while there was room is stored.
LEMMA PortSound ==
    ASSUME NEW c, RulesSound(c), NEW id \in Protocols(c), NEW elem \in Element, elem.kind \in L4
    PROVE  RulesSound(PortElement(c, id, elem))
<1> DEFINE e == PortElement(c, id, elem)
<1>0. RulesTyped(c)
  BY Zenon DEF RulesSound
<1>1. /\ DOMAIN e = RuleFields /\ e.asked = Asked(c, id, elem)
      /\ e.nodes = c.nodes /\ e.hosts = c.hosts
      /\ e.finalized = c.finalized /\ e.tcpRoot = c.tcpRoot /\ e.udpRoot = c.udpRoot
      /\ e.guess = c.guess
  BY <1>0, Zenon DEF PortElement, RulesTyped, RuleFields
<1>2. /\ RangeStored(c, e, id, elem) /\ e.proto_defaults \in Seq(Protocol) /\ SameProtocols(c, e)
  BY <1>0, PortStored, Zenon
<1> HIDE DEF e
<1>3. RulesTyped(e)
  BY <1>0, <1>1, <1>2, AskedType, Zenon DEF RulesTyped
<1>4. AskStep(c, e, id, elem)
  BY <1>0, <1>1, <1>2, <1>3, Zenon DEF AskStep, SameTrees, RulesSound
<1>5. AskedMore(c, e, id, elem)
  BY <1>4, OneMoreAsked, Zenon
<1>6. SlotsGrow(c, e, id, elem)
  BY <1>2, SlotsNext, Zenon
<1>7. Protocols(e) = Protocols(c) /\ Len(e.asked) \in 1 .. Len(e.asked)
  BY <1>5 DEF AskedMore
<1>8. RangesSound(e)
  <2> SUFFICES ASSUME NEW own \in Protocols(c), NEW l4 \in L4, NEW j \in 1 .. Len(RangesOf(e, own, l4))
               PROVE  RangeSound(e, own, l4, RangesOf(e, own, l4)[j])
    BY <1>7, Zenon DEF RangesSound
  <2>1. \A low, high : PortAsked(c, l4, low, high) => PortAsked(e, l4, low, high)
    BY <1>4, NamedNext, Zenon
  <2>2. CASE j \in 1 .. Len(RangesOf(c, own, l4)) /\ RangesOf(e, own, l4)[j] = RangesOf(c, own, l4)[j]
    BY <2>1, <2>2, Zenon DEF RulesSound, RangesSound, RangeSound
  <2>3. CASE own = id /\ l4 = elem.kind /\ RangesOf(e, own, l4)[j] = AsRange(elem)
    <3>1. PortAsked(e, l4, elem.low, elem.high)
      BY <1>5, <1>7, <2>3, Zenon DEF AskedMore, PortAsked
    <3>2. AsRange(elem).port_low = elem.low /\ AsRange(elem).port_high = elem.high
      BY Zenon DEF AsRange
    <3> QED
      BY <2>3, <3>1, <3>2, Zenon DEF RangeSound
  <2> QED
    BY <1>6, <2>2, <2>3, Zenon DEF SlotsGrow
<1>9. SlotsCounted(e)
  <2> SUFFICES ASSUME NEW own \in Protocols(c), NEW l4 \in L4, IsOwn(own)
               PROVE  Len(RangesOf(e, own, l4)) <= Cardinality(AskedFor(e, own, l4))
    BY <1>7, Zenon DEF SlotsCounted
  <2> DEFINE K == Cardinality(AskedFor(c, own, l4))
             M == Cardinality(AskedFor(e, own, l4))
             A == Len(RangesOf(c, own, l4))
             B == Len(RangesOf(e, own, l4))
  <2>1. K \in Nat /\ M \in Nat /\ K <= M /\ (own = id /\ l4 = elem.kind /\ elem.low # 0 => M = K + 1)
    <3>1. CountsMore(c, e, id, elem, own, l4)
      BY <1>4, AskedForNext, Zenon
    <3> QED
      BY <3>1, Zenon DEF CountsMore
  <2>2. A <= K
    BY Zenon DEF RulesSound, SlotsCounted
  <2>3. CASE own = id /\ l4 = elem.kind
    <3>1. A \in Nat /\ B \in Nat /\ B <= A + 1 /\ (elem.low = 0 => B <= A)
      BY <1>2, <2>3, SlotsNext, Zenon
    <3> HIDE DEF A, B, K, M
    <3>2. B <= M
      BY <2>1, <2>2, <2>3, <3>1
    <3> QED
      BY <3>2, Zenon DEF B, M
  <2>4. CASE ~(own = id /\ l4 = elem.kind)
    <3>1. B = A
      BY <1>2, <2>4, Zenon DEF RangeStored
    <3>2. A \in Nat
      <4>1. c.proto_defaults \in Seq(Protocol)
        BY <1>0, Zenon DEF RulesTyped
      <4>2. c.proto_defaults[own] \in Protocol
        BY <4>1 DEF Protocols
      <4>3. RangesOf(c, own, l4) \in Seq(PortRange)
        BY <4>2, Zenon DEF Protocol, RangesOf
      <4> QED
        BY <4>3
    <3> HIDE DEF A, B, K, M
    <3>3. B <= M
      BY <2>1, <2>2, <3>1, <3>2
    <3> QED
      BY <3>3, Zenon DEF B, M
  <2> QED
    BY <2>3, <2>4, Zenon
<1>10. ASSUME NEW own \in Protocols(c), NEW x, x.kind \in L4, HasRange(c, own, x)
       PROVE  HasRange(e, own, x)
  <2> DEFINE s == RangesOf(c, own, x.kind)
             t == RangesOf(e, own, x.kind)
  <2>1. PICK j \in 1 .. Len(s) : s[j].port_low = x.low /\ s[j].port_high = x.high
    BY <1>10, Zenon DEF HasRange
  <2>2. j \in 1 .. Len(t) /\ t[j] = s[j]
    BY <1>6, <1>10, <2>1, Zenon DEF SlotsGrow
  <2> QED
    BY <2>1, <2>2, Zenon DEF HasRange
<1>11. ASSUME NEW n \in 1 .. Len(e.asked), OwnPort(e, n)
       PROVE  HasRange(e, e.asked[n].proto, e.asked[n].elem)
  <2>1. CASE n = Len(e.asked)
    <3>1. e.asked[n].proto = id /\ e.asked[n].elem = elem
      BY <1>5, <2>1, Zenon DEF AskedMore
    <3>2. elem.low # 0 /\ ndpi_is_custom_protocol(e, id) /\ Cardinality(Earlier(e, n)) < MAX_DEFAULT_PORTS
      BY <1>11, <3>1, Zenon DEF OwnPort, IsPort
    <3>3. IsOwn(id)
      <4>1. OwnAreLast(e)
        BY <1>4, KnownNext, Zenon
      <4> QED
        BY <1>7, <3>2, <4>1, Zenon DEF OwnAreLast, ndpi_is_custom_protocol
    <3>4. Earlier(e, n) = AskedFor(c, id, elem.kind)
      <4>1. 1 .. n - 1 = 1 .. Len(c.asked)
        BY <1>5, <2>1 DEF AskedMore
      <4>2. \A m \in 1 .. Len(c.asked) : e.asked[m] = c.asked[m]
        BY <1>5, Zenon DEF AskedMore
      <4> QED
        BY <3>1, <4>1, <4>2, Zenon DEF Earlier, AskedFor
    <3> DEFINE A == Len(RangesOf(c, id, elem.kind))
               K == Cardinality(AskedFor(c, id, elem.kind))
    <3>5. A <= K
      BY <3>3, Zenon DEF RulesSound, SlotsCounted
    <3>6. K < MAX_DEFAULT_PORTS
      BY <3>2, <3>4, Zenon
    <3>7. A \in Nat
      BY <1>2, SlotsNext, Zenon
    <3>8. K \in Nat
      BY <1>4, AskedForNext, Zenon DEF CountsMore
    <3>9. MAX_DEFAULT_PORTS \in Nat
      BY RulesAssumption, Zenon
    <3>10. A < MAX_DEFAULT_PORTS
      <4> HIDE DEF A, K
      <4> QED
        BY <3>5, <3>6, <3>7, <3>8, <3>9
    <3>11. HasRange(e, id, elem)
      BY <1>2, <3>2, <3>10, SlotsNext, Zenon
    <3> QED
      BY <3>1, <3>11, Zenon
  <2>2. CASE n # Len(e.asked)
    <3>1. n \in 1 .. Len(c.asked)
      BY <1>5, <2>2 DEF AskedMore
    <3>2. e.asked[n] = c.asked[n]
      BY <1>5, <3>1, Zenon DEF AskedMore
    <3>3. SameOwnPort(c, e, n)
      BY <1>4, <3>1, OwnPortNext, Zenon
    <3>4. HasRange(c, c.asked[n].proto, c.asked[n].elem)
      BY <1>11, <3>1, <3>3, Zenon DEF RulesSound, PortsStored, SameOwnPort
    <3>5. c.asked[n].elem.kind \in L4 /\ c.asked[n].proto \in Protocols(c)
      BY <1>11, <3>1, <3>2, Zenon DEF OwnPort, IsPort, L4, RulesSound, AskedKnown
    <3> QED
      BY <1>10, <3>2, <3>4, <3>5, Zenon
  <2> QED
    BY <2>1, <2>2, Zenon
<1>12. elem.kind # "host"
  BY Zenon DEF L4
<1>13. NodesSound(e) /\ HostsKept(e) /\ HostsSound(e)
  BY <1>1, <1>4, <1>12, NodesNext, HostsNext, SoundParts, Zenon
<1>14. RangesKept(e)
  BY <1>8, <1>9, <1>11, Zenon DEF RangesKept, PortsStored
<1> QED
  BY <1>4, <1>13, <1>14, AskedSound, Zenon DEF e
-----------------------------------------------------------------------------
(* A rule.                                                                 *)

\* A rule that is being handled: the state is sound, and its protocol known.
InRule(state) ==
    /\ DOMAIN state = {"c", "id", "ended"}
    /\ RulesSound(state.c) /\ state.id \in Protocols(state.c)

\* One element leaves the state sound.
LEMMA ElementSound ==
    ASSUME NEW state, InRule(state), NEW elem \in Element
    PROVE  InRule(HandleElement(state, elem))
<1> DEFINE c == state.c
           id == state.id
           new == HandleElement(state, elem)
<1>0. RulesSound(c) /\ RulesTyped(c) /\ id \in Protocols(c) /\ DOMAIN state = {"c", "id", "ended"}
  BY Zenon DEF InRule, RulesSound
<1>1. CASE state.ended
  BY <1>1, Zenon DEF HandleElement
<1>2. CASE ~state.ended /\ elem.kind \in L4
  <2> DEFINE e == PortElement(c, id, elem)
  <2>1. new = [state EXCEPT !.c = e]
    BY <1>2, Zenon DEF HandleElement, L4
  <2>2. RulesSound(e)
    BY <1>0, <1>2, PortSound, Zenon
  <2>3. SameProtocols(c, e)
    BY <1>0, <1>2, PortStored, Zenon
  <2>4. id \in Protocols(e)
    BY <1>0, <2>3, Zenon DEF SameProtocols, Protocols
  <2> HIDE DEF e, new
  <2>5. InRule(new)
    BY <1>0, <2>1, <2>2, <2>4, Zenon DEF InRule
  <2> QED
    BY <2>5, Zenon DEF new
<1>3. CASE ~state.ended /\ elem.kind = "ip"
  <2> DEFINE e == ndpi_add_host_ip_subprotocol(c, id, elem)
  <2>1. new = [state EXCEPT !.c = e]
    BY <1>3, Zenon DEF HandleElement
  <2>2. RulesSound(e)
    BY <1>0, <1>3, AddressSound, Zenon
  <2>3. e.proto_defaults = c.proto_defaults
    BY <1>0, Zenon DEF ndpi_add_host_ip_subprotocol, RulesTyped, RuleFields
  <2>4. id \in Protocols(e)
    BY <1>0, <2>3, Zenon DEF Protocols
  <2> HIDE DEF e, new
  <2>5. InRule(new)
    BY <1>0, <2>1, <2>2, <2>4, Zenon DEF InRule
  <2> QED
    BY <2>5, Zenon DEF new
<1>4. CASE ~state.ended /\ elem.kind = "key"
  <2> DEFINE e == ndpi_hash_add_entry(c, id, elem)
             old == elem.key \in DOMAIN c.keys
  <2>1. new = [state EXCEPT !.c = e, !.ended = old]
    BY <1>4, Zenon DEF HandleElement
  <2>2. RulesSound(e)
    BY <1>0, <1>4, KeySound, Zenon
  <2>3. e.proto_defaults = c.proto_defaults
    BY <1>0, Zenon DEF ndpi_hash_add_entry, RulesTyped, RuleFields
  <2>4. id \in Protocols(e)
    BY <1>0, <2>3, Zenon DEF Protocols
  <2> HIDE DEF e, new, old
  <2>5. InRule(new)
    BY <1>0, <2>1, <2>2, <2>4, Zenon DEF InRule
  <2> QED
    BY <2>5, Zenon DEF new
<1>5. CASE ~state.ended /\ elem.kind = "host" /\ ~c.finalized
  <2> DEFINE e == ndpi_add_host_url_subprotocol(c, id, elem)
  <2>1. new = [state EXCEPT !.c = e]
    BY <1>5, Zenon DEF HandleElement
  <2>2. RulesSound(e)
    BY <1>0, <1>5, HostSound, Zenon
  <2>3. e.proto_defaults = c.proto_defaults
    BY <1>0, Zenon DEF ndpi_add_host_url_subprotocol, RulesTyped, RuleFields
  <2>4. id \in Protocols(e)
    BY <1>0, <2>3, Zenon DEF Protocols
  <2> HIDE DEF e, new
  <2>5. InRule(new)
    BY <1>0, <2>1, <2>2, <2>4, Zenon DEF InRule
  <2> QED
    BY <2>5, Zenon DEF new
<1>6. CASE /\ ~state.ended /\ elem.kind \notin L4 /\ elem.kind # "ip" /\ elem.kind # "key"
           /\ ~(elem.kind = "host" /\ ~c.finalized)
  <2>1. new = [state EXCEPT !.ended = TRUE]
    BY <1>6, Zenon DEF HandleElement, L4
  <2> HIDE DEF new
  <2>2. InRule(new)
    BY <1>0, <2>1, Zenon DEF InRule
  <2> QED
    BY <2>2, Zenon DEF new
<1> QED
  BY <1>1, <1>2, <1>3, <1>4, <1>5, <1>6, Zenon

\* e is c with a protocol of its own added.
ProtocolStep(c, e) ==
    /\ RulesTyped(c) /\ RulesTyped(e) /\ OwnAreLast(c) /\ AskedKnown(c)
    /\ Len(e.proto_defaults) = Len(c.proto_defaults) + 1
    /\ \A id \in Protocols(c) : e.proto_defaults[id] = c.proto_defaults[id]
    /\ e.proto_defaults[Len(e.proto_defaults)].isCustomProto
    /\ Len(e.proto_defaults[Len(e.proto_defaults)].tcp) = 0
    /\ Len(e.proto_defaults[Len(e.proto_defaults)].udp) = 0
    /\ e.asked = c.asked /\ e.nodes = c.nodes /\ e.hosts = c.hosts
    /\ SameTrees(c, e)

\* The protocols that were known stay as they are.
LEMMA MoreProtocols ==
    ASSUME NEW c, NEW e, ProtocolStep(c, e)
    PROVE  /\ \A id \in Protocols(c) : id \in Protocols(e)
           /\ \A id \in Protocols(e) : id \in Protocols(c) \/ id = Len(e.proto_defaults)
           /\ \A id \in Protocols(c) : ndpi_is_custom_protocol(e, id) <=> ndpi_is_custom_protocol(c, id)
           /\ \A id \in Protocols(c) : \A l4 : RangesOf(e, id, l4) = RangesOf(c, id, l4)
           /\ Len(e.proto_defaults) \in Protocols(e)
<1>1. c.proto_defaults \in Seq(Protocol) /\ e.proto_defaults \in Seq(Protocol)
  BY Zenon DEF ProtocolStep, RulesTyped
<1>2. Len(e.proto_defaults) = Len(c.proto_defaults) + 1
  BY Zenon DEF ProtocolStep
<1>3. /\ \A id \in Protocols(c) : id \in Protocols(e)
      /\ \A id \in Protocols(e) : id \in Protocols(c) \/ id = Len(e.proto_defaults)
      /\ Len(e.proto_defaults) \in Protocols(e)
  BY <1>1, <1>2 DEF Protocols
<1>4. DOMAIN c.proto_defaults = Protocols(c) /\ DOMAIN e.proto_defaults = Protocols(e)
  BY <1>1 DEF Protocols
<1>5. \A id \in Protocols(c) : e.proto_defaults[id] = c.proto_defaults[id]
  BY Zenon DEF ProtocolStep
<1>6. \A id \in Protocols(c) : ndpi_is_custom_protocol(e, id) <=> ndpi_is_custom_protocol(c, id)
  BY <1>3, <1>4, <1>5, Zenon DEF ndpi_is_custom_protocol
<1>7. \A id \in Protocols(c) : \A l4 : RangesOf(e, id, l4) = RangesOf(c, id, l4)
  BY <1>5, Zenon DEF RangesOf
<1> QED
  BY <1>3, <1>6, <1>7, Zenon

\* A new protocol has nothing yet.
LEMMA ProtocolSound ==
    ASSUME NEW c, NEW e, ProtocolStep(c, e), RulesSound(c)
    PROVE  RulesSound(e)
<1> DEFINE N == Len(e.proto_defaults)
<1>1. /\ \A id \in Protocols(c) : id \in Protocols(e)
      /\ \A id \in Protocols(e) : id \in Protocols(c) \/ id = N
      /\ N \in Protocols(e)
  BY MoreProtocols, Zenon
<1>2. \A id \in Protocols(c) : ndpi_is_custom_protocol(e, id) <=> ndpi_is_custom_protocol(c, id)
  BY MoreProtocols, Zenon
<1>3. \A id \in Protocols(c) : \A l4 : RangesOf(e, id, l4) = RangesOf(c, id, l4)
  BY MoreProtocols, Zenon
<1>4. e.asked = c.asked /\ e.nodes = c.nodes /\ e.hosts = c.hosts /\ SameTrees(c, e)
  BY Zenon DEF ProtocolStep
<1>5. OwnAreLast(e)
  <2>0. c.proto_defaults \in Seq(Protocol) /\ Len(BuiltIn) \in Nat
    <3>1. BuiltIn \in Seq([name : STRING, tcp : Seq(DefaultRange), udp : Seq(DefaultRange)])
      BY RulesAssumption, Zenon
    <3>2. c.proto_defaults \in Seq(Protocol)
      BY Zenon DEF ProtocolStep, RulesTyped
    <3> QED
      BY <3>1, <3>2
  <2>1. Len(c.proto_defaults) >= Len(BuiltIn) /\ N = Len(c.proto_defaults) + 1
    BY Zenon DEF ProtocolStep, OwnAreLast
  <2>2. N > Len(BuiltIn) /\ N >= Len(BuiltIn)
    BY <2>0, <2>1
  <2>3. e.proto_defaults[N].isCustomProto
    BY Zenon DEF ProtocolStep
  <2>4. \A id \in Protocols(c) : e.proto_defaults[id].isCustomProto <=> IsOwn(id)
    BY Zenon DEF ProtocolStep, OwnAreLast
  <2> QED
    BY <1>1, <2>2, <2>3, <2>4, Zenon DEF OwnAreLast, IsOwn
<1>6. AskedKnown(e)
  BY <1>1, <1>4, Zenon DEF ProtocolStep, AskedKnown
<1>7. /\ \A l4, low, high : PortAsked(e, l4, low, high) <=> PortAsked(c, l4, low, high)
      /\ \A net, own, port : AddressAsked(e, net, own, port) <=> AddressAsked(c, net, own, port)
      /\ \A host : HostAsked(e, host) <=> HostAsked(c, host)
      /\ \A l4, p : PortNamed(e, l4, p) <=> PortNamed(c, l4, p)
      /\ \A own, l4 : AskedFor(e, own, l4) = AskedFor(c, own, l4)
      /\ \A n : Earlier(e, n) = Earlier(c, n)
  BY <1>4, Zenon DEF PortAsked, AddressAsked, HostAsked, PortNamed, AskedFor, Earlier
<1>8. \A n \in 1 .. Len(c.asked) : OwnPort(e, n) <=> OwnPort(c, n)
  <2>1. \A n \in 1 .. Len(c.asked) : c.asked[n].proto \in Protocols(c)
    BY Zenon DEF ProtocolStep, AskedKnown
  <2> QED
    BY <1>2, <1>4, <1>7, <2>1, Zenon DEF OwnPort
<1>9. \A l4 \in L4 : Len(RangesOf(e, N, l4)) = 0
  BY Zenon DEF RangesOf, ProtocolStep
<1>10. RangesSound(e)
  <2>1. ASSUME NEW id \in Protocols(c), NEW l4 \in L4, NEW j \in 1 .. Len(RangesOf(e, id, l4))
        PROVE  RangeSound(e, id, l4, RangesOf(e, id, l4)[j])
    BY <1>3, <1>7, Zenon DEF RulesSound, RangesSound, RangeSound
  <2>2. ASSUME NEW l4 \in L4, NEW j \in 1 .. Len(RangesOf(e, N, l4)) PROVE FALSE
    BY <1>9, <2>2
  <2> QED
    BY <1>1, <2>1, <2>2, Zenon DEF RangesSound
<1>11. SlotsCounted(e)
  <2>1. ASSUME NEW id \in Protocols(c), NEW l4 \in L4, IsOwn(id)
        PROVE  Len(RangesOf(e, id, l4)) <= Cardinality(AskedFor(e, id, l4))
    BY <1>3, <1>7, <2>1, Zenon DEF RulesSound, SlotsCounted
  <2>2. ASSUME NEW l4 \in L4 PROVE Len(RangesOf(e, N, l4)) <= Cardinality(AskedFor(e, N, l4))
    <3>1. e.asked \in Seq(AskedElement)
      BY Zenon DEF ProtocolStep, RulesTyped
    <3>2. IsFiniteSet(1 .. Len(e.asked))
      BY <3>1, FS_Interval
    <3>3. AskedFor(e, N, l4) \subseteq 1 .. Len(e.asked)
      BY Zenon DEF AskedFor
    <3>4. Cardinality(AskedFor(e, N, l4)) \in Nat
      BY <3>2, <3>3, FS_Subset, FS_CardinalityType, Zenon
    <3> QED
      BY <1>9, <3>4
  <2> QED
    BY <1>1, <2>1, <2>2, Zenon DEF SlotsCounted
<1>12. PortsStored(e)
  <2>1. ASSUME NEW n \in 1 .. Len(e.asked), OwnPort(e, n)
        PROVE  HasRange(e, e.asked[n].proto, e.asked[n].elem)
    <3>1. n \in 1 .. Len(c.asked) /\ OwnPort(c, n) /\ c.asked[n].proto \in Protocols(c)
      BY <1>4, <1>8, <2>1, Zenon DEF ProtocolStep, AskedKnown
    <3>2. HasRange(c, c.asked[n].proto, c.asked[n].elem)
      BY <3>1, Zenon DEF RulesSound, PortsStored
    <3> QED
      BY <1>3, <1>4, <3>1, <3>2, Zenon DEF HasRange
  <2> QED
    BY <2>1, Zenon DEF PortsStored
<1>13. NodesSound(e)
  BY <1>1, <1>4, <1>7, Zenon DEF RulesSound, NodesSound, ItemSound
<1>14. HostsKept(e)
  BY <1>4, Zenon DEF RulesSound, HostsKept, IsFirstHost
<1>15. HostsSound(e)
  BY <1>4, <1>7, Zenon DEF RulesSound, HostsSound, SameTrees
<1>16. TreesBuilt(e)
  <2> SUFFICES ASSUME e.finalized, NEW l4 \in L4
               PROVE  TreeSound(e, l4, RootOf(e, l4)) /\ TreeOwns(e, l4, RootOf(e, l4))
    BY Zenon DEF TreesBuilt
  <2>1. c.finalized /\ RootOf(e, l4) = RootOf(c, l4)
    BY <1>4, Zenon DEF SameTrees, RootOf
  <2>2. TreeSound(c, l4, RootOf(c, l4)) /\ TreeOwns(c, l4, RootOf(c, l4))
    BY <2>1, Zenon DEF RulesSound, TreesBuilt
  <2>3. TreeSound(e, l4, RootOf(e, l4))
    BY <1>1, <1>7, <2>1, <2>2, Zenon DEF TreeSound, NodeSound
  <2>4. TreeOwns(e, l4, RootOf(e, l4))
    BY <1>4, <1>8, <2>1, <2>2, Zenon DEF TreeOwns
  <2> QED
    BY <2>3, <2>4, Zenon
<1>17. GuessSound(e)
  <2> SUFFICES ASSUME e.guess.flow.l4 # "none"
               PROVE  e.finalized /\ GuessOwn(e) /\ GuessNamed(e)
    BY Zenon DEF GuessSound
  <2>1. c.finalized /\ e.finalized /\ e.guess = c.guess /\ GuessOwn(c) /\ GuessNamed(c)
    BY <1>4, Zenon DEF SameTrees, RulesSound, GuessSound
  <2>2. \A app : ndpi_is_custom_protocol(c, app) => ndpi_is_custom_protocol(e, app)
    <3>1. c.proto_defaults \in Seq(Protocol)
      BY Zenon DEF ProtocolStep, RulesTyped
    <3>2. DOMAIN c.proto_defaults = Protocols(c)
      BY <3>1 DEF Protocols
    <3> QED
      BY <1>2, <3>2, Zenon DEF ndpi_is_custom_protocol
  <2> QED
    BY <1>4, <1>8, <2>1, <2>2, Zenon DEF GuessOwn, GuessNamed
<1>18. RulesTyped(e)
  BY Zenon DEF ProtocolStep
<1> QED
  BY <1>5, <1>6, <1>10, <1>11, <1>12, <1>13, <1>14, <1>15, <1>16, <1>17, <1>18, Zenon DEF RulesSound

\* ndpi_set_proto_defaults() for the protocol of a rule.
LEMMA AddedProtocol ==
    ASSUME NEW c, RulesSound(c), NEW rule \in Rule
    PROVE  /\ RulesSound(AddProtocol(c, rule))
           /\ num_supported_protocols(c) \in Protocols(AddProtocol(c, rule))
<1> DEFINE e == AddProtocol(c, rule)
           p == [name |-> rule.proto, isCustomProto |-> TRUE, tcp |-> << >>, udp |-> << >>]
           u == IF rule.user_id = 0 THEN num_supported_protocols(c) ELSE rule.user_id
<1>0. RulesTyped(c)
  BY Zenon DEF RulesSound
<1>1. c.proto_defaults \in Seq(Protocol)
  BY <1>0, Zenon DEF RulesTyped
<1>2. p \in Protocol /\ p.isCustomProto /\ Len(p.tcp) = 0 /\ Len(p.udp) = 0
  <2>1. rule.proto \in STRING
    BY RulesAssumption, Zenon
  <2> QED
    BY <2>1 DEF Protocol
<1>3. e = [c EXCEPT !.proto_defaults = Append(@, p), !.user_proto_id = Append(@, u)]
  BY Zenon DEF AddProtocol
<1> HIDE DEF e, p, u
<1>4. /\ DOMAIN e = RuleFields /\ e.proto_defaults = Append(c.proto_defaults, p)
      /\ e.asked = c.asked /\ e.nodes = c.nodes /\ e.hosts = c.hosts
      /\ e.finalized = c.finalized /\ e.tcpRoot = c.tcpRoot /\ e.udpRoot = c.udpRoot
      /\ e.guess = c.guess
  BY <1>0, <1>3, Zenon DEF RulesTyped, RuleFields
<1>5. /\ e.proto_defaults \in Seq(Protocol)
      /\ Len(e.proto_defaults) = Len(c.proto_defaults) + 1
      /\ e.proto_defaults[Len(e.proto_defaults)] = p
      /\ \A id \in 1 .. Len(c.proto_defaults) : e.proto_defaults[id] = c.proto_defaults[id]
  BY <1>1, <1>2, <1>4
<1>6. RulesTyped(e)
  BY <1>0, <1>4, <1>5, Zenon DEF RulesTyped
<1>7. ProtocolStep(c, e)
  BY <1>0, <1>2, <1>4, <1>5, <1>6, Zenon DEF ProtocolStep, Protocols, SameTrees, RulesSound
<1>8. num_supported_protocols(c) = Len(e.proto_defaults)
  BY <1>5, Zenon DEF num_supported_protocols
<1> QED
  BY <1>7, <1>8, ProtocolSound, MoreProtocols, Zenon DEF e

\* What the first k elements of a rule make of a state, element by element.
Handles(g, k, first, elems) ==
    /\ g = [n \in 0 .. k |-> g[n]] /\ g[0] = first
    /\ \A n \in 1 .. k : g[n] = HandleElement(g[n - 1], elems[n])

\* The loop over the elements has a result.
LEMMA HandlesExist ==
    ASSUME NEW first, NEW elems, NEW N \in Nat
    PROVE  \E g : Handles(g, N, first, elems)
<1> DEFINE No == {k \in Nat : ~\E g : Handles(g, k, first, elems)}
<1> SUFFICES ASSUME No # {} PROVE FALSE
  BY Zenon
<1>1. PICK k \in No : \A m \in No : k <= m
  BY LeastElement, Zenon
<1>2. k \in Nat /\ ~\E g : Handles(g, k, first, elems)
  BY Zenon
<1>3. CASE k = 0
  <2> DEFINE g == [n \in 0 .. 0 |-> first]
  <2>1. Handles(g, 0, first, elems)
    BY DEF Handles
  <2> QED
    BY <1>2, <1>3, <2>1, Zenon
<1>4. CASE k # 0
  <2>1. k - 1 \in Nat /\ ~(k <= k - 1)
    BY <1>2, <1>4
  <2>2. k - 1 \notin No
    BY <1>1, <2>1, Zenon
  <2>3. PICK g : Handles(g, k - 1, first, elems)
    BY <2>1, <2>2, Zenon
  <2> DEFINE e == HandleElement(g[k - 1], elems[k])
             f == [n \in 0 .. k |-> IF n = k THEN e ELSE g[n]]
  <2> HIDE DEF e
  <2>4. \A n \in 0 .. (k - 1) : f[n] = g[n]
    BY <1>2
  <2>5. f[k] = e /\ f = [n \in 0 .. k |-> f[n]]
    BY <1>2
  <2> HIDE DEF f
  <2>6. f[0] = first /\ f[k] = HandleElement(f[k - 1], elems[k])
    <3>1. 0 \in 0 .. (k - 1) /\ k - 1 \in 0 .. (k - 1)
      BY <2>1
    <3>2. f[0] = g[0] /\ f[k - 1] = g[k - 1]
      BY <2>4, <3>1, Zenon
    <3>3. g[0] = first
      BY <2>3, Zenon DEF Handles
    <3> QED
      BY <2>5, <3>2, <3>3, Zenon DEF e
  <2>7. ASSUME NEW n \in 1 .. k PROVE f[n] = HandleElement(f[n - 1], elems[n])
    <3>1. CASE n = k
      BY <2>6, <3>1, Zenon
    <3>2. CASE n # k
      <4>1. n \in 1 .. (k - 1) /\ n \in 0 .. (k - 1) /\ n - 1 \in 0 .. (k - 1)
        BY <1>2, <3>2
      <4>2. f[n] = g[n] /\ f[n - 1] = g[n - 1]
        BY <2>4, <4>1, Zenon
      <4>3. g[n] = HandleElement(g[n - 1], elems[n])
        BY <2>3, <4>1, Zenon DEF Handles
      <4> QED
        BY <4>2, <4>3, Zenon
    <3> QED
      BY <3>1, <3>2, Zenon
  <2>8. Handles(f, k, first, elems)
    BY <2>5, <2>6, <2>7, Zenon DEF Handles
  <2> QED
    BY <1>2, <2>8, Zenon
<1> QED
  BY <1>3, <1>4, Zenon

\* The elements of a rule are handled by that loop.
LEMMA ElementsAre ==
    ASSUME NEW first, NEW elems, Len(elems) \in Nat
    PROVE  \E g : Handles(g, Len(elems), first, elems) /\ ElementsHandled(first, elems) = g[Len(elems)]
<1> DEFINE N == Len(elems)
           Body(f) == [n \in 0 .. N |-> IF n = 0 THEN first ELSE HandleElement(f[n - 1], elems[n])]
           after == CHOOSE f : f = Body(f)
<1>1. PICK g : Handles(g, N, first, elems)
  BY HandlesExist, Zenon
<1>2. ElementsHandled(first, elems) = after[N]
  BY Zenon DEF ElementsHandled
<1>3. N \in Nat
  BY Zenon
<1> HIDE DEF N
<1>4. g = Body(g)
  <2>1. g = [n \in 0 .. N |-> g[n]]
    BY <1>1, Zenon DEF Handles
  <2>2. ASSUME NEW n \in 0 .. N
        PROVE  g[n] = IF n = 0 THEN first ELSE HandleElement(g[n - 1], elems[n])
    <3>1. CASE n = 0
      BY <1>1, <3>1, Zenon DEF Handles
    <3>2. CASE n # 0
      <4>1. n \in 1 .. N
        BY <1>3, <3>2
      <4> QED
        BY <1>1, <3>2, <4>1, Zenon DEF Handles
    <3> QED
      BY <3>1, <3>2, Zenon
  <2> QED
    BY <2>1, <2>2, Zenon
<1>5. after = Body(after)
  BY <1>4, Zenon
<1> HIDE DEF after
<1>6. after = [n \in 0 .. N |-> after[n]] /\ after[0] = first
  BY <1>3, <1>5
<1>7. ASSUME NEW n \in 1 .. N PROVE after[n] = HandleElement(after[n - 1], elems[n])
  <2>1. n \in 0 .. N /\ n # 0
    BY <1>3
  <2>2. after[n] = Body(after)[n]
    BY <1>5, Zenon
  <2>3. Body(after)[n] = IF n = 0 THEN first ELSE HandleElement(after[n - 1], elems[n])
    BY <2>1, Zenon
  <2> QED
    BY <2>1, <2>2, <2>3, Zenon
<1>8. Handles(after, N, first, elems)
  BY <1>6, <1>7, Zenon DEF Handles
<1> QED
  BY <1>2, <1>8, Zenon DEF N

\* All the elements of a rule leave the state sound.
LEMMA ElementsSound ==
    ASSUME NEW first, InRule(first), NEW rule \in Rule
    PROVE  InRule(ElementsHandled(first, rule.elems))
<1> DEFINE elems == rule.elems
           N == Len(elems)
<1>1. N \in Nat
  BY RulesAssumption, Zenon
<1>2. PICK g : Handles(g, N, first, elems) /\ ElementsHandled(first, elems) = g[N]
  BY <1>1, ElementsAre, Zenon
<1> DEFINE Bad == {n \in 0 .. N : ~InRule(g[n])}
<1>3. ASSUME NEW n \in 1 .. N PROVE elems[n] \in Element
  <2> DEFINE S(r) == {r.elems[i] : i \in 1 .. Len(r.elems)}
  <2>1. elems[n] \in S(rule)
    BY Zenon
  <2>2. S(rule) \in {S(r) : r \in Rule}
    BY Zenon
  <2> QED
    BY <2>1, <2>2, Zenon DEF Element
<1> HIDE DEF N, elems
<1>4. Bad = {}
  <2> SUFFICES ASSUME Bad # {} PROVE FALSE
    BY Zenon
  <2>1. Bad \subseteq Nat
    BY <1>1
  <2>2. PICK n \in Bad : \A m \in Bad : n <= m
    BY <2>1, LeastElement, Zenon
  <2>3. n \in 0 .. N /\ ~InRule(g[n])
    BY Zenon
  <2>4. n # 0
    BY <1>2, <2>3, Zenon DEF Handles
  <2>5. n \in 1 .. N /\ n - 1 \in 0 .. N /\ ~(n <= n - 1)
    BY <1>1, <2>3, <2>4
  <2>6. InRule(g[n - 1])
    BY <2>2, <2>5, Zenon
  <2>7. InRule(HandleElement(g[n - 1], elems[n]))
    BY <1>3, <2>5, <2>6, ElementSound, Zenon
  <2> QED
    BY <1>2, <2>3, <2>5, <2>7, Zenon DEF Handles
<1>5. N \in 0 .. N
  BY <1>1
<1>6. InRule(g[N])
  BY <1>4, <1>5, Zenon
<1> QED
  BY <1>2, <1>6, Zenon DEF elems

\* A name that was found is the name of a protocol.
LEMMA NameFound ==
    ASSUME NEW c, RulesTyped(c), NEW name, ndpi_get_proto_by_name(c, name) # 0
    PROVE  ndpi_get_proto_by_name(c, name) \in Protocols(c)
<1> DEFINE ids == {id \in DOMAIN c.proto_defaults : c.proto_defaults[id].name = name}
<1>1. c.proto_defaults \in Seq(Protocol)
  BY Zenon DEF RulesTyped
<1>2. DOMAIN c.proto_defaults = Protocols(c) /\ Protocols(c) \subseteq Nat
  BY <1>1 DEF Protocols
<1>3. ids \subseteq Protocols(c) /\ ids \subseteq Nat
  BY <1>2, Zenon
<1>4. ids # {} /\ ndpi_get_proto_by_name(c, name) = Least(ids)
  BY Zenon DEF ndpi_get_proto_by_name
<1> HIDE DEF ids
<1>5. Least(ids) \in ids
  BY <1>3, <1>4, LeastElement, Zenon DEF Least
<1> QED
  BY <1>3, <1>4, <1>5, Zenon

\* A rule leaves the state sound.
LEMMA RuleSound ==
    ASSUME NEW c, RulesSound(c), NEW rule \in Rule
    PROVE  RulesSound(HandledRule(c, rule))
<1> DEFINE id == ndpi_get_proto_by_name(c, rule.proto)
           known == IF id = 0 THEN AddProtocol(c, rule) ELSE c
           own == IF id = 0 THEN num_supported_protocols(c) ELSE id
           first == [c |-> known, id |-> own, ended |-> FALSE]
<1>1. \/ HandledRule(c, rule) = c
      \/ HandledRule(c, rule) = ElementsHandled(first, rule.elems).c
  <2>1. HandledRule(c, rule) =
          IF rule.user_id # 0 /\ rule.user_id < num_supported_protocols(c) THEN c
          ELSE ElementsHandled(first, rule.elems).c
    BY Zenon DEF HandledRule
  <2> HIDE DEF first
  <2> QED
    BY <2>1, Zenon
<1>2. RulesSound(known) /\ own \in Protocols(known)
  <2>1. CASE id = 0
    BY <2>1, AddedProtocol, Zenon
  <2>2. CASE id # 0
    BY <2>2, NameFound, Zenon DEF RulesSound
  <2> QED
    BY <2>1, <2>2, Zenon
<1> HIDE DEF known, own
<1>3. InRule(first)
  BY <1>2, Zenon DEF InRule
<1> HIDE DEF first
<1>4. InRule(ElementsHandled(first, rule.elems))
  BY <1>3, ElementsSound, Zenon
<1> QED
  BY <1>1, <1>4, Zenon DEF InRule
-----------------------------------------------------------------------------
(* The trees of ports.                                                     *)

\* The node of a port is the one it was, or one for the range.
NodeFrom(root, new, p, range, id, mine) ==
    \/ p \in DOMAIN root /\ new[p] = root[p]
    \/ /\ p \in range.port_low .. range.port_high /\ new[p].proto_idx = id
       /\ new[p].customUserProto => mine \/ (p \in DOMAIN root /\ root[p].customUserProto)

\* A port has a node for a protocol, or for a later one.
PortHeld(root, p, id) == p \in DOMAIN root /\ root[p].proto_idx >= id

RangeEntered(root, new, range, id, mine) ==
    /\ \A p \in DOMAIN root : p \in DOMAIN new
    /\ \A p \in DOMAIN new : NodeFrom(root, new, p, range, id, mine)
    /\ range.port_low <= range.port_high =>
         range.port_low \in DOMAIN new /\ new[range.port_low].proto_idx = id

\* A range takes its ports up to the first that was taken, that one included.
LEMMA DefaultPort ==
    ASSUME NEW root, NEW range, range.port_low \in Nat, range.port_high \in Nat, NEW id, NEW custom
    PROVE  RangeEntered(root, addDefaultPort(root, range, id, custom), range, id,
                        custom \/ range.is_custom)
<1> DEFINE ports == range.port_low .. range.port_high
           taken == ports \intersect DOMAIN root
           dup == Least(taken)
           mine == custom \/ range.is_custom
           fresh == IF taken = {} THEN ports ELSE {p \in ports : p < dup}
           first == [proto_idx |-> id, customUserProto |-> mine]
           over(p) == [proto_idx |-> id, customUserProto |-> root[p].customUserProto \/ mine]
           node(p) == IF p \in fresh THEN first
                      ELSE IF taken # {} /\ p = dup THEN over(p) ELSE root[p]
           new == addDefaultPort(root, range, id, custom)
<1>1. new = [p \in DOMAIN root \union fresh |-> node(p)]
  BY Zenon DEF addDefaultPort
<1>2. ports \subseteq Nat /\ taken \subseteq ports
  OBVIOUS
<1>3. taken # {} => dup \in taken /\ \A q \in taken : dup <= q
  <2> HIDE DEF taken, ports
  <2> QED
    BY <1>2, LeastElement, Zenon DEF Least
<1>4. first.proto_idx = id /\ \A p : over(p).proto_idx = id
  BY Zenon
<1>5. first.customUserProto => mine
  BY Zenon
<1>6. \A p : over(p).customUserProto => root[p].customUserProto \/ mine
  BY Zenon
<1>7. fresh \subseteq ports
  <2> HIDE DEF ports, taken, dup
  <2> QED
    BY Zenon
<1>8. range.port_low <= range.port_high =>
        range.port_low \in ports /\ (range.port_low \in fresh \/ (taken # {} /\ range.port_low = dup))
  <2> SUFFICES ASSUME range.port_low <= range.port_high
               PROVE  range.port_low \in ports /\ (range.port_low \in fresh \/ (taken # {} /\ range.port_low = dup))
    BY Zenon
  <2>1. range.port_low \in ports /\ \A p \in ports : p \in Nat /\ range.port_low <= p
    OBVIOUS
  <2>2. CASE taken = {}
    BY <2>1, <2>2, Zenon
  <2>3. CASE taken # {}
    <3>1. dup \in ports
      BY <1>2, <1>3, <2>3, Zenon
    <3> HIDE DEF ports, taken, dup
    <3>2. range.port_low < dup \/ range.port_low = dup
      BY <2>1, <3>1
    <3> QED
      BY <2>1, <2>3, <3>2, Zenon
  <2> QED
    BY <2>2, <2>3, Zenon
<1>9. taken # {} => dup \in DOMAIN root
  BY <1>3, Zenon
<1> HIDE DEF new, node, mine, first, over, fresh, taken, dup
<1>10. DOMAIN new = DOMAIN root \union fresh /\ \A p \in DOMAIN new : new[p] = node(p)
  BY <1>1, Zenon
<1>11. ASSUME NEW p \in DOMAIN new PROVE NodeFrom(root, new, p, range, id, mine)
  <2>1. CASE p \in fresh
    <3>1. new[p] = first
      BY <1>10, <2>1, Zenon DEF node
    <3> QED
      BY <1>4, <1>5, <1>7, <2>1, <3>1, Zenon DEF NodeFrom
  <2>2. CASE p \notin fresh /\ taken # {} /\ p = dup
    <3>1. new[p] = over(p)
      BY <1>10, <2>2, Zenon DEF node
    <3>2. p \in ports /\ p \in DOMAIN root
      BY <1>2, <1>3, <1>9, <2>2, Zenon
    <3> QED
      BY <1>4, <1>6, <3>1, <3>2, Zenon DEF NodeFrom
  <2>3. CASE p \notin fresh /\ ~(taken # {} /\ p = dup)
    BY <1>10, <2>3, Zenon DEF node, NodeFrom
  <2> QED
    BY <2>1, <2>2, <2>3, Zenon
<1>12. ASSUME range.port_low <= range.port_high
       PROVE  range.port_low \in DOMAIN new /\ new[range.port_low].proto_idx = id
  <2> DEFINE q == range.port_low
  <2>1. q \in fresh \/ (taken # {} /\ q = dup)
    BY <1>8, <1>12, Zenon
  <2>2. q \in DOMAIN new
    BY <1>9, <1>10, <2>1, Zenon
  <2>3. new[q] = first \/ new[q] = over(q)
    BY <1>10, <2>1, <2>2, Zenon DEF node
  <2> QED
    BY <1>4, <2>2, <2>3, Zenon
<1> QED
  BY <1>10, <1>11, <1>12, Zenon DEF RangeEntered, new, mine

\* The range in a slot enters a tree.
EnteredAt(c, l4, root, id, j) ==
    addDefaultPort(root, RangesOf(c, id, l4)[j], id, c.proto_defaults[id].isCustomProto)

\* What the first k ranges of a protocol make of a tree, range by range.
Enters(g, k, c, l4, root, id) ==
    /\ g = [n \in 0 .. k |-> g[n]] /\ g[0] = root
    /\ \A n \in 1 .. k : g[n] = EnteredAt(c, l4, g[n - 1], id, n)

\* The loop over the ranges of a protocol has a result.
LEMMA EntersExist ==
    ASSUME NEW c, NEW l4, NEW root, NEW id, NEW N \in Nat
    PROVE  \E g : Enters(g, N, c, l4, root, id)
<1> DEFINE No == {k \in Nat : ~\E g : Enters(g, k, c, l4, root, id)}
<1> SUFFICES ASSUME No # {} PROVE FALSE
  BY Zenon
<1>1. PICK k \in No : \A m \in No : k <= m
  BY LeastElement, Zenon
<1>2. k \in Nat /\ ~\E g : Enters(g, k, c, l4, root, id)
  BY Zenon
<1>3. CASE k = 0
  <2> DEFINE g == [n \in 0 .. 0 |-> root]
  <2>1. Enters(g, 0, c, l4, root, id)
    BY DEF Enters
  <2> QED
    BY <1>2, <1>3, <2>1, Zenon
<1>4. CASE k # 0
  <2>1. k - 1 \in Nat /\ ~(k <= k - 1)
    BY <1>2, <1>4
  <2>2. k - 1 \notin No
    BY <1>1, <2>1, Zenon
  <2>3. PICK g : Enters(g, k - 1, c, l4, root, id)
    BY <2>1, <2>2, Zenon
  <2> DEFINE e == EnteredAt(c, l4, g[k - 1], id, k)
             f == [n \in 0 .. k |-> IF n = k THEN e ELSE g[n]]
  <2> HIDE DEF e
  <2>4. \A n \in 0 .. (k - 1) : f[n] = g[n]
    BY <1>2
  <2>5. f[k] = e /\ f = [n \in 0 .. k |-> f[n]]
    BY <1>2
  <2> HIDE DEF f
  <2>6. f[0] = root /\ f[k] = EnteredAt(c, l4, f[k - 1], id, k)
    <3>1. 0 \in 0 .. (k - 1) /\ k - 1 \in 0 .. (k - 1)
      BY <2>1
    <3>2. f[0] = g[0] /\ f[k - 1] = g[k - 1]
      BY <2>4, <3>1, Zenon
    <3>3. g[0] = root
      BY <2>3, Zenon DEF Enters
    <3> QED
      BY <2>5, <3>2, <3>3, Zenon DEF e
  <2>7. ASSUME NEW n \in 1 .. k PROVE f[n] = EnteredAt(c, l4, f[n - 1], id, n)
    <3>1. CASE n = k
      BY <2>6, <3>1, Zenon
    <3>2. CASE n # k
      <4>1. n \in 1 .. (k - 1) /\ n \in 0 .. (k - 1) /\ n - 1 \in 0 .. (k - 1)
        BY <1>2, <3>2
      <4>2. f[n] = g[n] /\ f[n - 1] = g[n - 1]
        BY <2>4, <4>1, Zenon
      <4>3. g[n] = EnteredAt(c, l4, g[n - 1], id, n)
        BY <2>3, <4>1, Zenon DEF Enters
      <4> QED
        BY <4>2, <4>3, Zenon
    <3> QED
      BY <3>1, <3>2, Zenon
  <2>8. Enters(f, k, c, l4, root, id)
    BY <2>5, <2>6, <2>7, Zenon DEF Enters
  <2> QED
    BY <1>2, <2>8, Zenon
<1> QED
  BY <1>3, <1>4, Zenon

\* The ranges of a protocol enter the tree by that loop.
LEMMA RangesAre ==
    ASSUME NEW c, NEW l4, NEW root, NEW id, Len(RangesOf(c, id, l4)) \in Nat
    PROVE  \E g : /\ Enters(g, Len(RangesOf(c, id, l4)), c, l4, root, id)
                  /\ RangesAdded(c, l4, root, id) = g[Len(RangesOf(c, id, l4))]
<1> DEFINE N == Len(RangesOf(c, id, l4))
           Body(f) == [n \in 0 .. N |-> IF n = 0 THEN root ELSE EnteredAt(c, l4, f[n - 1], id, n)]
           after == CHOOSE f : f = Body(f)
<1>1. PICK g : Enters(g, N, c, l4, root, id)
  BY EntersExist, Zenon
<1>2. RangesAdded(c, l4, root, id) = after[N]
  BY Zenon DEF RangesAdded, EnteredAt
<1>3. N \in Nat
  BY Zenon
<1> HIDE DEF N
<1>4. g = Body(g)
  <2>1. g = [n \in 0 .. N |-> g[n]]
    BY <1>1, Zenon DEF Enters
  <2>2. ASSUME NEW n \in 0 .. N
        PROVE  g[n] = IF n = 0 THEN root ELSE EnteredAt(c, l4, g[n - 1], id, n)
    <3>1. CASE n = 0
      BY <1>1, <3>1, Zenon DEF Enters
    <3>2. CASE n # 0
      <4>1. n \in 1 .. N
        BY <1>3, <3>2
      <4> QED
        BY <1>1, <3>2, <4>1, Zenon DEF Enters
    <3> QED
      BY <3>1, <3>2, Zenon
  <2> QED
    BY <2>1, <2>2, Zenon
<1>5. after = Body(after)
  BY <1>4, Zenon
<1> HIDE DEF after
<1>6. after = [n \in 0 .. N |-> after[n]] /\ after[0] = root
  BY <1>3, <1>5
<1>7. ASSUME NEW n \in 1 .. N PROVE after[n] = EnteredAt(c, l4, after[n - 1], id, n)
  <2>1. n \in 0 .. N /\ n # 0
    BY <1>3
  <2>2. after[n] = Body(after)[n]
    BY <1>5, Zenon
  <2>3. Body(after)[n] = IF n = 0 THEN root ELSE EnteredAt(c, l4, after[n - 1], id, n)
    BY <2>1, Zenon
  <2> QED
    BY <2>1, <2>2, <2>3, Zenon
<1>8. Enters(after, N, c, l4, root, id)
  BY <1>6, <1>7, Zenon DEF Enters
<1> QED
  BY <1>2, <1>8, Zenon DEF N

\* The tree after the first k protocols, protocol by protocol.
Loads(g, k, c, l4) ==
    /\ g = [n \in 0 .. k |-> g[n]] /\ g[0] = << >>
    /\ \A n \in 1 .. k : g[n] = ProtocolAdded(c, l4, g[n - 1], n)

\* The loop over the protocols has a result.
LEMMA LoadsExist ==
    ASSUME NEW c, NEW l4, NEW N \in Nat
    PROVE  \E g : Loads(g, N, c, l4)
<1> DEFINE No == {k \in Nat : ~\E g : Loads(g, k, c, l4)}
<1> SUFFICES ASSUME No # {} PROVE FALSE
  BY Zenon
<1>1. PICK k \in No : \A m \in No : k <= m
  BY LeastElement, Zenon
<1>2. k \in Nat /\ ~\E g : Loads(g, k, c, l4)
  BY Zenon
<1>3. CASE k = 0
  <2> DEFINE g == [n \in 0 .. 0 |-> << >>]
  <2>1. Loads(g, 0, c, l4)
    BY DEF Loads
  <2> QED
    BY <1>2, <1>3, <2>1, Zenon
<1>4. CASE k # 0
  <2>1. k - 1 \in Nat /\ ~(k <= k - 1)
    BY <1>2, <1>4
  <2>2. k - 1 \notin No
    BY <1>1, <2>1, Zenon
  <2>3. PICK g : Loads(g, k - 1, c, l4)
    BY <2>1, <2>2, Zenon
  <2> DEFINE e == ProtocolAdded(c, l4, g[k - 1], k)
             f == [n \in 0 .. k |-> IF n = k THEN e ELSE g[n]]
  <2> HIDE DEF e
  <2>4. \A n \in 0 .. (k - 1) : f[n] = g[n]
    BY <1>2
  <2>5. f[k] = e /\ f = [n \in 0 .. k |-> f[n]]
    BY <1>2
  <2> HIDE DEF f
  <2>6. f[0] = << >> /\ f[k] = ProtocolAdded(c, l4, f[k - 1], k)
    <3>1. 0 \in 0 .. (k - 1) /\ k - 1 \in 0 .. (k - 1)
      BY <2>1
    <3>2. f[0] = g[0] /\ f[k - 1] = g[k - 1]
      BY <2>4, <3>1, Zenon
    <3>3. g[0] = << >>
      BY <2>3, Zenon DEF Loads
    <3> QED
      BY <2>5, <3>2, <3>3, Zenon DEF e
  <2>7. ASSUME NEW n \in 1 .. k PROVE f[n] = ProtocolAdded(c, l4, f[n - 1], n)
    <3>1. CASE n = k
      BY <2>6, <3>1, Zenon
    <3>2. CASE n # k
      <4>1. n \in 1 .. (k - 1) /\ n \in 0 .. (k - 1) /\ n - 1 \in 0 .. (k - 1)
        BY <1>2, <3>2
      <4>2. f[n] = g[n] /\ f[n - 1] = g[n - 1]
        BY <2>4, <4>1, Zenon
      <4>3. g[n] = ProtocolAdded(c, l4, g[n - 1], n)
        BY <2>3, <4>1, Zenon DEF Loads
      <4> QED
        BY <4>2, <4>3, Zenon
    <3> QED
      BY <3>1, <3>2, Zenon
  <2>8. Loads(f, k, c, l4)
    BY <2>5, <2>6, <2>7, Zenon DEF Loads
  <2> QED
    BY <1>2, <2>8, Zenon
<1> QED
  BY <1>3, <1>4, Zenon

\* The tree of a transport is built by that loop.
LEMMA LoadedIs ==
    ASSUME NEW c, NEW l4, Len(c.proto_defaults) \in Nat
    PROVE  \E g : Loads(g, Len(c.proto_defaults), c, l4) /\ load_default_ports(c, l4) = g[Len(c.proto_defaults)]
<1> DEFINE N == Len(c.proto_defaults)
           Body(f) == [n \in 0 .. N |-> IF n = 0 THEN << >> ELSE ProtocolAdded(c, l4, f[n - 1], n)]
           after == CHOOSE f : f = Body(f)
<1>1. PICK g : Loads(g, N, c, l4)
  BY LoadsExist, Zenon
<1>2. load_default_ports(c, l4) = after[N]
  BY Zenon DEF load_default_ports
<1>3. N \in Nat
  BY Zenon
<1> HIDE DEF N
<1>4. g = Body(g)
  <2>1. g = [n \in 0 .. N |-> g[n]]
    BY <1>1, Zenon DEF Loads
  <2>2. ASSUME NEW n \in 0 .. N
        PROVE  g[n] = IF n = 0 THEN << >> ELSE ProtocolAdded(c, l4, g[n - 1], n)
    <3>1. CASE n = 0
      BY <1>1, <3>1, Zenon DEF Loads
    <3>2. CASE n # 0
      <4>1. n \in 1 .. N
        BY <1>3, <3>2
      <4> QED
        BY <1>1, <3>2, <4>1, Zenon DEF Loads
    <3> QED
      BY <3>1, <3>2, Zenon
  <2> QED
    BY <2>1, <2>2, Zenon
<1>5. after = Body(after)
  BY <1>4, Zenon
<1> HIDE DEF after
<1>6. after = [n \in 0 .. N |-> after[n]] /\ after[0] = << >>
  BY <1>3, <1>5
<1>7. ASSUME NEW n \in 1 .. N PROVE after[n] = ProtocolAdded(c, l4, after[n - 1], n)
  <2>1. n \in 0 .. N /\ n # 0
    BY <1>3
  <2>2. after[n] = Body(after)[n]
    BY <1>5, Zenon
  <2>3. Body(after)[n] = IF n = 0 THEN << >> ELSE ProtocolAdded(c, l4, after[n - 1], n)
    BY <2>1, Zenon
  <2> QED
    BY <2>1, <2>2, <2>3, Zenon
<1>8. Loads(after, N, c, l4)
  BY <1>6, <1>7, Zenon DEF Loads
<1> QED
  BY <1>2, <1>8, Zenon DEF N

\* Every node is for one of the first k protocols, and sound.
NodesUpto(c, l4, root, k) ==
    \A p \in DOMAIN root : root[p].proto_idx \in 1 .. k /\ NodeSound(c, l4, p, root[p])

\* The first port of a range is held.
RangeHeld(c, l4, root, id, i) ==
    RangesOf(c, id, l4)[i].port_low <= RangesOf(c, id, l4)[i].port_high =>
        PortHeld(root, RangesOf(c, id, l4)[i].port_low, id)

\* The tree with all the ranges of the protocols before id, and j of those of id.
Filled(c, l4, root, id, j) ==
    /\ NodesUpto(c, l4, root, id)
    /\ \A own \in 1 .. id : IsOwn(own) =>
         \A i \in 1 .. Len(RangesOf(c, own, l4)) : own # id \/ i <= j => RangeHeld(c, l4, root, own, i)

\* What the ranges of a protocol of c look like.
LEMMA RangeType ==
    ASSUME NEW c, RulesTyped(c), NEW id \in Protocols(c), NEW l4
    PROVE  /\ Len(RangesOf(c, id, l4)) \in Nat
           /\ \A j \in 1 .. Len(RangesOf(c, id, l4)) :
                RangesOf(c, id, l4)[j].port_low \in Nat /\ RangesOf(c, id, l4)[j].port_high \in Nat
<1>1. c.proto_defaults \in Seq(Protocol)
  BY Zenon DEF RulesTyped
<1>2. c.proto_defaults[id] \in Protocol
  BY <1>1 DEF Protocols
<1>3. RangesOf(c, id, l4) \in Seq(PortRange)
  BY <1>2, Zenon DEF Protocol, RangesOf
<1>4. ASSUME NEW j \in 1 .. Len(RangesOf(c, id, l4)) PROVE RangesOf(c, id, l4)[j] \in PortRange
  BY <1>3
<1> QED
  BY <1>3, <1>4 DEF PortRange

\* One more range.
LEMMA FilledNext ==
    ASSUME NEW c, RulesSound(c), NEW l4 \in L4, NEW id \in Protocols(c),
           NEW j \in 1 .. Len(RangesOf(c, id, l4)), NEW root, Filled(c, l4, root, id, j - 1)
    PROVE  Filled(c, l4, EnteredAt(c, l4, root, id, j), id, j)
<1> DEFINE range == RangesOf(c, id, l4)[j]
           custom == c.proto_defaults[id].isCustomProto
           mine == custom \/ range.is_custom
           new == EnteredAt(c, l4, root, id, j)
<1>0. RulesTyped(c) /\ OwnAreLast(c)
  BY Zenon DEF RulesSound
<1>1. /\ Len(RangesOf(c, id, l4)) \in Nat /\ range.port_low \in Nat /\ range.port_high \in Nat
  BY <1>0, RangeType, Zenon
<1>2. RangeEntered(root, new, range, id, mine)
  BY <1>1, DefaultPort, Zenon DEF EnteredAt
<1>3. id \in Nat /\ j \in Nat /\ id \in 1 .. id
  <2>1. c.proto_defaults \in Seq(Protocol)
    BY <1>0, Zenon DEF RulesTyped
  <2> QED
    BY <1>1, <2>1 DEF Protocols
<1>4. custom <=> IsOwn(id)
  BY <1>0, Zenon DEF OwnAreLast
<1>5. mine => \A p \in range.port_low .. range.port_high : PortNamed(c, l4, p)
  <2> SUFFICES ASSUME mine, NEW p \in range.port_low .. range.port_high PROVE PortNamed(c, l4, p)
    BY Zenon
  <2>1. PortAsked(c, l4, range.port_low, range.port_high)
    BY <1>4, Zenon DEF RulesSound, RangesSound, RangeSound
  <2> HIDE DEF range
  <2> QED
    BY <2>1, Zenon DEF PortAsked, PortNamed
<1> HIDE DEF new, range, mine, custom
<1>6. ASSUME NEW p \in DOMAIN new
      PROVE  new[p].proto_idx \in 1 .. id /\ NodeSound(c, l4, p, new[p])
  <2>1. CASE p \in DOMAIN root /\ new[p] = root[p]
    BY <2>1, Zenon DEF Filled, NodesUpto
  <2>2. CASE /\ p \in range.port_low .. range.port_high /\ new[p].proto_idx = id
             /\ new[p].customUserProto => mine \/ (p \in DOMAIN root /\ root[p].customUserProto)
    <3>1. IsOwn(id) => mine
      BY <1>4, Zenon DEF mine
    <3>2. p \in DOMAIN root /\ root[p].customUserProto => PortNamed(c, l4, p)
      BY Zenon DEF Filled, NodesUpto, NodeSound
    <3> QED
      BY <1>3, <1>5, <2>2, <3>1, <3>2, Zenon DEF NodeSound
  <2> QED
    BY <1>2, <2>1, <2>2, Zenon DEF RangeEntered, NodeFrom
<1>7. ASSUME NEW own \in 1 .. id, NEW q, PortHeld(root, q, own) PROVE PortHeld(new, q, own)
  <2>1. q \in DOMAIN root /\ q \in DOMAIN new /\ root[q].proto_idx >= own
    BY <1>2, <1>7, Zenon DEF PortHeld, RangeEntered
  <2>2. CASE new[q] = root[q]
    BY <2>1, <2>2, Zenon DEF PortHeld
  <2>3. CASE new[q].proto_idx = id
    <3>1. id >= own
      BY <1>3
    <3> QED
      BY <2>1, <2>3, <3>1, Zenon DEF PortHeld
  <2> QED
    BY <1>2, <2>1, <2>2, <2>3, Zenon DEF RangeEntered, NodeFrom
<1>8. ASSUME NEW own \in 1 .. id, IsOwn(own), NEW i \in 1 .. Len(RangesOf(c, own, l4)), own # id \/ i <= j
      PROVE  RangeHeld(c, l4, new, own, i)
  <2>1. CASE own # id \/ i <= j - 1
    BY <1>7, <1>8, <2>1, Zenon DEF Filled, RangeHeld
  <2>2. CASE own = id /\ i = j
    <3>1. id >= id
      BY <1>3
    <3> QED
      BY <1>2, <2>2, <3>1, Zenon DEF RangeEntered, RangeHeld, PortHeld, range
  <2>3. own = id /\ i <= j => i <= j - 1 \/ i = j
    <3> SUFFICES ASSUME own = id, i <= j PROVE i <= j - 1 \/ i = j
      BY Zenon
    <3>1. i \in 1 .. Len(RangesOf(c, id, l4))
      BY Zenon
    <3> QED
      BY <1>1, <1>3, <3>1
  <2> QED
    BY <1>8, <2>1, <2>2, <2>3, Zenon
<1> QED
  BY <1>6, <1>8, Zenon DEF Filled, NodesUpto, new

\* All the ranges of a protocol.
LEMMA RangesFilled ==
    ASSUME NEW c, RulesSound(c), NEW l4 \in L4, NEW id \in Protocols(c), NEW root, Filled(c, l4, root, id, 0)
    PROVE  Filled(c, l4, RangesAdded(c, l4, root, id), id, Len(RangesOf(c, id, l4)))
<1> DEFINE N == Len(RangesOf(c, id, l4))
<1>1. N \in Nat
  BY RangeType, Zenon DEF RulesSound
<1>2. PICK g : Enters(g, N, c, l4, root, id) /\ RangesAdded(c, l4, root, id) = g[N]
  BY <1>1, RangesAre, Zenon
<1> DEFINE Bad == {n \in 0 .. N : ~Filled(c, l4, g[n], id, n)}
<1>3. Bad = {}
  <2> SUFFICES ASSUME Bad # {} PROVE FALSE
    BY Zenon
  <2> HIDE DEF N
  <2>1. Bad \subseteq Nat
    BY <1>1
  <2>2. PICK n \in Bad : \A m \in Bad : n <= m
    BY <2>1, LeastElement, Zenon
  <2>3. n \in 0 .. N /\ ~Filled(c, l4, g[n], id, n)
    BY Zenon
  <2>4. n # 0
    BY <1>2, <2>3, Zenon DEF Enters
  <2>5. n \in 1 .. N /\ n - 1 \in 0 .. N /\ ~(n <= n - 1)
    BY <1>1, <2>3, <2>4
  <2>6. Filled(c, l4, g[n - 1], id, n - 1)
    BY <2>2, <2>5, Zenon
  <2>7. Filled(c, l4, EnteredAt(c, l4, g[n - 1], id, n), id, n)
    BY <2>5, <2>6, FilledNext, Zenon DEF N
  <2> QED
    BY <1>2, <2>3, <2>5, <2>7, Zenon DEF Enters
<1>4. N \in 0 .. N
  BY <1>1
<1> HIDE DEF N
<1>5. Filled(c, l4, g[N], id, N)
  BY <1>3, <1>4, Zenon
<1> QED
  BY <1>2, <1>5, Zenon DEF N

\* The tree with all the ranges of the first k protocols.
Done(c, l4, root, k) ==
    /\ NodesUpto(c, l4, root, k)
    /\ \A own \in 1 .. k : IsOwn(own) =>
         \A i \in 1 .. Len(RangesOf(c, own, l4)) : RangeHeld(c, l4, root, own, i)

\* One more protocol.
LEMMA DoneNext ==
    ASSUME NEW c, RulesSound(c), NEW l4 \in L4, NEW id \in Protocols(c), NEW root,
           Done(c, l4, root, id - 1)
    PROVE  Done(c, l4, ProtocolAdded(c, l4, root, id), id)
<1> DEFINE N == Len(RangesOf(c, id, l4))
<1>0. RulesTyped(c) /\ OwnAreLast(c)
  BY Zenon DEF RulesSound
<1>1. N \in Nat
  BY <1>0, RangeType, Zenon
<1>2. id \in Nat /\ DOMAIN c.proto_defaults = Protocols(c)
  <2>1. c.proto_defaults \in Seq(Protocol)
    BY <1>0, Zenon DEF RulesTyped
  <2> QED
    BY <2>1 DEF Protocols
<1>3. \A k \in 1 .. id : k # id => k \in 1 .. id - 1
  BY <1>2
<1>4. \A k \in 1 .. id - 1 : k \in 1 .. id
  BY <1>2
<1>5. NodesUpto(c, l4, root, id)
  BY <1>4, Zenon DEF Done, NodesUpto
<1>6. CASE is_proto_enabled(c, id)
  <2>1. Filled(c, l4, root, id, 0)
    <3>1. \A i \in 1 .. N : ~(i <= 0)
      BY <1>1
    <3> QED
      BY <1>3, <1>5, <3>1, Zenon DEF Filled, Done
  <2> DEFINE new == RangesAdded(c, l4, root, id)
  <2>2. Filled(c, l4, new, id, N)
    BY <2>1, RangesFilled, Zenon
  <2>3. ASSUME NEW own \in 1 .. id, NEW i \in 1 .. Len(RangesOf(c, own, l4)) PROVE own # id \/ i <= N
    <3>1. own = id => i \in 1 .. N
      BY Zenon
    <3> HIDE DEF N
    <3>2. i \in 1 .. N => i <= N
      BY <1>1
    <3> QED
      BY <3>1, <3>2, Zenon
  <2>4. ProtocolAdded(c, l4, root, id) = new
    BY <1>6, Zenon DEF ProtocolAdded
  <2> HIDE DEF new
  <2> QED
    BY <2>2, <2>3, <2>4, Zenon DEF Filled, Done
<1>7. CASE ~is_proto_enabled(c, id)
  <2>1. ~IsOwn(id)
    BY <1>0, <1>2, <1>7, Zenon DEF is_proto_enabled, ndpi_is_custom_protocol, OwnAreLast
  <2>2. ProtocolAdded(c, l4, root, id) = root
    BY <1>7, Zenon DEF ProtocolAdded
  <2> QED
    BY <1>3, <1>5, <2>1, <2>2, Zenon DEF Done
<1> QED
  BY <1>6, <1>7, Zenon

\* All the protocols.
LEMMA TreeLoaded ==
    ASSUME NEW c, RulesSound(c), NEW l4 \in L4
    PROVE  Done(c, l4, load_default_ports(c, l4), Len(c.proto_defaults))
<1> DEFINE N == Len(c.proto_defaults)
<1>1. N \in Nat
  <2>1. c.proto_defaults \in Seq(Protocol)
    BY Zenon DEF RulesSound, RulesTyped
  <2> QED
    BY <2>1
<1>2. PICK g : Loads(g, N, c, l4) /\ load_default_ports(c, l4) = g[N]
  BY <1>1, LoadedIs, Zenon
<1> DEFINE Bad == {n \in 0 .. N : ~Done(c, l4, g[n], n)}
<1>3. Done(c, l4, << >>, 0)
  <2>1. DOMAIN << >> = {}
    OBVIOUS
  <2>2. 1 .. 0 = {}
    OBVIOUS
  <2> QED
    BY <2>1, <2>2, Zenon DEF Done, NodesUpto
<1>4. Bad = {}
  <2> SUFFICES ASSUME Bad # {} PROVE FALSE
    BY Zenon
  <2> HIDE DEF N
  <2>1. Bad \subseteq Nat
    BY <1>1
  <2>2. PICK n \in Bad : \A m \in Bad : n <= m
    BY <2>1, LeastElement, Zenon
  <2>3. n \in 0 .. N /\ ~Done(c, l4, g[n], n)
    BY Zenon
  <2>4. n # 0
    BY <1>2, <1>3, <2>3, Zenon DEF Loads
  <2>5. n \in 1 .. N /\ n - 1 \in 0 .. N /\ ~(n <= n - 1)
    BY <1>1, <2>3, <2>4
  <2>6. Done(c, l4, g[n - 1], n - 1)
    BY <2>2, <2>5, Zenon
  <2>7. Done(c, l4, ProtocolAdded(c, l4, g[n - 1], n), n)
    BY <2>5, <2>6, DoneNext, Zenon DEF N, Protocols
  <2> QED
    BY <1>2, <2>3, <2>5, <2>7, Zenon DEF Loads
<1>5. N \in 0 .. N
  BY <1>1
<1> HIDE DEF N
<1>6. Done(c, l4, g[N], N)
  BY <1>4, <1>5, Zenon
<1> QED
  BY <1>2, <1>6, Zenon DEF N

\* The tree that is built has what the rules asked for, and nothing that they did not.
LEMMA TreeBuilt ==
    ASSUME NEW c, RulesSound(c), NEW l4 \in L4
    PROVE  TreeSound(c, l4, load_default_ports(c, l4)) /\ TreeOwns(c, l4, load_default_ports(c, l4))
<1> DEFINE root == load_default_ports(c, l4)
<1>1. Done(c, l4, root, Len(c.proto_defaults))
  BY TreeLoaded, Zenon
<1> HIDE DEF root
<1>2. TreeSound(c, l4, root)
  BY <1>1, Zenon DEF Done, NodesUpto, TreeSound
<1>3. ASSUME NEW n \in 1 .. Len(c.asked), OwnPort(c, n), c.asked[n].elem.kind = l4
      PROVE  c.asked[n].elem.low \in DOMAIN root /\ root[c.asked[n].elem.low].proto_idx >= c.asked[n].proto
  <2> DEFINE id == c.asked[n].proto
             elem == c.asked[n].elem
             s == RangesOf(c, id, l4)
  <2>1. id \in Protocols(c)
    BY Zenon DEF RulesSound, AskedKnown
  <2>2. IsOwn(id) /\ elem.low <= elem.high
    BY <1>3, <2>1, Zenon DEF OwnPort, ndpi_is_custom_protocol, RulesSound, OwnAreLast
  <2>3. PICK i \in 1 .. Len(s) : s[i].port_low = elem.low /\ s[i].port_high = elem.high
    BY <1>3, Zenon DEF RulesSound, PortsStored, HasRange
  <2>4. RangeHeld(c, l4, root, id, i)
    BY <1>1, <2>1, <2>2, Zenon DEF Done, Protocols
  <2> QED
    BY <2>2, <2>3, <2>4, Zenon DEF RangeHeld, PortHeld
<1>4. TreeOwns(c, l4, root)
  BY <1>3, Zenon DEF TreeOwns
<1> QED
  BY <1>2, <1>4, Zenon DEF root

\* e has the protocols and the elements of c.
SameAsked(c, e) == e.proto_defaults = c.proto_defaults /\ e.asked = c.asked

\* What depends on them only.
LEMMA AskedSame ==
    ASSUME NEW c, NEW e, SameAsked(c, e)
    PROVE  /\ OwnAreLast(c) => OwnAreLast(e)
           /\ AskedKnown(c) => AskedKnown(e)
           /\ RangesKept(c) => RangesKept(e)
           /\ \A net, item : ItemSound(c, net, item) => ItemSound(e, net, item)
           /\ \A l4, root : TreeSound(c, l4, root) => TreeSound(e, l4, root)
           /\ \A l4, root : TreeOwns(c, l4, root) => TreeOwns(e, l4, root)
           /\ \A n : IsFirstHost(e, n) => IsFirstHost(c, n)
           /\ \A host : HostAsked(c, host) => HostAsked(e, host)
           /\ \A id : ndpi_is_custom_protocol(c, id) => ndpi_is_custom_protocol(e, id)
           /\ \A n : OwnPort(e, n) => OwnPort(c, n)
<1>1. Protocols(e) = Protocols(c) /\ \A id, l4 : RangesOf(e, id, l4) = RangesOf(c, id, l4)
  BY Zenon DEF SameAsked, Protocols, RangesOf
<1>2. /\ \A l4, low, high : PortAsked(e, l4, low, high) <=> PortAsked(c, l4, low, high)
      /\ \A net, own, port : AddressAsked(e, net, own, port) <=> AddressAsked(c, net, own, port)
      /\ \A host : HostAsked(e, host) <=> HostAsked(c, host)
      /\ \A l4, p : PortNamed(e, l4, p) <=> PortNamed(c, l4, p)
      /\ \A own, l4 : AskedFor(e, own, l4) = AskedFor(c, own, l4)
      /\ \A n : Earlier(e, n) = Earlier(c, n)
  BY Zenon DEF SameAsked, PortAsked, AddressAsked, HostAsked, PortNamed, AskedFor, Earlier
<1>3. \A id : ndpi_is_custom_protocol(e, id) <=> ndpi_is_custom_protocol(c, id)
  BY Zenon DEF SameAsked, ndpi_is_custom_protocol
<1>4. \A n : OwnPort(e, n) <=> OwnPort(c, n)
  BY <1>2, <1>3, Zenon DEF SameAsked, OwnPort
<1>5. OwnAreLast(c) => OwnAreLast(e)
  BY <1>1, Zenon DEF SameAsked, OwnAreLast
<1>6. AskedKnown(c) => AskedKnown(e)
  BY <1>1, Zenon DEF SameAsked, AskedKnown
<1>7. RangesKept(c) => RangesKept(e)
  <2>1. RangesSound(c) => RangesSound(e)
    BY <1>1, <1>2, Zenon DEF RangesSound, RangeSound
  <2>2. SlotsCounted(c) => SlotsCounted(e)
    BY <1>1, <1>2, Zenon DEF SlotsCounted
  <2>3. PortsStored(c) => PortsStored(e)
    <3>1. \A id, elem : HasRange(c, id, elem) => HasRange(e, id, elem)
      BY <1>1, Zenon DEF HasRange
    <3> QED
      BY <1>4, <3>1, Zenon DEF PortsStored, SameAsked
  <2> QED
    BY <2>1, <2>2, <2>3, Zenon DEF RangesKept
<1>8. \A net, item : ItemSound(c, net, item) => ItemSound(e, net, item)
  BY <1>1, <1>2, Zenon DEF ItemSound
<1>9. \A l4, root : TreeSound(c, l4, root) => TreeSound(e, l4, root)
  BY <1>1, <1>2, Zenon DEF TreeSound, NodeSound
<1>10. \A l4, root : TreeOwns(c, l4, root) => TreeOwns(e, l4, root)
  BY <1>4, Zenon DEF TreeOwns, SameAsked
<1>11. \A n : IsFirstHost(e, n) => IsFirstHost(c, n)
  BY Zenon DEF IsFirstHost, SameAsked
<1> QED
  BY <1>2, <1>3, <1>4, <1>5, <1>6, <1>7, <1>8, <1>9, <1>10, <1>11, Zenon

\* The lists of the library are no rules.
LEMMA BuiltInNodes ==
    ASSUME NEW c, RulesSound(c)
    PROVE  LET nodes == ndpi_init_ptree_ipv4(c.nodes)
           IN  \A net \in DOMAIN nodes :
                 /\ nodes[net] \in NodeType /\ Len(net) \in Nat
                 /\ \A i \in 1 .. Len(nodes[net].uv16) : ItemSound(c, net, nodes[net].uv16[i])
                 /\ \A i \in 1 .. Len(nodes[net].data) : ItemSound(c, net, nodes[net].data[i])
<1> DEFINE nodes == ndpi_init_ptree_ipv4(c.nodes)
           item(n) == [user_value |-> BuiltInNet[n], port |-> 0]
           node(n) == IF n \notin DOMAIN BuiltInNet THEN c.nodes[n]
                      ELSE IF n \in DOMAIN c.nodes THEN [c.nodes[n] EXCEPT !.uv16[1] = item(n)]
                      ELSE [uv16 |-> << item(n) >>, data |-> << >>]
<1>1. nodes = [n \in DOMAIN c.nodes \union DOMAIN BuiltInNet |-> node(n)]
  BY Zenon DEF ndpi_init_ptree_ipv4
<1>2. ASSUME NEW net \in DOMAIN BuiltInNet
      PROVE  item(net) \in NodeItem /\ ItemSound(c, net, item(net))
  <2>0. BuiltIn \in Seq([name : STRING, tcp : Seq(DefaultRange), udp : Seq(DefaultRange)])
    BY RulesAssumption, Zenon
  <2>1. BuiltInNet[net] \in 1 .. Len(BuiltIn) /\ Len(BuiltIn) \in Nat
    <3>1. BuiltInNet[net] \in DOMAIN BuiltIn
      BY RulesAssumption, Zenon
    <3> QED
      BY <2>0, <3>1
  <2>2. c.proto_defaults \in Seq(Protocol) /\ Len(c.proto_defaults) >= Len(BuiltIn)
    BY Zenon DEF RulesSound, RulesTyped, OwnAreLast
  <2>3. item(net) \in NodeItem /\ item(net).user_value = BuiltInNet[net]
    BY <2>1 DEF NodeItem
  <2>4. BuiltInNet[net] \in Protocols(c) /\ ~IsOwn(BuiltInNet[net])
    BY <2>1, <2>2 DEF Protocols, IsOwn
  <2> QED
    BY <2>3, <2>4, Zenon DEF ItemSound
<1> SUFFICES ASSUME NEW net \in DOMAIN nodes
             PROVE  /\ nodes[net] \in NodeType /\ Len(net) \in Nat
                    /\ \A i \in 1 .. Len(nodes[net].uv16) : ItemSound(c, net, nodes[net].uv16[i])
                    /\ \A i \in 1 .. Len(nodes[net].data) : ItemSound(c, net, nodes[net].data[i])
  BY Zenon
<1> HIDE DEF nodes, item
<1>3. nodes[net] = node(net) /\ (net \in DOMAIN c.nodes \/ net \in DOMAIN BuiltInNet)
  BY <1>1, Zenon
<1>4. net \in DOMAIN c.nodes =>
        /\ c.nodes[net] \in NodeType /\ Len(net) \in Nat
        /\ \A i \in 1 .. Len(c.nodes[net].uv16) : ItemSound(c, net, c.nodes[net].uv16[i])
        /\ \A i \in 1 .. Len(c.nodes[net].data) : ItemSound(c, net, c.nodes[net].data[i])
  BY Zenon DEF RulesSound, RulesTyped, NodesSound
<1>a. Len(net) \in Nat
  BY <1>3, <1>4, RulesAssumption, Zenon
<1>5. CASE net \notin DOMAIN BuiltInNet
  BY <1>3, <1>4, <1>5, Zenon
<1>6. CASE net \in DOMAIN BuiltInNet /\ net \in DOMAIN c.nodes
  <2> DEFINE old == c.nodes[net]
             new == nodes[net]
             x == item(net)
  <2>1. new = [old EXCEPT !.uv16[1] = x]
    BY <1>3, <1>6, Zenon
  <2>2. old \in NodeType /\ x \in NodeItem /\ ItemSound(c, net, x)
    BY <1>2, <1>4, <1>6, Zenon
  <2>3. /\ \A i \in 1 .. Len(old.uv16) : ItemSound(c, net, old.uv16[i])
        /\ \A i \in 1 .. Len(old.data) : ItemSound(c, net, old.data[i])
    BY <1>4, <1>6, Zenon
  <2> HIDE DEF old, new, x
  <2> DEFINE s == old.uv16
             t == [s EXCEPT ![1] = x]
  <2>4. s \in Seq(NodeItem) /\ old.data \in Seq(NodeItem)
    BY <2>2, Zenon DEF NodeType
  <2>5. new = [old EXCEPT !.uv16 = t]
    BY <2>1, Zenon
  <2>6. t \in Seq(NodeItem) /\ Len(t) = Len(s)
    <3> HIDE DEF s
    <3> DEFINE N == Len(s)
    <3>1. N \in Nat /\ DOMAIN s = 1 .. N /\ \A i \in 1 .. N : s[i] \in NodeItem
      BY <2>4
    <3>2. t = [i \in 1 .. N |-> IF i = 1 THEN x ELSE s[i]]
      BY <3>1, Zenon
    <3> HIDE DEF t, N
    <3>3. t \in [1 .. N -> NodeItem]
      BY <2>2, <3>1, <3>2, Zenon
    <3>4. t \in Seq(NodeItem) /\ Len(t) = N
      BY <3>1, <3>3
    <3> QED
      BY <3>4, Zenon DEF N
  <2>7. \A i \in 1 .. Len(s) : t[i] = x \/ t[i] = s[i]
    <3> HIDE DEF s
    <3> QED
      BY <2>4
  <2> HIDE DEF s, t
  <2>8. new \in NodeType /\ new.uv16 = t /\ new.data = old.data
    BY <2>2, <2>5, <2>6, Zenon DEF NodeType
  <2>9. \A i \in 1 .. Len(new.uv16) : ItemSound(c, net, new.uv16[i])
    BY <2>2, <2>3, <2>6, <2>7, <2>8, Zenon DEF s
  <2> QED
    BY <1>a, <2>3, <2>8, <2>9, Zenon DEF new
<1>7. CASE net \in DOMAIN BuiltInNet /\ net \notin DOMAIN c.nodes
  <2> DEFINE x == item(net)
             new == nodes[net]
  <2>1. new = [uv16 |-> << x >>, data |-> << >>]
    BY <1>3, <1>7, Zenon
  <2>2. x \in NodeItem /\ ItemSound(c, net, x)
    BY <1>2, <1>7, Zenon
  <2> HIDE DEF x, new
  <2>3. /\ new \in NodeType /\ new.uv16 = << x >> /\ new.data = << >>
    BY <2>1, <2>2 DEF NodeType
  <2>4. \A i \in 1 .. Len(new.uv16) : new.uv16[i] = x
    BY <2>3
  <2>5. \A i \in 1 .. Len(new.data) : FALSE
    BY <2>3
  <2> QED
    BY <1>a, <2>2, <2>3, <2>4, <2>5, Zenon DEF new
<1> QED
  BY <1>3, <1>a, <1>5, <1>6, <1>7, Zenon

\* The end of the initialization leaves the state sound.
LEMMA FinalizedSound ==
    ASSUME NEW c, RulesSound(c), ~c.finalized,
           NEW e, DOMAIN e = RuleFields, SameAsked(c, e), e.finalized = TRUE, e.guess = c.guess,
           e.hosts = load_string_based_protocols(c),
           e.tcpRoot = load_default_ports(c, "tcp"), e.udpRoot = load_default_ports(c, "udp"),
           e.nodes = ndpi_init_ptree_ipv4(c.nodes)
    PROVE  RulesSound(e)
<1>1. \A net \in DOMAIN e.nodes :
        /\ e.nodes[net] \in NodeType /\ Len(net) \in Nat
        /\ \A i \in 1 .. Len(e.nodes[net].uv16) : ItemSound(c, net, e.nodes[net].uv16[i])
        /\ \A i \in 1 .. Len(e.nodes[net].data) : ItemSound(c, net, e.nodes[net].data[i])
  BY BuiltInNodes, Zenon
<1>2. RulesTyped(e)
  <2>1. e.finalized \in BOOLEAN
    BY Zenon
  <2> QED
    BY <1>1, <2>1, Zenon DEF RulesSound, RulesTyped, SameAsked
<1>3. OwnAreLast(e) /\ AskedKnown(e) /\ RangesKept(e)
  BY AskedSame, SoundParts, Zenon
<1>4. NodesSound(e)
  <2>1. \A net, item : ItemSound(c, net, item) => ItemSound(e, net, item)
    BY AskedSame, Zenon
  <2> QED
    BY <1>1, <2>1, Zenon DEF NodesSound
<1>5. HostsKept(e)
  <2>1. \A host \in DOMAIN c.hosts : host \in DOMAIN e.hosts /\ e.hosts[host] = c.hosts[host]
    BY Zenon DEF load_string_based_protocols
  <2>2. \A n : IsFirstHost(e, n) => IsFirstHost(c, n)
    BY AskedSame, Zenon
  <2>3. e.asked = c.asked /\ HostsKept(c)
    BY Zenon DEF SameAsked, RulesSound
  <2> SUFFICES ASSUME NEW n \in 1 .. Len(e.asked), IsFirstHost(e, n)
               PROVE  /\ e.asked[n].elem.host \in DOMAIN e.hosts
                      /\ e.hosts[e.asked[n].elem.host] = e.asked[n].proto
    BY Zenon DEF HostsKept
  <2>4. /\ c.asked[n].elem.host \in DOMAIN c.hosts
        /\ c.hosts[c.asked[n].elem.host] = c.asked[n].proto
    BY <2>2, <2>3, Zenon DEF HostsKept
  <2> QED
    BY <2>1, <2>3, <2>4, Zenon
<1>6. HostsSound(e)
  BY Zenon DEF HostsSound
<1>7. TreesBuilt(e)
  <2> SUFFICES ASSUME NEW l4 \in L4
               PROVE  TreeSound(e, l4, RootOf(e, l4)) /\ TreeOwns(e, l4, RootOf(e, l4))
    BY Zenon DEF TreesBuilt
  <2>1. RootOf(e, l4) = load_default_ports(c, l4)
    BY Zenon DEF RootOf, L4
  <2>2. TreeSound(c, l4, RootOf(e, l4)) /\ TreeOwns(c, l4, RootOf(e, l4))
    BY <2>1, TreeBuilt, Zenon
  <2> QED
    BY <2>2, AskedSame, Zenon
<1>8. GuessSound(e)
  BY Zenon DEF RulesSound, GuessSound
<1> QED
  BY <1>2, <1>3, <1>4, <1>5, <1>6, <1>7, <1>8, SoundParts, Zenon
-----------------------------------------------------------------------------
(* The guess.                                                              *)

\* A network of an address that a rule gave to a protocol.
AddressNamed(c, address, id, port) ==
    \E n \in 1 .. Len(c.asked) :
        /\ c.asked[n].elem.kind = "ip" /\ c.asked[n].proto = id
        /\ IsNetworkOf(c.asked[n].elem.net, address) /\ c.asked[n].elem.port \in {0, port}

\* The longest of the networks of an address is one of them.
LEMMA LongestNetwork ==
    ASSUME NEW nets, NEW address, Len(address) \in Nat, nets # {},
           \A n \in nets : IsNetworkOf(n, address) /\ Len(n) \in Nat
    PROVE  (CHOOSE n \in nets : \A other \in nets : Len(other) <= Len(n)) \in nets
<1> DEFINE Gap == {Len(address) - Len(n) : n \in nets}
<1>1. \A n \in nets : Len(n) \in Nat /\ Len(n) <= Len(address)
  BY Zenon DEF IsNetworkOf
<1>2. Gap \subseteq Nat /\ Gap # {}
  BY <1>1
<1>3. PICK k \in Gap : \A m \in Gap : k <= m
  BY <1>2, LeastElement, Zenon
<1>4. PICK best \in nets : k = Len(address) - Len(best)
  BY Zenon
<1>5. ASSUME NEW other \in nets PROVE Len(other) <= Len(best)
  <2>1. Len(address) - Len(other) \in Gap
    BY Zenon
  <2>2. Len(address) - Len(best) <= Len(address) - Len(other)
    BY <1>3, <1>4, <2>1, Zenon
  <2>3. Len(other) \in Nat /\ Len(best) \in Nat
    BY <1>1, Zenon
  <2> QED
    BY <2>2, <2>3
<1> QED
  BY <1>4, <1>5, Zenon

\* A custom protocol that the addresses of a flow give was asked for one of them.
LEMMA AddressMatch ==
    ASSUME NEW c, RulesSound(c), NEW address, Len(address) \in Nat, NEW port,
           ndpi_is_custom_protocol(c, ndpi_network_port_ptree_match(c, address, port))
    PROVE  AddressNamed(c, address, ndpi_network_port_ptree_match(c, address, port), port)
<1> DEFINE id     == ndpi_network_port_ptree_match(c, address, port)
           nets   == {n \in DOMAIN c.nodes : IsNetworkOf(n, address)}
           net    == CHOOSE n \in nets : \A other \in nets : Len(other) <= Len(n)
           best   == c.nodes[net]
           fits   == {i \in 1 .. Len(best.uv16) : best.uv16[i].port \in {0, port}}
           listed == {i \in 1 .. Len(best.data) : best.data[i].port = port}
           Entry(item) == ItemSound(c, net, item) /\ item.port \in {0, port} /\ item.user_value = id
<1>1. /\ DOMAIN c.proto_defaults \subseteq Nat \ {0} /\ DOMAIN c.proto_defaults = Protocols(c)
  <2>1. c.proto_defaults \in Seq(Protocol)
    BY Zenon DEF RulesSound, RulesTyped
  <2> QED
    BY <2>1 DEF Protocols
<1>2. id # 0 /\ id \in Protocols(c) /\ IsOwn(id)
  BY <1>1, Zenon DEF ndpi_is_custom_protocol, RulesSound, OwnAreLast
<1>3. id = IF nets = {} \/ (num_custom_protocols(c) = 0 /\ address \in PrivateAddress) THEN 0
           ELSE IF fits # {} THEN best.uv16[Least(fits)].user_value
           ELSE IF listed # {} THEN best.data[Least(listed)].user_value ELSE 0
  BY Zenon DEF ndpi_network_port_ptree_match
<1> HIDE DEF id
<1>4. nets # {} /\ (fits # {} \/ listed # {})
  BY <1>2, <1>3, Zenon
<1>5. net \in nets
  BY <1>4, LongestNetwork, Zenon DEF RulesSound, RulesTyped
<1>6. /\ net \in DOMAIN c.nodes /\ IsNetworkOf(net, address) /\ best \in NodeType
      /\ \A i \in 1 .. Len(best.uv16) : ItemSound(c, net, best.uv16[i])
      /\ \A i \in 1 .. Len(best.data) : ItemSound(c, net, best.data[i])
  BY <1>5, Zenon DEF RulesSound, RulesTyped, NodesSound
<1>7. \E item : Entry(item)
  <2>1. CASE fits # {}
    <3>1. fits \subseteq Nat
      BY <1>6 DEF NodeType
    <3>2. Least(fits) \in fits
      BY <2>1, <3>1, LeastIs, Zenon
    <3>3. id = best.uv16[Least(fits)].user_value
      BY <1>2, <1>3, <2>1, Zenon
    <3> QED
      BY <1>6, <3>2, <3>3, Zenon
  <2>2. CASE fits = {}
    <3>0. listed # {}
      BY <1>4, <2>2, Zenon
    <3>1. listed \subseteq Nat
      BY <1>6 DEF NodeType
    <3>2. Least(listed) \in listed
      BY <3>0, <3>1, LeastIs, Zenon
    <3>3. id = best.data[Least(listed)].user_value
      BY <1>2, <1>3, <2>2, <3>0, Zenon
    <3> QED
      BY <1>6, <3>2, <3>3, Zenon
  <2> QED
    BY <2>1, <2>2, Zenon
<1>8. PICK item : Entry(item)
  BY <1>7, Zenon
<1>9. AddressAsked(c, net, id, item.port) /\ item.port \in {0, port} /\ IsNetworkOf(net, address)
  BY <1>2, <1>6, <1>8, Zenon DEF ItemSound
<1> QED
  BY <1>9, Zenon DEF AddressAsked, AddressNamed, id

\* e is c but for its last guess and the rules counted.
SameButGuess(c, e) ==
    /\ DOMAIN e = RuleFields /\ SameAsked(c, e) /\ e.finalized = c.finalized
    /\ e.nodes = c.nodes /\ e.hosts = c.hosts /\ e.tcpRoot = c.tcpRoot /\ e.udpRoot = c.udpRoot

\* All but the guess is sound still.
LEMMA AllButGuess ==
    ASSUME NEW c, RulesSound(c), NEW e, SameButGuess(c, e), GuessSound(e)
    PROVE  RulesSound(e)
<1>1. SameAsked(c, e)
  BY Zenon DEF SameButGuess
<1>2. RulesTyped(e)
  BY Zenon DEF RulesSound, RulesTyped, SameButGuess, SameAsked
<1>3. OwnAreLast(e) /\ AskedKnown(e) /\ RangesKept(e)
  BY <1>1, AskedSame, SoundParts, Zenon
<1>4. NodesSound(e)
  <2>1. \A net, item : ItemSound(c, net, item) => ItemSound(e, net, item)
    BY <1>1, AskedSame, Zenon
  <2>2. e.nodes = c.nodes
    BY Zenon DEF SameButGuess
  <2> QED
    BY <2>1, <2>2, Zenon DEF RulesSound, NodesSound
<1>5. HostsKept(e)
  <2>1. e.hosts = c.hosts /\ e.asked = c.asked
    BY Zenon DEF SameButGuess, SameAsked
  <2>2. \A n : IsFirstHost(e, n) => IsFirstHost(c, n)
    BY <1>1, AskedSame, Zenon
  <2> QED
    BY <2>1, <2>2, Zenon DEF RulesSound, HostsKept
<1>6. HostsSound(e)
  <2>1. \A host : HostAsked(c, host) => HostAsked(e, host)
    BY <1>1, AskedSame, Zenon
  <2> QED
    BY <2>1, Zenon DEF RulesSound, HostsSound, SameButGuess
<1>7. TreesBuilt(e)
  <2> SUFFICES ASSUME NEW l4 \in L4, e.finalized
               PROVE  TreeSound(e, l4, RootOf(e, l4)) /\ TreeOwns(e, l4, RootOf(e, l4))
    BY Zenon DEF TreesBuilt
  <2>1. RootOf(e, l4) = RootOf(c, l4) /\ c.finalized
    BY Zenon DEF RootOf, SameButGuess
  <2>2. TreeSound(c, l4, RootOf(c, l4)) /\ TreeOwns(c, l4, RootOf(c, l4))
    BY <2>1, Zenon DEF RulesSound, TreesBuilt
  <2>3. TreeSound(e, l4, RootOf(c, l4)) /\ TreeOwns(e, l4, RootOf(c, l4))
    BY <1>1, <2>2, AskedSame, Zenon
  <2> QED
    BY <2>1, <2>3, Zenon
<1> QED
  BY <1>2, <1>3, <1>4, <1>5, <1>6, <1>7, SoundParts, Zenon

\* A port of the flow that a rule names.
FlowPortNamed(c, flow) ==
    PortNamed(c, flow.l4, flow.dport) \/ (UseSport /\ PortNamed(c, flow.l4, flow.sport))

\* A port that gives a flow the protocol of a rule is one that a rule names.
LEMMA PortMatch ==
    ASSUME NEW c, RulesSound(c), c.finalized, NEW flow \in GuessFlow, NEW found,
           found = ndpi_get_guessed_protocol_id(c, flow),
           ndpi_is_custom_protocol(c, found.proto_idx) \/ (found.customUserProto /\ found.proto_idx # 0)
    PROVE  FlowPortNamed(c, flow)
<1> DEFINE root == RootOf(c, flow.l4)
<1>0. flow.l4 \in L4
  BY RulesAssumption, Zenon DEF L4
<1>1. TreeSound(c, flow.l4, root)
  BY <1>0, Zenon DEF RulesSound, TreesBuilt
<1>2. found = IF flow.dport \in DOMAIN root THEN root[flow.dport]
              ELSE IF UseSport /\ flow.sport \in DOMAIN root THEN root[flow.sport] ELSE NoNode
  BY Zenon DEF ndpi_get_guessed_protocol_id, RootOf
<1>3. found.proto_idx # 0
  <2>1. c.proto_defaults \in Seq(Protocol)
    BY Zenon DEF RulesSound, RulesTyped
  <2>2. 0 \notin DOMAIN c.proto_defaults
    BY <2>1
  <2> QED
    BY <2>2, Zenon DEF ndpi_is_custom_protocol
<1>4. found # NoNode
  BY <1>3 DEF NoNode
<1>5. DOMAIN c.proto_defaults = Protocols(c)
  <2>1. c.proto_defaults \in Seq(Protocol)
    BY Zenon DEF RulesSound, RulesTyped
  <2> QED
    BY <2>1 DEF Protocols
<1>6. IsOwn(found.proto_idx) \/ found.customUserProto
  BY <1>5, Zenon DEF ndpi_is_custom_protocol, RulesSound, OwnAreLast
<1> HIDE DEF root
<1>7. \A p \in DOMAIN root : found = root[p] => PortNamed(c, flow.l4, p)
  BY <1>1, <1>6, Zenon DEF TreeSound, NodeSound, root
<1> QED
  BY <1>2, <1>4, <1>7, Zenon DEF FlowPortNamed

\* An address of the flow that a rule gave to the protocol.
FlowAddressNamed(c, flow, id) ==
    \/ AddressNamed(c, flow.server, id, flow.dport)
    \/ UseClient /\ AddressNamed(c, flow.client, id, flow.sport)

\* An address that gives a flow the protocol of a rule is one that a rule gave to it.
LEMMA HostMatch ==
    ASSUME NEW c, RulesSound(c), NEW flow \in GuessFlow, NEW id,
           id = ndpi_guess_host_protocol_id(c, flow), ndpi_is_custom_protocol(c, id)
    PROVE  FlowAddressNamed(c, flow, id)
<1>1. Len(flow.client) \in Nat /\ Len(flow.server) \in Nat
  BY RulesAssumption, Zenon
<1>2. \/ id = ndpi_network_port_ptree_match(c, flow.server, flow.dport)
      \/ UseClient /\ id = ndpi_network_port_ptree_match(c, flow.client, flow.sport)
  BY Zenon DEF ndpi_guess_host_protocol_id
<1> QED
  BY <1>1, <1>2, AddressMatch, Zenon DEF FlowAddressNamed

\* What a guess says of the rules.
GuessIs(flow, guess, app, custom) ==
    guess.flow = flow /\ guess.app = app /\ (guess.custom <=> custom)

\* The three outcomes of a guess.
LEMMA GuessCases ==
    ASSUME NEW c, NEW flow, NEW found, found = ndpi_get_guessed_protocol_id(c, flow),
           NEW by_ip, by_ip = ndpi_guess_host_protocol_id(c, flow),
           NEW guess, guess = do_guess(c, flow)
    PROVE  IF ndpi_is_custom_protocol(c, found.proto_idx)
              \/ (found.customUserProto /\ found.proto_idx # 0)
           THEN GuessIs(flow, guess, found.proto_idx, TRUE)
           ELSE IF ndpi_is_custom_protocol(c, by_ip) THEN GuessIs(flow, guess, by_ip, TRUE)
           ELSE GuessIs(flow, guess, 0, FALSE)
<1> DEFINE port == ndpi_is_custom_protocol(c, found.proto_idx)
                   \/ (found.customUserProto /\ found.proto_idx # 0)
<1>1. guess = IF port
              THEN [flow |-> flow, app |-> found.proto_idx, master |-> 0, custom |-> TRUE]
              ELSE IF ndpi_is_custom_protocol(c, by_ip)
              THEN [flow |-> flow, app |-> by_ip, master |-> found.proto_idx, custom |-> TRUE]
              ELSE [NoGuess EXCEPT !.flow = flow]
  BY Zenon DEF do_guess
<1> HIDE DEF port
<1>2. CASE port
  <2>1. guess = [flow |-> flow, app |-> found.proto_idx, master |-> 0, custom |-> TRUE]
    BY <1>1, <1>2, Zenon
  <2>2. GuessIs(flow, guess, found.proto_idx, TRUE)
    BY <2>1 DEF GuessIs
  <2> QED
    BY <1>2, <2>2, Zenon DEF port
<1>3. CASE ~port /\ ndpi_is_custom_protocol(c, by_ip)
  <2>1. guess = [flow |-> flow, app |-> by_ip, master |-> found.proto_idx, custom |-> TRUE]
    BY <1>1, <1>3, Zenon
  <2>2. GuessIs(flow, guess, by_ip, TRUE)
    BY <2>1 DEF GuessIs
  <2> QED
    BY <1>3, <2>2, Zenon DEF port
<1>4. CASE ~port /\ ~ndpi_is_custom_protocol(c, by_ip)
  <2>1. guess = [NoGuess EXCEPT !.flow = flow]
    BY <1>1, <1>4, Zenon
  <2>2. GuessIs(flow, guess, 0, FALSE)
    BY <2>1, Zenon DEF GuessIs, NoGuess
  <2> QED
    BY <1>4, <2>2, Zenon DEF port
<1> QED
  BY <1>2, <1>3, <1>4, Zenon

\* The guess of a flow respects the rules.
LEMMA GuessedSound ==
    ASSUME NEW c, RulesSound(c), c.finalized, NEW flow \in GuessFlow,
           NEW e, SameButGuess(c, e), e.guess = do_guess(c, flow)
    PROVE  RulesSound(e)
<1> DEFINE found == ndpi_get_guessed_protocol_id(c, flow)
           by_ip == ndpi_guess_host_protocol_id(c, flow)
           port  == ndpi_is_custom_protocol(c, found.proto_idx)
                    \/ (found.customUserProto /\ found.proto_idx # 0)
           root  == RootOf(c, flow.l4)
<1>1. IF port THEN GuessIs(flow, e.guess, found.proto_idx, TRUE)
      ELSE IF ndpi_is_custom_protocol(c, by_ip) THEN GuessIs(flow, e.guess, by_ip, TRUE)
      ELSE GuessIs(flow, e.guess, 0, FALSE)
  BY GuessCases, Zenon
<1>2. port => FlowPortNamed(c, flow)
  BY PortMatch, Zenon
<1>3. ndpi_is_custom_protocol(c, by_ip) => FlowAddressNamed(c, flow, by_ip)
  BY HostMatch, Zenon
<1>4. /\ e.asked = c.asked /\ e.finalized /\ SameAsked(c, e) /\ e.guess.flow = flow
  BY <1>1, Zenon DEF SameButGuess, SameAsked, GuessIs
<1>5. flow.dport \in DOMAIN root => found = root[flow.dport]
  BY Zenon DEF ndpi_get_guessed_protocol_id, RootOf
<1>6. /\ flow.l4 \in L4 /\ TreeSound(c, flow.l4, root) /\ TreeOwns(c, flow.l4, root)
  BY RulesAssumption, Zenon DEF L4, RulesSound, TreesBuilt
<1> HIDE DEF found, by_ip, root
<1>7. GuessOwn(e)
  <2> SUFFICES ASSUME NEW n \in 1 .. Len(e.asked), OwnPort(e, n),
                      e.asked[n].elem.kind = e.guess.flow.l4,
                      e.asked[n].elem.low = e.guess.flow.dport
               PROVE  /\ e.guess.custom
                      /\ ndpi_is_custom_protocol(e, e.guess.app)
                      /\ e.guess.app >= e.asked[n].proto
    BY Zenon DEF GuessOwn
  <2>1. OwnPort(c, n) /\ n \in 1 .. Len(c.asked)
    BY <1>4, AskedSame, Zenon
  <2>2. flow.dport \in DOMAIN root /\ root[flow.dport].proto_idx >= c.asked[n].proto
    BY <1>4, <1>6, <2>1, Zenon DEF TreeOwns
  <2>3. found.proto_idx \in Protocols(c) /\ found.proto_idx >= c.asked[n].proto
    BY <1>5, <1>6, <2>2, Zenon DEF TreeSound, NodeSound
  <2>4. c.proto_defaults \in Seq(Protocol) /\ OwnAreLast(c) /\ c.asked[n].proto \in Protocols(c)
    BY <2>1, Zenon DEF RulesSound, RulesTyped, AskedKnown
  <2>5. IsOwn(c.asked[n].proto)
    BY <2>1, <2>4, Zenon DEF OwnPort, ndpi_is_custom_protocol, OwnAreLast
  <2>6. IsOwn(found.proto_idx)
    BY <2>3, <2>4, <2>5, RulesAssumption DEF IsOwn, Protocols
  <2>7. DOMAIN c.proto_defaults = Protocols(c)
    BY <2>4 DEF Protocols
  <2>8. ndpi_is_custom_protocol(c, found.proto_idx)
    BY <2>3, <2>4, <2>6, <2>7, Zenon DEF ndpi_is_custom_protocol, OwnAreLast
  <2>9. e.guess.app = found.proto_idx /\ e.guess.custom
    BY <1>1, <2>8, Zenon DEF GuessIs
  <2>10. ndpi_is_custom_protocol(e, found.proto_idx)
    BY <1>4, <2>8, AskedSame, Zenon
  <2> QED
    BY <1>4, <2>3, <2>9, <2>10, Zenon
<1>8. GuessNamed(e)
  <2> SUFFICES ASSUME e.guess.custom
               PROVE  \E n \in 1 .. Len(e.asked) : NamesFlow(e.asked[n], e.guess)
    BY Zenon DEF GuessNamed
  <2>1. CASE port
    BY <1>2, <1>4, <2>1, Zenon DEF FlowPortNamed, PortNamed, NamesFlow
  <2>2. CASE ~port
    <3>1. ndpi_is_custom_protocol(c, by_ip) /\ e.guess.app = by_ip
      BY <1>1, <2>2, Zenon DEF GuessIs
    <3> QED
      BY <1>3, <1>4, <3>1, Zenon DEF FlowAddressNamed, AddressNamed, NamesFlow
  <2> QED
    BY <2>1, <2>2, Zenon
<1>9. GuessSound(e)
  BY <1>4, <1>7, <1>8, Zenon DEF GuessSound
<1> QED
  BY <1>9, AllButGuess, Zenon
-----------------------------------------------------------------------------
(* The invariant holds.                                                    *)

\* A new module is sound: it has no rule yet.
LEMMA InitialRules == RulesSound(NewRules)
<1> DEFINE c == NewRules
           Row == [name : STRING, tcp : Seq(DefaultRange), udp : Seq(DefaultRange)]
<1>1. BuiltIn \in Seq(Row)
  BY RulesAssumption, Zenon
<1>a. \A row \in Row : /\ row.name \in STRING
                      /\ row.tcp \in Seq(DefaultRange) /\ row.udp \in Seq(DefaultRange)
  BY Zenon
<1>2. /\ DOMAIN c = RuleFields
      /\ c.proto_defaults = [i \in DOMAIN BuiltIn |->
             [name |-> BuiltIn[i].name, isCustomProto |-> FALSE, tcp |-> BuiltIn[i].tcp,
              udp |-> BuiltIn[i].udp]]
      /\ c.asked = << >> /\ c.nodes = << >> /\ c.hosts = << >>
      /\ c.finalized = FALSE /\ c.guess = NoGuess
  BY Zenon DEF NewRules, RuleFields
<1> HIDE DEF c, Row
<1>b. \A i \in DOMAIN BuiltIn : BuiltIn[i] \in Row
  BY <1>1
<1>3. c.proto_defaults \in Seq(Protocol) /\ Protocols(c) = 1 .. Len(BuiltIn)
      /\ Len(c.proto_defaults) = Len(BuiltIn)
  <2>1. Len(BuiltIn) \in Nat /\ DOMAIN BuiltIn = 1 .. Len(BuiltIn)
    BY <1>1
  <2>2. ASSUME NEW i \in DOMAIN BuiltIn
        PROVE  [name |-> BuiltIn[i].name, isCustomProto |-> FALSE, tcp |-> BuiltIn[i].tcp,
                udp |-> BuiltIn[i].udp] \in Protocol
    <3>1. /\ BuiltIn[i].name \in STRING
          /\ BuiltIn[i].tcp \in Seq(DefaultRange) /\ BuiltIn[i].udp \in Seq(DefaultRange)
      BY <1>a, <1>b, Zenon
    <3>2. \A s \in Seq(DefaultRange) : s \in Seq(PortRange)
      <4>1. DefaultRange \subseteq PortRange
        BY Zenon DEF DefaultRange, PortRange
      <4> QED
        BY <4>1
    <3>3. BuiltIn[i].tcp \in Seq(PortRange) /\ BuiltIn[i].udp \in Seq(PortRange)
      BY <3>1, <3>2, Zenon
    <3> QED
      BY <3>1, <3>3, Zenon DEF Protocol
  <2>3. c.proto_defaults \in [1 .. Len(BuiltIn) -> Protocol]
    BY <1>2, <2>1, <2>2, Zenon
  <2> QED
    BY <2>1, <2>3 DEF Protocols
<1>4. /\ Len(c.asked) = 0 /\ 1 .. Len(c.asked) = {}
  BY <1>2
<1>5. DOMAIN c.nodes = {} /\ DOMAIN c.hosts = {}
  BY <1>2
<1>6. RulesTyped(c)
  <2>1. c.asked \in Seq(AskedElement)
    BY <1>2
  <2>2. c.finalized \in BOOLEAN
    BY <1>2, Zenon
  <2> QED
    BY <1>2, <1>3, <1>5, <2>1, <2>2, Zenon DEF RulesTyped
<1>7. OwnAreLast(c)
  <2>1. Len(BuiltIn) \in Nat /\ DOMAIN BuiltIn = 1 .. Len(BuiltIn)
    BY <1>1
  <2>2. \A id \in Protocols(c) : ~c.proto_defaults[id].isCustomProto
    BY <1>2, <1>3, <2>1
  <2>3. \A id \in Protocols(c) : ~IsOwn(id)
    BY <1>3, <2>1 DEF IsOwn
  <2>4. Len(c.proto_defaults) >= Len(BuiltIn)
    BY <1>3, <2>1
  <2> QED
    BY <2>2, <2>3, <2>4, Zenon DEF OwnAreLast
<1>8. RangesKept(c)
  <2>1. \A id \in Protocols(c) : ~IsOwn(id)
    BY <1>1, <1>3 DEF IsOwn
  <2>2. ASSUME NEW id \in Protocols(c), NEW l4 \in L4, NEW j \in 1 .. Len(RangesOf(c, id, l4))
        PROVE  ~RangesOf(c, id, l4)[j].is_custom
    <3>1. id \in 1 .. Len(BuiltIn) /\ id \in DOMAIN BuiltIn
      BY <1>1, <1>3
    <3>2. /\ c.proto_defaults[id].tcp = BuiltIn[id].tcp
          /\ c.proto_defaults[id].udp = BuiltIn[id].udp
      BY <1>2, <3>1
    <3>3. BuiltIn[id].tcp \in Seq(DefaultRange) /\ BuiltIn[id].udp \in Seq(DefaultRange)
      BY <1>a, <1>b, <3>1, Zenon
    <3>4. RangesOf(c, id, l4) \in Seq(DefaultRange)
      BY <3>2, <3>3, Zenon DEF RangesOf
    <3>5. RangesOf(c, id, l4)[j] \in DefaultRange
      BY <3>4
    <3> QED
      BY <3>5, Zenon DEF DefaultRange
  <2>3. RangesSound(c)
    BY <2>1, <2>2, Zenon DEF RangesSound, RangeSound
  <2> QED
    BY <1>4, <2>1, <2>3, Zenon DEF RangesKept, SlotsCounted, PortsStored
<1>9. AskedKnown(c) /\ NodesSound(c) /\ HostsKept(c) /\ HostsSound(c)
  BY <1>4, <1>5, Zenon DEF AskedKnown, NodesSound, HostsKept, HostsSound
<1>10. TreesBuilt(c)
  BY <1>2, Zenon DEF TreesBuilt
<1>11. GuessSound(c)
  <2>1. c.guess.flow.l4 = "none"
    BY <1>2 DEF NoGuess
  <2> QED
    BY <2>1, Zenon DEF GuessSound
<1> QED
  BY <1>6, <1>7, <1>8, <1>9, <1>10, <1>11, SoundParts, Zenon DEF c

\* Every step leaves the state sound.
LEMMA RulesStep ==
    ASSUME RulesInv, [RulesNext]_rules
    PROVE  RulesInv'
<1>1. ASSUME NEW rule \in Rule, ndpi_handle_rule(rule)
      PROVE  RulesSound(rules')
  <2> DEFINE c == HandledRule(rules, rule)
  <2>1. RulesSound(c)
    BY RuleSound, Zenon DEF RulesInv
  <2>2. rules' = [c EXCEPT !.loaded = @ + 1]
    BY <1>1, Zenon DEF ndpi_handle_rule
  <2> HIDE DEF c
  <2>3. DOMAIN c = RuleFields
    BY <2>1, Zenon DEF RulesSound, RulesTyped
  <2>4. SameButGuess(c, rules') /\ rules'.guess = c.guess
    BY <2>2, <2>3, Zenon DEF SameButGuess, SameAsked, RuleFields
  <2>5. GuessSound(rules')
    <3>1. SameAsked(c, rules') /\ rules'.asked = c.asked /\ rules'.finalized = c.finalized
      BY <2>4, Zenon DEF SameButGuess, SameAsked
    <3>2. /\ \A id : ndpi_is_custom_protocol(c, id) => ndpi_is_custom_protocol(rules', id)
          /\ \A n : OwnPort(rules', n) => OwnPort(c, n)
      BY <3>1, AskedSame, Zenon
    <3>3. GuessOwn(c) => GuessOwn(rules')
      BY <2>4, <3>1, <3>2, Zenon DEF GuessOwn
    <3>4. GuessNamed(c) => GuessNamed(rules')
      BY <2>4, <3>1, Zenon DEF GuessNamed
    <3> QED
      BY <2>1, <2>4, <3>1, <3>3, <3>4, Zenon DEF RulesSound, GuessSound
  <2> QED
    BY <2>1, <2>4, <2>5, AllButGuess, Zenon
<1>2. ASSUME FinalizeRules
      PROVE  RulesSound(rules')
  <2>1. DOMAIN rules = RuleFields
    BY Zenon DEF RulesInv, RulesSound, RulesTyped
  <2>2. /\ DOMAIN rules' = RuleFields /\ SameAsked(rules, rules')
        /\ rules'.finalized = TRUE /\ rules'.guess = rules.guess
        /\ rules'.hosts = load_string_based_protocols(rules)
        /\ rules'.tcpRoot = load_default_ports(rules, "tcp")
        /\ rules'.udpRoot = load_default_ports(rules, "udp")
        /\ rules'.nodes = ndpi_init_ptree_ipv4(rules.nodes)
    BY <1>2, <2>1, Zenon DEF FinalizeRules, RuleFields, SameAsked
  <2>3. ~rules.finalized
    BY <1>2, Zenon DEF FinalizeRules
  <2> QED
    BY <2>2, <2>3, FinalizedSound, Zenon DEF RulesInv
<1>3. ASSUME NEW flow \in GuessFlow, GuessNewFlow(flow)
      PROVE  RulesSound(rules')
  <2>1. DOMAIN rules = RuleFields
    BY Zenon DEF RulesInv, RulesSound, RulesTyped
  <2>2. rules' = [rules EXCEPT !.guess = do_guess(rules, flow)] /\ rules.finalized
    BY <1>3, Zenon DEF GuessNewFlow
  <2>3. SameButGuess(rules, rules') /\ rules'.guess = do_guess(rules, flow)
    BY <2>1, <2>2, Zenon DEF SameButGuess, SameAsked, RuleFields
  <2> QED
    BY <2>2, <2>3, GuessedSound, Zenon DEF RulesInv
<1>4. CASE UNCHANGED rules
  BY <1>4, Zenon DEF RulesInv
<1> QED
  BY <1>1, <1>2, <1>3, <1>4, Zenon DEF RulesNext, RulesInv

\* What the invariant says of the rules.
LEMMA SoundHonoured == RulesInv => RulesHonoured
<1> SUFFICES ASSUME RulesInv PROVE RulesHonoured
  BY Zenon
<1>1. rules.asked \in Seq(AskedElement)
  BY Zenon DEF RulesInv, RulesSound, RulesTyped
<1>2. DOMAIN rules.asked = 1 .. Len(rules.asked)
  BY <1>1
<1>3. rules.guess.flow.l4 # "none" => GuessOwn(rules) /\ GuessNamed(rules)
  BY Zenon DEF RulesInv, RulesSound, GuessSound
<1>4. HostsKept(rules)
  BY Zenon DEF RulesInv, RulesSound
<1> QED
  BY <1>2, <1>3, <1>4, Zenon DEF RulesHonoured, GuessOwn, GuessNamed, HostsKept, IsFirstHost, IsHost

\* For any built-in protocols, any rules in any order and any flows: a flow to the
\* first port that a rule gave to a protocol of its own is reported as a custom
\* protocol, that one or a later one; a flow is reported on account of a rule only if
\* some rule names its ports or its addresses; and a host name stays with the first
\* rule that names it (ndpi_handle_rule, addDefaultPort, do_guess).
THEOREM RulesAreHonoured == RulesSpec => []RulesHonoured
<1>1. RulesInit => RulesInv
  BY InitialRules, Zenon DEF RulesInit, RulesInv
<1>2. RulesInv /\ [RulesNext]_rules => RulesInv'
  BY RulesStep, Zenon
<1> QED
  BY <1>1, <1>2, SoundHonoured, PTL DEF RulesSpec
=============================================================================
