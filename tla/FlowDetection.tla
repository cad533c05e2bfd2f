---------------------------- MODULE FlowDetection ----------------------------
(***************************************************************************)
(* The life of one flow inside the library: ndpi_detection_process_packet, *)
(* called by the application for every packet, and ndpi_detection_giveup.  *)
(* A packet is one pass of a small program: the entry checks, the fast     *)
(* callback, the scan of the dissectors, the subprotocols and the epilogue *)
(* (pc), because each dissector called on the way may change the flow.     *)
(*                                                                         *)
(* A dissector is its contract: what the callbacks under protocols/ do to  *)
(* the fields this module keeps.                                           *)
(***************************************************************************)
EXTENDS FlowClassify, FiniteSets

CONSTANTS Dissector,          \* registered dissectors
          CallbackBuffer,     \* the callback_buffer_* arrays, by buffer name
          Selection,          \* ndpi_selection_bitmask of a dissector
          DissectorOf,        \* proto_defaults[p].dissector_idx
          Subprotocols,       \* proto_defaults[p].subprotocols
          Verdict,            \* the (upper, lower, confidence) a dissector may set
          PartialVerdict,     \* what it may leave in fast_callback_protocol_id
          ExtraMax,           \* max_extra_packets_to_check values it may ask for
          Monitors,           \* extra dissections that may end in MONITORING
          MonitorsAtOnce,     \* dissectors that move the flow there themselves
          PacketKind,         \* the packets the application may submit
          PortGuess, IpGuess, \* what the port and IP tables may answer
          HitSets,            \* which shared lookups may succeed together
          NbpfProtocol,       \* protocol of a matching nBPF rule, or UNKNOWN
          FpcDnsProtocol,     \* what the FPC DNS cache returns on a hit
          FpcEnabled,         \* cfg.fpc_enabled
          PacketsLimit,       \* cfg.max_packets_to_process, 0 = no limit
          MAX_PACKET_COUNTER, \* where all_packets_counter saturates
          U16, U8,            \* 2^16 and 2^8: where num_processed_pkts and
                              \* num_extra_packets_checked wrap
          MaxPackets,         \* bound: packets explored per flow (>= U16: all)
          MaxSwitches         \* bound: changes of the extra dissection

VARIABLES cls,        \* the classification, see FlowClassify
          l4_proto,   \* flow->l4_proto
          guess,      \* protocol_id_already_guessed and the two guesses
          fast,       \* fast_callback_protocol_id
          extra,      \* extra_packets_func and its two counters
          cnt,        \* num_processed_pkts, all_packets_counter
          fpc,        \* first packet classification
          excluded,   \* excluded_dissectors_bitmask
          pc, loc     \* where the packet being processed is, its locals

vars == <<cls, l4_proto, guess, fast, extra, cnt, fpc, excluded, pc, loc>>

NULL == "NULL"

Feature == {"TCP", "UDP", "TCP_OR_UDP", "HAS_PAYLOAD", "NO_TCP_RETRANSMISSION"}

Packet == [valid : BOOLEAN, l4hdr : BOOLEAN, payload : BOOLEAN, retransmission : BOOLEAN]

BufferName == {"tcp_payload", "tcp_no_payload", "udp", "non_tcp_udp"}

ASSUME DetectionAssumption ==
    /\ NULL \notin Dissector
    /\ CallbackBuffer \in [BufferName -> Seq(Dissector)]
    /\ Selection \in [Dissector -> SUBSET Feature]
    /\ DissectorOf \in [Protocol -> Dissector \union {NULL}]
    /\ Subprotocols \in [Protocol -> Seq(Protocol)]
    /\ Verdict \in [Dissector -> SUBSET (Protocol \X ProtocolOrUnknown \X Confidence)]
    /\ PartialVerdict \in [Dissector -> SUBSET Protocol]
    /\ ExtraMax \in [Dissector -> SUBSET (0..(U8 - 1))]
    /\ Monitors \subseteq Dissector
    /\ MonitorsAtOnce \subseteq Dissector
    /\ PacketKind \subseteq Packet
    /\ PortGuess \subseteq ProtocolOrUnknown
    /\ IpGuess \subseteq ProtocolOrUnknown
    /\ HitSets \subseteq SUBSET Hit
    /\ NbpfProtocol \in ProtocolOrUnknown
    /\ FpcDnsProtocol \in Protocol
    /\ FpcEnabled \in BOOLEAN
    /\ PacketsLimit \in Nat
    /\ MAX_PACKET_COUNTER \in Nat
    /\ U16 \in Nat \ {0} /\ U8 \in Nat \ {0}
    /\ MaxPackets \in Nat /\ MaxSwitches \in Nat

\* A dissector that starts monitoring (s7comm.c) names one protocol, without
\* subprotocols, that reconciliation leaves alone, and is no subprotocol itself.
ASSUME MonitorsAssumption ==
    /\ \A d \in MonitorsAtOnce : \A v \in Verdict[d] :
         /\ v[2] = UNKNOWN
         /\ Subprotocols[v[1]] = <<>>
         /\ v[1] \notin {"MICROSOFT_AZURE", "MICROSOFT", "STUN", "TLS"}
    /\ \A p \in Protocol : \A i \in DOMAIN Subprotocols[p] :
         DissectorOf[Subprotocols[p][i]] \notin MonitorsAtOnce

\* Only ndpi_internal_detection_giveup() asks for DPI_PARTIAL_CACHE.
ASSUME ConfidenceAssumption ==
    \A d \in Dissector : \A v \in Verdict[d] : v[3] # "DPI_PARTIAL_CACHE"

NoPacket == [valid |-> FALSE, l4hdr |-> FALSE, payload |-> FALSE, retransmission |-> FALSE]

\* Locals of the packet being processed: the packet, the dissector the fast
\* callback ran (func), the position of the scan (a), the subprotocols still
\* to try, and whether any dissector was called (num_calls # 0).
IdleLocals == [pkt |-> NoPacket, func |-> NULL, a |-> 1, subs |-> <<>>, called |-> FALSE]

Init ==
    /\ cls = NewClassification
    /\ l4_proto \in {"TCP", "UDP", "OTHER"}
    /\ guess = [done |-> FALSE, port |-> UNKNOWN, ip |-> UNKNOWN]
    /\ fast = UNKNOWN
    /\ extra = [func |-> NULL, num |-> 0, max |-> 0, switches |-> 0]
    /\ cnt = [processed |-> 0, all |-> 0]
    /\ fpc = [upper |-> UNKNOWN, lower |-> UNKNOWN, confidence |-> "UNKNOWN"]
    /\ excluded = {}
    /\ pc = "idle"
    /\ loc = IdleLocals

Env(hits) ==
    [l4 |-> l4_proto, by_port |-> guess.port, by_ip |-> guess.ip, fast |-> fast, hits |-> hits]
-----------------------------------------------------------------------------
(* What a dissector may do to the flow when it is called.                  *)

\* The verdicts dissector d can reach on this flow: the ones that claim a match
\* by IP or by port (telegram.c, tcp_udp.c) repeat guessed_protocol_id_by_ip.
VerdictOf(d) ==
    {v \in Verdict[d] : v[3] \in {"MATCH_BY_IP", "MATCH_BY_PORT"} => v[1] = guess.ip}

Dissect(d) ==
    \/ UNCHANGED <<cls, fast, extra, excluded>>
    \/ /\ excluded' = excluded \union {d}
       /\ UNCHANGED <<cls, fast, extra>>
    \/ /\ \E p \in PartialVerdict[d] : fast' = p
       /\ UNCHANGED <<cls, extra, excluded>>
    \/ \E v \in VerdictOf(d), h \in HitSets :
         /\ cls' = ndpi_set_detected_protocol(cls, v[1], v[2], v[3], Env(h))
         /\ \/ UNCHANGED extra
            \/ \E m \in ExtraMax[d] : extra' = [extra EXCEPT !.func = d, !.max = m]
         /\ UNCHANGED <<fast, excluded>>
    \/ \E v \in VerdictOf(d), h \in HitSets :
         /\ d \in MonitorsAtOnce
         /\ LET c == ndpi_set_detected_protocol(cls, v[1], v[2], v[3], Env(h))
            IN  cls' = [c EXCEPT !.state = "MONITORING"]
         /\ extra' = [extra EXCEPT !.func = d]
         /\ UNCHANGED <<fast, excluded>>

\* The results an extra dissection function may leave: ret is its return
\* value.  A flow in MONITORING keeps being observed and nothing else.
Reclassified(d, h) ==
    {cls} \union {ndpi_set_detected_protocol(cls, v[1], v[2], v[3], Env(h)) : v \in VerdictOf(d)}

ExtraOutcome(h) ==
    LET here(c, ret)   == [cls |-> c, func |-> extra.func, max |-> extra.max, ret |-> ret]
        moved(c, d, m) == [cls |-> c, func |-> d, max |-> m, ret |-> 1]
    IN  IF cls.state = "MONITORING"
        THEN {here(cls, 1)}
        ELSE {here(c, ret) : c \in Reclassified(extra.func, h), ret \in {0, 1}}
             \union {here([c EXCEPT !.state = "MONITORING"], 1) :
                        c \in {x \in Reclassified(extra.func, h) : extra.func \in Monitors}}
             \union UNION {{moved(c, d, m) : c \in Reclassified(extra.func, h), m \in ExtraMax[d]} :
                        d \in {x \in Dissector : extra.switches < MaxSwitches}}

-----------------------------------------------------------------------------
(* The entry of ndpi_internal_detection_process_packet.                    *)

Increment(n, max) == IF n < max THEN n + 1 ELSE n

Processed == (cnt.processed + 1) % U16

\* A call of ndpi_detection_process_packet() that gets past its first checks.
Arrives(p) ==
    /\ pc = "idle"
    /\ cls.state # "CLASSIFIED"
    /\ cnt.processed < MaxPackets
    /\ p \in PacketKind
    /\ p.l4hdr => l4_proto # "OTHER"
    /\ p.retransmission => l4_proto = "TCP" /\ p.l4hdr

\* ndpi_init_packet() refuses the packet.
RejectPacket(p) ==
    /\ Arrives(p) /\ ~p.valid
    /\ cnt' = [cnt EXCEPT !.processed = Processed]
    /\ UNCHANGED <<cls, l4_proto, guess, fast, extra, fpc, excluded, pc, loc>>

\* connection_tracking() counts the packet.
Accepts(p) ==
    /\ Arrives(p) /\ p.valid
    /\ cnt' = [processed |-> Processed, all |-> Increment(cnt.all, MAX_PACKET_COUNTER)]

\* Wrong on purpose: one packet too many.
OverLimit_OffByOne ==
    PacketsLimit > 0 /\ Processed > PacketsLimit /\ cls.state # "MONITORING"

OverLimit ==
    PacketsLimit > 0 /\ Processed >= PacketsLimit /\ cls.state # "MONITORING"

LimitGiveup(p) ==
    /\ Accepts(p)
    /\ OverLimit
    /\ \E h \in HitSets : cls' = ndpi_internal_detection_giveup(cls, Env(h))
    /\ UNCHANGED <<l4_proto, guess, fast, extra, fpc, excluded, pc, loc>>

\* Wrong on purpose: num_extra_packets_checked saturates instead of wrapping.
NextExtra_Saturates(n) == Increment(n, U8 - 1)

\* num_extra_packets_checked++
NextExtra(n) == (n + 1) % U8

\* The condition of process_extra_packet(), after outcome o: packets are
\* counted only while the function wants more and outside MONITORING.
ExtraCounts(o) == o.ret = 1 /\ o.cls.state # "MONITORING"

ExtraChecked(o) == IF ExtraCounts(o) THEN NextExtra(extra.num) ELSE extra.num

ExtraDone(o) == o.ret = 0 \/ (ExtraCounts(o) /\ ExtraChecked(o) = o.max)

process_extra_packet(p) ==
    /\ Accepts(p)
    /\ ~OverLimit
    /\ extra.func # NULL
    /\ IF p.l4hdr
       THEN \E h \in HitSets : \E o \in ExtraOutcome(h) :
              /\ extra' = [func |-> IF ExtraDone(o) THEN NULL ELSE o.func,
                           num |-> ExtraChecked(o), max |-> o.max,
                           switches |-> extra.switches +
                             (IF o.func = extra.func /\ o.max = extra.max THEN 0 ELSE 1)]
              /\ cls' = IF ExtraDone(o) THEN internal_giveup(o.cls, Env(h)) ELSE o.cls
       ELSE UNCHANGED <<cls, extra>>
    /\ UNCHANGED <<l4_proto, guess, fast, fpc, excluded, pc, loc>>

\* The packet goes on to the dissectors.
Inspects(p) ==
    /\ Accepts(p)
    /\ ~OverLimit
    /\ extra.func = NULL

NbpfMatch(p) ==
    /\ Inspects(p)
    /\ cls.upper = UNKNOWN
    /\ Processed = 1 /\ NbpfProtocol # UNKNOWN
    /\ \E h \in HitSets :
         cls' = internal_giveup(
                    ndpi_set_detected_protocol(cls, NbpfProtocol, UNKNOWN, "NBPF", Env(h)), Env(h))
    /\ UNCHANGED <<l4_proto, guess, fast, extra, fpc, excluded, pc, loc>>

\* fpc_check_eval(): the most reliable source first, evaluated on the
\* classification c and the IP guess ip.
fpc_check_eval(c, ip, h) ==
    IF ~FpcEnabled THEN fpc
    ELSE IF c.confidence = "CUSTOM_RULE"
         THEN [upper |-> c.upper, lower |-> c.lower, confidence |-> "CUSTOM_RULE"]
    ELSE IF c.upper # UNKNOWN
         THEN [upper |-> c.upper, lower |-> c.lower, confidence |-> "DPI"]
    ELSE IF "fpc_dns_cache" \in h
         THEN [upper |-> FpcDnsProtocol, lower |-> UNKNOWN, confidence |-> "DNS"]
    ELSE IF ip # UNKNOWN
         THEN [upper |-> ip, lower |-> UNKNOWN, confidence |-> "IP"]
    ELSE fpc

\* do_guess(): a custom rule on the port, or on the address, decides the flow.
PortRule(port, user) == port \in CustomProtocol \/ (user /\ port # UNKNOWN)

GuessClassification(port, ip, user, e) ==
    IF PortRule(port, user)
    THEN ndpi_set_detected_protocol(cls, port, UNKNOWN, "CUSTOM_RULE", e)
    ELSE ndpi_set_detected_protocol(cls, ip, port, "CUSTOM_RULE", e)

do_guess(port, ip) ==
    /\ ~guess.done
    /\ guess' = [done |-> TRUE, port |-> port, ip |-> ip]
    /\ fast' = UNKNOWN

GuessEnv(port, ip, h) ==
    [l4 |-> l4_proto, by_port |-> port, by_ip |-> ip, fast |-> UNKNOWN, hits |-> h]

CustomRule(p) ==
    /\ Inspects(p)
    /\ cls.upper = UNKNOWN
    /\ \E port \in PortGuess, ip \in IpGuess, user \in BOOLEAN, h \in HitSets :
         /\ PortRule(port, user) \/ ip \in CustomProtocol
         /\ do_guess(port, ip)
         /\ LET e == GuessEnv(port, ip, h)
                c == GuessClassification(port, ip, user, e)
            IN  /\ fpc' = fpc_check_eval(c, ip, h)
                /\ cls' = internal_giveup(c, e)
    /\ UNCHANGED <<l4_proto, extra, excluded, pc, loc>>

Enter(p, where) ==
    /\ pc' = where
    /\ loc' = [IdleLocals EXCEPT !.pkt = p]
    /\ UNCHANGED <<cls, l4_proto, extra, fpc, excluded>>

FirstInspection(p) ==
    /\ Inspects(p)
    /\ cls.upper = UNKNOWN
    /\ \E port \in PortGuess, ip \in IpGuess :
         /\ port \notin CustomProtocol /\ ip \notin CustomProtocol
         /\ do_guess(port, ip)
    /\ Enter(p, "fast")

NextInspection(p) ==
    /\ Inspects(p)
    /\ guess.done \/ cls.upper # UNKNOWN
    /\ Enter(p, IF cls.upper = UNKNOWN THEN "fast" ELSE "ret")
    /\ UNCHANGED <<guess, fast>>

-----------------------------------------------------------------------------
(* check_ndpi_detection_func: the dissectors.                               *)

\* The bits process_packet sets in ndpi_selection_packet; the IP version is
\* left out, dissectors register for both.
ndpi_selection_packet(p) ==
    (IF p.l4hdr THEN {l4_proto, "TCP_OR_UDP"} ELSE {})
    \union (IF p.payload THEN {"HAS_PAYLOAD"} ELSE {})
    \union (IF p.retransmission THEN {} ELSE {"NO_TCP_RETRANSMISSION"})

\* ndpi_check_flow_func(): the buffer that holds the candidates.
Buffer(p) ==
    IF p.l4hdr /\ l4_proto = "TCP"
    THEN CallbackBuffer[IF p.payload THEN "tcp_payload" ELSE "tcp_no_payload"]
    ELSE CallbackBuffer[IF p.l4hdr /\ l4_proto = "UDP" THEN "udp" ELSE "non_tcp_udp"]

Callable(d) ==
    /\ d # NULL
    /\ d \notin excluded
    /\ Selection[d] \subseteq ndpi_selection_packet(loc.pkt)

FastDissector ==
    LET p == IF fast # UNKNOWN THEN fast ELSE guess.port
    IN  IF p = UNKNOWN THEN NULL ELSE DissectorOf[p]

\* The call of check_ndpi_subprotocols() for protocol p.
SubprotocolsOf(p) == IF p = UNKNOWN THEN <<>> ELSE Subprotocols[p]

EnterSub0 ==
    /\ pc' = "sub0"
    /\ loc' = [loc EXCEPT !.called = TRUE, !.subs = SubprotocolsOf(cls'.upper)]

FastCallback ==
    /\ pc = "fast"
    /\ LET d == FastDissector
       IN  IF Callable(d)
           THEN /\ Dissect(d)
                /\ IF cls'.upper = UNKNOWN
                   THEN /\ pc' = "scan"
                        /\ loc' = [loc EXCEPT !.func = d, !.called = TRUE]
                   ELSE EnterSub0
           ELSE /\ pc' = "scan"
                /\ UNCHANGED <<cls, fast, extra, excluded, loc>>
    /\ UNCHANGED <<l4_proto, guess, cnt, fpc>>

ScanCallback ==
    /\ pc = "scan"
    /\ loc.a <= Len(Buffer(loc.pkt))
    /\ LET d == Buffer(loc.pkt)[loc.a]
       IN  IF d # loc.func /\ Callable(d)
           THEN /\ Dissect(d)
                /\ IF cls'.upper = UNKNOWN
                   THEN /\ loc' = [loc EXCEPT !.a = @ + 1, !.called = TRUE]
                        /\ UNCHANGED pc
                   ELSE EnterSub0
           ELSE /\ loc' = [loc EXCEPT !.a = @ + 1]
                /\ UNCHANGED <<cls, fast, extra, excluded, pc>>
    /\ UNCHANGED <<l4_proto, guess, cnt, fpc>>

ScanEnd ==
    /\ pc = "scan"
    /\ loc.a > Len(Buffer(loc.pkt))
    /\ pc' = "sub0"
    /\ loc' = [loc EXCEPT !.subs = SubprotocolsOf(cls.upper)]
    /\ UNCHANGED <<cls, l4_proto, guess, fast, extra, cnt, fpc, excluded>>

\* One iteration of check_ndpi_subprotocols(): unlike the scan, a detection
\* does not stop it.
SubCallback ==
    /\ pc \in {"sub0", "sub1"}
    /\ loc.subs # <<>>
    /\ LET p == Head(loc.subs)
           d == DissectorOf[p]
       IN  IF p \notin {cls.upper, cls.lower} /\ Callable(d)
           THEN /\ Dissect(d)
                /\ loc' = [loc EXCEPT !.subs = Tail(@), !.called = TRUE]
           ELSE /\ loc' = [loc EXCEPT !.subs = Tail(@)]
                /\ UNCHANGED <<cls, fast, extra, excluded>>
    /\ UNCHANGED <<l4_proto, guess, cnt, fpc, pc>>

SubEnd ==
    /\ loc.subs = <<>>
    /\ \/ /\ pc = "sub0"
          /\ pc' = "sub1"
          /\ loc' = [loc EXCEPT !.subs = SubprotocolsOf(cls.lower)]
       \/ /\ pc = "sub1"
          /\ pc' = "ret"
          /\ UNCHANGED loc
    /\ UNCHANGED <<cls, l4_proto, guess, fast, extra, cnt, fpc, excluded>>

-----------------------------------------------------------------------------
(* The label ret_protocols and the end of the packet.                       *)

\* Wrong on purpose: a classified flow without extra dissection is left open.
ClassifiedEpilogue_Skipped(c, e) == c

ClassifiedEpilogue(c, e) ==
    IF c.upper # UNKNOWN /\ extra.func = NULL THEN internal_giveup(c, e) ELSE c

\* Wrong on purpose: the test on tcp_retransmission is inverted.
NoMoreDissectors_Inverted ==
    ~loc.called /\ loc.pkt.retransmission /\ loc.pkt.payload

NoMoreDissectors ==
    ~loc.called /\ ~loc.pkt.retransmission /\ loc.pkt.payload

ReturnProtocols ==
    /\ pc = "ret"
    /\ \E h \in HitSets :
         /\ fpc' = IF cnt.all = 1 THEN fpc_check_eval(cls, guess.ip, h) ELSE fpc
         /\ LET c == ClassifiedEpilogue(cls, Env(h))
            IN  cls' = IF NoMoreDissectors
                       THEN ndpi_internal_detection_giveup(c, Env(h))
                       ELSE c
    /\ pc' = "idle"
    /\ loc' = IdleLocals
    /\ UNCHANGED <<l4_proto, guess, fast, extra, cnt, excluded>>

\* The application gives up, at any time between two packets.
ndpi_detection_giveup ==
    /\ pc = "idle"
    /\ \E h \in HitSets : cls' = ndpi_internal_detection_giveup(cls, Env(h))
    /\ UNCHANGED <<l4_proto, guess, fast, extra, cnt, fpc, excluded, pc, loc>>

PacketStep ==
    \E p \in PacketKind :
        \/ LimitGiveup(p) \/ process_extra_packet(p)
        \/ NbpfMatch(p) \/ CustomRule(p) \/ FirstInspection(p) \/ NextInspection(p)

DissectionStep ==
    FastCallback \/ ScanCallback \/ ScanEnd \/ SubCallback \/ SubEnd \/ ReturnProtocols

Next ==
    \/ \E p \in PacketKind : RejectPacket(p)
    \/ PacketStep
    \/ DissectionStep
    \/ ndpi_detection_giveup

Spec == Init /\ [][Next]_vars

\* Packets the library accepts keep arriving as long as the flow takes any,
\* and a call of process_packet returns: its loops run over finite arrays.
PacketArrives == \E p \in PacketKind : Accepts(p)

FairSpec == Spec /\ WF_cnt(PacketArrives) /\ []<>(pc = "idle")

-----------------------------------------------------------------------------
(* Properties.                                                              *)

\* Every field of the flow keeps its type, and the per-packet locals too.
TypeOK ==
    /\ cls \in Classification
    /\ l4_proto \in {"TCP", "UDP", "OTHER"}
    /\ guess \in [done : BOOLEAN, port : ProtocolOrUnknown, ip : ProtocolOrUnknown]
    /\ fast \in ProtocolOrUnknown
    /\ extra \in [func : Dissector \union {NULL}, num : 0..(U8 - 1), max : 0..(U8 - 1),
                  switches : Nat]
    /\ cnt \in [processed : 0..(U16 - 1), all : Nat]
    /\ fpc \in [upper : ProtocolOrUnknown, lower : ProtocolOrUnknown,
                confidence : {"UNKNOWN", "CUSTOM_RULE", "DPI", "DNS", "IP"}]
    /\ excluded \subseteq Dissector
    /\ pc \in {"idle", "fast", "scan", "sub0", "sub1", "ret"}
    /\ loc \in [pkt : Packet, func : Dissector \union {NULL}, a : Nat \ {0},
                subs : Seq(Protocol), called : BOOLEAN]

Boundary == pc = "idle"

\* The state enum and the fields it summarises never disagree: nothing is
\* classified while INSPECTING, something is in PARTIAL and MONITORING.
StateAgrees ==
    /\ cls.state = "INSPECTING" =>
         cls.upper = UNKNOWN /\ cls.protocol_stack = <<>> /\ extra.func = NULL
    /\ cls.state \in {"PARTIAL", "MONITORING"} => cls.upper # UNKNOWN
    /\ cls.upper = UNKNOWN => cls.lower = UNKNOWN

\* Between packets a flow with a verdict is either closed or still owned by an
\* extra dissection function: the last lines of process_packet and of the extra
\* branch leave no third case, so "goto ret_protocols" is never taken.
ExtraOrDone ==
    Boundary /\ cls.upper # UNKNOWN /\ cls.state # "CLASSIFIED" => extra.func # NULL

\* internal_giveup() runs exactly once per flow, and its two "We shoudn't be
\* here" branches are reached only by an application that gives up again on a
\* flow in MONITORING, which never becomes CLASSIFIED.
GiveupOnce ==
    /\ cls.state = "CLASSIFIED" => cls.already_gaveup
    /\ cls.already_gaveup => cls.state \in {"CLASSIFIED", "MONITORING"}
    /\ "already_classified" \notin cls.errors
    /\ cls.errors # {} => cls.already_gaveup /\ cls.state = "MONITORING"

\* Once the library has given up on a flow, or observes it in MONITORING, no
\* later packet and no later call changes what it said about it.
FinalVerdict ==
    [][cls.already_gaveup \/ cls.state = "MONITORING" =>
         /\ cls'.upper = cls.upper /\ cls'.lower = cls.lower
         /\ cls'.confidence = cls.confidence /\ cls'.protocol_stack = cls.protocol_stack
         /\ cls'.state = cls.state]_vars

\* A verdict obtained by guessing is marked as such and never claims to come from
\* the dissection of the payload (a match by IP or by port without the mark is a
\* dissector that repeats the IP guess), and guess_on_giveup and
\* guess_ip_before_port decide which guess wins.
GuessHonest ==
    /\ cls.protocol_was_guessed =>
         cls.confidence \notin {"UNKNOWN", "NBPF", "DPI_CACHE", "DPI"}
    /\ cls.confidence = "DPI_PARTIAL_CACHE" => cls.protocol_was_guessed
    /\ cls.confidence \in {"MATCH_BY_PORT", "MATCH_BY_IP"} /\ ~cls.protocol_was_guessed =>
         cls.upper = guess.ip
    /\ cls.protocol_was_guessed /\ cls.confidence = "MATCH_BY_PORT" =>
         /\ "BY_PORT" \in GuessOnGiveup
         /\ ~(GuessIpBeforePort /\ "BY_IP" \in GuessOnGiveup /\ guess.ip # UNKNOWN)
    /\ cls.protocol_was_guessed /\ cls.confidence = "MATCH_BY_IP" =>
         /\ "BY_IP" \in GuessOnGiveup
         /\ ~(~GuessIpBeforePort /\ "BY_PORT" \in GuessOnGiveup /\ guess.port # UNKNOWN)

\* The two views of a verdict agree: the protocol stack is well formed and,
\* until it is full, holds both protocols of the legacy (master, app) pair.
StackHoldsVerdict ==
    LET s == cls.protocol_stack
    IN  /\ WellFormedStack(s)
        /\ Len(s) < NDPI_PROTOCOL_STACK_SIZE - 1 =>
             /\ cls.upper # UNKNOWN => Contains(s, cls.upper)
             /\ cls.lower # UNKNOWN => Contains(s, cls.lower)

\* packets_limit_per_flow: a flow that has been given that many packets is
\* closed, as long as num_processed_pkts does not wrap.
LimitHonoured ==
    PacketsLimit > 0 /\ MaxPackets < U16 /\ Boundary
    /\ cls.state \in {"INSPECTING", "PARTIAL"} => cnt.all < PacketsLimit

\* An extra dissection ends, whatever maximum it was given and whenever that
\* maximum changed: num_extra_packets_checked is compared for equality, but it
\* wraps and so meets it.
ExtraEnds ==
    (extra.func # NULL /\ cls.state = "PARTIAL") ~> (cls.state \in {"CLASSIFIED", "MONITORING"})

\* No dissector is left that a packet with payload could be given to.
Exhausted ==
    LET b == Buffer([NoPacket EXCEPT !.l4hdr = (l4_proto # "OTHER"), !.payload = TRUE])
    IN  /\ \A i \in DOMAIN b : b[i] \in excluded
        /\ FastDissector \in excluded \union {NULL}

\* A flow whose dissectors have all excluded themselves is closed by the next
\* payload, without waiting for the packet limit.
NothingLeftEnds ==
    (guess.done /\ Exhausted) ~> (cls.state \in {"CLASSIFIED", "MONITORING"})
=============================================================================
