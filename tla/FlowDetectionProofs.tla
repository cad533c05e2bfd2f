------------------------ MODULE FlowDetectionProofs -------------------------
(***************************************************************************)
(* The safety of FlowDetection for every set of dissectors, every          *)
(* configuration and any number of packets.  The inductive invariant comes *)
(* first: a dissector and the packet counters keep it, so do a refused     *)
(* packet, the packet limit, giveup and the extra dissection, and the      *)
(* steps of a packet that is inspected: nBPF and custom rules, the hand-   *)
(* over to the dissectors, and the dissectors.                             *)
(***************************************************************************)
EXTENDS FlowDetection, FlowClassifyProofs
-----------------------------------------------------------------------------
(* The inductive invariant, and the steps before the dissectors.           *)

\* Where the packet being processed is, and what holds there.
PacketInv ==
    /\ pc # "idle" => ~cls.already_gaveup
    /\ pc \in {"fast", "scan"} => cls.upper = UNKNOWN
    /\ pc \in {"sub0", "sub1"} /\ cls.state = "MONITORING" =>
         loc.subs = <<>> /\ (pc = "sub0" => cls.lower = UNKNOWN)
    /\ \A i \in DOMAIN loc.subs : DissectorOf[loc.subs[i]] \notin MonitorsAtOnce

\* The extra dissection function and the state.
ExtraInv ==
    /\ extra.func # NULL => cls.state # "INSPECTING"
    /\ cls.state = "MONITORING" => extra.func # NULL
    /\ pc = "idle" /\ cls.upper # UNKNOWN /\ cls.state # "CLASSIFIED" => extra.func # NULL

\* The packet counters, as long as num_processed_pkts does not wrap.
CountInv ==
    PacketsLimit > 0 /\ MaxPackets < U16 =>
      /\ cnt.all <= cnt.processed
      /\ cnt.processed <= MaxPackets
      /\ Open(cls) => cnt.all < PacketsLimit

\* The inductive invariant.
IInv == TypeOK /\ Good(cls) /\ PacketInv /\ ExtraInv /\ CountInv

\* A step leaves a verdict that is final alone.
KeepsFinal ==
    cls.already_gaveup \/ cls.state = "MONITORING" => SameVerdict(cls, cls')

-----------------------------------------------------------------------------

\* What the assumptions on the constants say of the protocols a guess or a rule
\* names.
LEMMA ConstantTypes ==
    /\ UNKNOWN \in ProtocolOrUnknown /\ NbpfProtocol \in ProtocolOrUnknown
    /\ FpcDnsProtocol \in ProtocolOrUnknown
    /\ PortGuess \subseteq ProtocolOrUnknown /\ IpGuess \subseteq ProtocolOrUnknown
    /\ HitSets \subseteq SUBSET Hit
    /\ UNKNOWN \notin CustomProtocol /\ NULL \notin Dissector
<1>1. UNKNOWN \in ProtocolOrUnknown /\ FpcDnsProtocol \in ProtocolOrUnknown
  BY DetectionAssumption, Zenon DEF ProtocolOrUnknown
<1>2. UNKNOWN \notin CustomProtocol
  BY ProtocolAssumption, Zenon
<1> QED
  BY <1>1, <1>2, DetectionAssumption, Zenon

\* What the functions of FlowClassify read is well typed.
LEMMA EnvType ==
    ASSUME TypeOK, NEW h \in HitSets
    PROVE  Env(h) \in Environment
  BY DetectionAssumption, Zenon DEF TypeOK, Env, Environment

\* Initially the flow is INSPECTING and idle.
LEMMA InitIInv == Init => IInv
<1> SUFFICES ASSUME Init PROVE IInv
  BY Zenon
<1> USE DetectionAssumption, StackSizeAssumption DEF Init, IdleLocals, NoPacket
<1>n. /\ NewClassification \in Classification
      /\ NewClassification.upper = UNKNOWN /\ NewClassification.lower = UNKNOWN
      /\ NewClassification.state = "INSPECTING" /\ NewClassification.protocol_stack = <<>>
      /\ NewClassification.already_gaveup = FALSE /\ NewClassification.errors = {}
  BY SMTT(60) DEF NewClassification, Classification, ProtocolOrUnknown, Confidence, FlowState,
         proto_stack_reset, UNKNOWN
<1>1. TypeOK
  <2>1. cls \in Classification
    BY <1>n, Zenon
  <2>2. loc \in [pkt : Packet, func : Dissector \union {NULL}, a : Nat \ {0},
                 subs : Seq(Protocol), called : BOOLEAN]
    BY SMTT(60) DEF Packet
  <2> QED
    BY SMTT(60), <2>1, <2>2 DEF TypeOK, ProtocolOrUnknown
<1>2. Good(cls)
  BY SMTT(60), <1>n DEF Good, GoodVerdict, GoodGiveup, WellFormedStack
<1>3. PacketInv /\ ExtraInv
  BY SMTT(60), <1>n DEF PacketInv, ExtraInv
<1>4. CountInv
  BY DEF CountInv
<1> QED
  BY <1>1, <1>2, <1>3, <1>4, Zenon DEF IInv

-----------------------------------------------------------------------------
(* The dissectors.                                                          *)

\* A verdict of a dissector is one ndpi_set_detected_protocol() can record.
LEMMA VerdictType ==
    ASSUME TypeOK, NEW d \in Dissector, NEW v \in VerdictOf(d)
    PROVE  /\ v \in Verdict[d]
           /\ v[1] \in ProtocolOrUnknown /\ v[1] \in Protocol /\ v[1] # UNKNOWN
           /\ v[2] \in ProtocolOrUnknown /\ v[3] \in Confidence
<1>1. v \in Verdict[d]
  BY Zenon DEF VerdictOf
<1>2. v \in Protocol \X ProtocolOrUnknown \X Confidence
  BY <1>1, DetectionAssumption, Zenon
<1> QED
  BY <1>1, <1>2, ProtocolAssumption, Zenon DEF ProtocolOrUnknown

\* A flow moves from PARTIAL to MONITORING without further ado.
LEMMA Monitored ==
    ASSUME NEW c, Good(c), c.state = "PARTIAL"
    PROVE  LET d == [c EXCEPT !.state = "MONITORING"]
           IN  /\ Good(d) /\ d.state = "MONITORING" /\ ~d.already_gaveup
               /\ d.upper = c.upper /\ d.lower = c.lower
<1> DEFINE d == [c EXCEPT !.state = "MONITORING"]
<1>1. c \in Classification /\ ~c.already_gaveup /\ c.upper # UNKNOWN /\ c.errors = {}
  BY Zenon DEF Good, GoodVerdict, GoodGiveup
<1>2. /\ d \in Classification /\ d.state = "MONITORING"
      /\ d.upper = c.upper /\ d.lower = c.lower /\ d.protocol_stack = c.protocol_stack
      /\ d.already_gaveup = c.already_gaveup /\ d.errors = c.errors
  BY <1>1, Zenon DEF Classification, FlowState
<1> HIDE DEF d
<1>3. Good(d)
  BY <1>1, <1>2, Zenon DEF Good, GoodVerdict, GoodGiveup
<1> QED
  BY <1>1, <1>2, <1>3, Zenon DEF d

\* A dissector that starts monitoring leaves exactly its own protocol.
LEMMA MonitorsOwnProtocol ==
    ASSUME TypeOK, Good(cls), Open(cls), NEW d \in MonitorsAtOnce,
           NEW v \in VerdictOf(d), NEW h \in HitSets
    PROVE  LET c == ndpi_set_detected_protocol(cls, v[1], v[2], v[3], Env(h))
           IN  c.upper = v[1] /\ c.lower = UNKNOWN /\ Subprotocols[c.upper] = <<>>
<1> DEFINE b == ndpi_int_change_protocol(cls, v[1], v[2], v[3])
           c == ndpi_set_detected_protocol(cls, v[1], v[2], v[3], Env(h))
<1>d. d \in Dissector
  BY DetectionAssumption, Zenon
<1>v. v \in Verdict[d] /\ v[1] # UNKNOWN
  BY <1>d, VerdictType, Zenon
<1>1. /\ v[2] = UNKNOWN /\ Subprotocols[v[1]] = <<>>
      /\ v[1] \notin {"MICROSOFT_AZURE", "MICROSOFT", "STUN", "TLS"}
  BY <1>v, MonitorsAssumption, Zenon
<1>2. cls \in Classification
  BY Zenon DEF TypeOK
<1>3. b.upper = v[1] /\ b.lower = UNKNOWN /\ b \in [DOMAIN cls -> UNION {{b[x]} : x \in DOMAIN cls}]
  BY SMTT(60), <1>1, <1>2, <1>v DEF ndpi_int_change_protocol, Classification
<1>4. ndpi_reconcile_protocols(b, Env(h)) = b
  <2> HIDE DEF b
  <2> QED
    BY <1>1, <1>3, Zenon DEF ndpi_reconcile_protocols
<1>5. c = Detected(cls, v[1], v[2], v[3], Env(h))
  BY Zenon DEF ndpi_set_detected_protocol, Open
<1>6. c = [b EXCEPT !.protocol_stack = proto_stack_update(b.protocol_stack, b.lower, b.upper),
                    !.state = "PARTIAL"]
  BY <1>4, <1>5, Zenon DEF Detected
<1>7. b \in Classification
  <2>1. /\ v[1] \in ProtocolOrUnknown /\ v[2] \in ProtocolOrUnknown /\ v[3] \in Confidence
    BY <1>d, VerdictType, Zenon
  <2>2. OnlyVerdictDiffers(cls, b)
    BY <1>2, <1>v, <2>1, ChangeProtocol, Zenon
  <2> QED
    BY <2>2, Zenon DEF OnlyVerdictDiffers
<1> HIDE DEF b, c
<1>8. c.upper = b.upper /\ c.lower = b.lower
  BY <1>6, <1>7, Zenon DEF Classification
<1> QED
  BY <1>1, <1>3, <1>8, Zenon DEF c

\* What a dissector called on an open flow leaves behind.
Dissected(d) ==
    /\ Good(cls') /\ ~cls'.already_gaveup
    /\ fast' \in ProtocolOrUnknown
    /\ extra' \in [func : Dissector \union {NULL}, num : 0..(U8 - 1), max : 0..(U8 - 1),
                   switches : Nat]
    /\ excluded' \subseteq Dissector
    /\ extra'.func # NULL => cls'.state # "INSPECTING"
    /\ cls'.state = "MONITORING" =>
         /\ extra'.func # NULL
         /\ d \in MonitorsAtOnce
         /\ cls'.lower = UNKNOWN /\ SubprotocolsOf(cls'.upper) = <<>>

\* A call of a dissector keeps an open flow consistent, whatever it decides.
LEMMA DissectKeeps ==
    ASSUME IInv, Open(cls), NEW d \in Dissector, Dissect(d)
    PROVE  Dissected(d)
<1>i. /\ TypeOK /\ Good(cls) /\ cls.state # "MONITORING" /\ ~cls.already_gaveup
      /\ extra.func # NULL => cls.state # "INSPECTING"
  BY Cases, Zenon DEF IInv, Open, ExtraInv
<1>t. /\ fast \in ProtocolOrUnknown /\ excluded \subseteq Dissector
      /\ extra \in [func : Dissector \union {NULL}, num : 0..(U8 - 1), max : 0..(U8 - 1),
                    switches : Nat]
  BY <1>i, Zenon DEF TypeOK
<1>n. NULL \notin Dissector
  BY DetectionAssumption, Zenon
<1>1. CASE UNCHANGED <<cls, extra>> /\ excluded' \subseteq Dissector /\ fast' \in ProtocolOrUnknown
  BY <1>1, <1>i, <1>t, Zenon DEF Dissected
<1>2. CASE \E v \in VerdictOf(d), h \in HitSets :
             /\ cls' = ndpi_set_detected_protocol(cls, v[1], v[2], v[3], Env(h))
             /\ \/ UNCHANGED extra
                \/ \E m \in ExtraMax[d] : extra' = [extra EXCEPT !.func = d, !.max = m]
             /\ UNCHANGED <<fast, excluded>>
  <2>1. PICK v \in VerdictOf(d), h \in HitSets :
             /\ cls' = ndpi_set_detected_protocol(cls, v[1], v[2], v[3], Env(h))
             /\ \/ UNCHANGED extra
                \/ \E m \in ExtraMax[d] : extra' = [extra EXCEPT !.func = d, !.max = m]
             /\ UNCHANGED <<fast, excluded>>
    BY ZenonT(60), <1>2
  <2>2. Good(cls') /\ cls'.state = "PARTIAL"
    BY ZenonT(60), <1>i, <2>1, EnvType, VerdictType, SetDetected
  <2>3. extra' \in [func : Dissector \union {NULL}, num : 0..(U8 - 1), max : 0..(U8 - 1),
                    switches : Nat]
    <3>1. \A m \in ExtraMax[d] : m \in 0..(U8 - 1)
      BY DetectionAssumption, Zenon
    <3>2. extra' = extra \/ \E m \in ExtraMax[d] : extra' = [extra EXCEPT !.func = d, !.max = m]
      BY ZenonT(60), <2>1
    <3> QED
      BY ZenonT(60), <1>t, <3>1, <3>2
  <2> QED
    BY ZenonT(60), <1>t, <2>1, <2>2, <2>3, Cases DEF Dissected, Open
<1>3. CASE \E v \in VerdictOf(d), h \in HitSets :
             /\ d \in MonitorsAtOnce
             /\ LET c == ndpi_set_detected_protocol(cls, v[1], v[2], v[3], Env(h))
                IN  cls' = [c EXCEPT !.state = "MONITORING"]
             /\ extra' = [extra EXCEPT !.func = d]
             /\ UNCHANGED <<fast, excluded>>
  <2>1. PICK v \in VerdictOf(d), h \in HitSets :
             /\ d \in MonitorsAtOnce
             /\ LET c == ndpi_set_detected_protocol(cls, v[1], v[2], v[3], Env(h))
                IN  cls' = [c EXCEPT !.state = "MONITORING"]
             /\ extra' = [extra EXCEPT !.func = d]
             /\ UNCHANGED <<fast, excluded>>
    BY ZenonT(60), <1>3
  <2> DEFINE c == ndpi_set_detected_protocol(cls, v[1], v[2], v[3], Env(h))
  <2>2. Good(c) /\ c.state = "PARTIAL"
    BY <1>i, EnvType, VerdictType, SetDetected, Zenon
  <2>3. c.upper = v[1] /\ c.lower = UNKNOWN /\ Subprotocols[c.upper] = <<>>
    BY <1>i, <2>1, MonitorsOwnProtocol, Zenon
  <2>4. cls' = [c EXCEPT !.state = "MONITORING"]
    BY <2>1, Zenon
  <2> HIDE DEF c
  <2>5. /\ Good(cls') /\ cls'.state = "MONITORING" /\ ~cls'.already_gaveup
        /\ cls'.upper = c.upper /\ cls'.lower = c.lower
    BY <2>2, <2>4, Monitored, Zenon
  <2>6. SubprotocolsOf(cls'.upper) = <<>>
    BY <2>3, <2>5, Zenon DEF SubprotocolsOf
  <2>7. /\ extra' \in [func : Dissector \union {NULL}, num : 0..(U8 - 1), max : 0..(U8 - 1),
                       switches : Nat]
        /\ extra'.func = d
    BY <1>t, <2>1, Zenon
  <2> QED
    BY <1>t, <1>n, <2>1, <2>3, <2>5, <2>6, <2>7, Zenon DEF Dissected
<1> QED
  <2>1. \A p \in PartialVerdict[d] : p \in ProtocolOrUnknown
    BY DetectionAssumption, Zenon DEF ProtocolOrUnknown
  <2> QED
    BY ZenonT(60), <1>1, <1>2, <1>3, <1>t, <2>1 DEF Dissect

-----------------------------------------------------------------------------
(* The packet counters.                                                     *)

\* Unsigned arithmetic of a given width.
LEMMA Wraps ==
    ASSUME NEW n \in Nat, NEW w \in Nat \ {0}
    PROVE  n % w \in 0..(w - 1) /\ (n < w => n % w = n)
  OBVIOUS

\* A packet that gets past the first checks finds the flow idle and not closed,
\* and num_processed_pkts counts it.
LEMMA Arrival ==
    ASSUME IInv, NEW p, Arrives(p)
    PROVE  /\ pc = "idle" /\ cls.state # "CLASSIFIED" /\ p \in Packet
           /\ Processed \in 0..(U16 - 1)
           /\ PacketsLimit > 0 /\ MaxPackets < U16 =>
                Processed = cnt.processed + 1 /\ Processed <= MaxPackets
<1>1. cnt.processed \in Nat /\ cnt.processed + 1 \in Nat /\ cnt.processed < MaxPackets
  BY DEF IInv, TypeOK, Arrives
<1>2. U16 \in Nat \ {0} /\ MaxPackets \in Nat /\ PacketsLimit \in Nat
  BY DetectionAssumption, Zenon
<1>3. Processed \in 0..(U16 - 1) /\ (cnt.processed + 1 < U16 => Processed = cnt.processed + 1)
  BY ZenonT(60), <1>1, <1>2, Wraps DEF Processed
<1> QED
  BY SMTT(60), <1>1, <1>2, <1>3, DetectionAssumption DEF Arrives

\* An accepted packet is counted in both counters.
LEMMA Accepted ==
    ASSUME IInv, NEW p, Accepts(p)
    PROVE  /\ pc = "idle" /\ cls.state # "CLASSIFIED" /\ p \in Packet
           /\ cnt' \in [processed : 0..(U16 - 1), all : Nat]
           /\ PacketsLimit > 0 /\ MaxPackets < U16 =>
                /\ cnt'.all <= cnt'.processed /\ cnt'.processed <= MaxPackets
                /\ ~OverLimit /\ Open(cls) => cnt'.all < PacketsLimit
<1>1. Arrives(p)
  BY Zenon DEF Accepts
<1>2. /\ pc = "idle" /\ cls.state # "CLASSIFIED" /\ p \in Packet
      /\ Processed \in 0..(U16 - 1)
      /\ PacketsLimit > 0 /\ MaxPackets < U16 =>
           Processed = cnt.processed + 1 /\ Processed <= MaxPackets
  BY <1>1, Arrival, Zenon
<1>3. /\ cnt'.processed = Processed
      /\ cnt'.all = Increment(cnt.all, MAX_PACKET_COUNTER)
      /\ cnt' = [processed |-> Processed, all |-> Increment(cnt.all, MAX_PACKET_COUNTER)]
  BY Zenon DEF Accepts
<1>4. /\ cnt.all \in Nat /\ cnt.processed \in Nat
      /\ PacketsLimit > 0 /\ MaxPackets < U16 => cnt.all <= cnt.processed
  BY DEF IInv, TypeOK, CountInv
<1>5. /\ Increment(cnt.all, MAX_PACKET_COUNTER) \in Nat
      /\ Increment(cnt.all, MAX_PACKET_COUNTER) <= cnt.all + 1
  BY <1>4, DetectionAssumption DEF Increment
<1>6. PacketsLimit \in Nat /\ MaxPackets \in Nat /\ U16 \in Nat
  BY DetectionAssumption, Zenon
<1>7. ~OverLimit /\ Open(cls) /\ PacketsLimit > 0 => Processed < PacketsLimit
  BY <1>2, <1>6 DEF OverLimit, Open
<1>8. cnt' \in [processed : 0..(U16 - 1), all : Nat]
  BY <1>2, <1>3, <1>5, Zenon
<1>9. ASSUME PacketsLimit > 0, MaxPackets < U16
      PROVE  /\ cnt'.all <= cnt'.processed /\ cnt'.processed <= MaxPackets
             /\ ~OverLimit /\ Open(cls) => cnt'.all < PacketsLimit
  BY SMTT(60), <1>2, <1>3, <1>4, <1>5, <1>6, <1>7, <1>9
<1> QED
  BY <1>2, <1>8, <1>9, Zenon

Kept == IInv' /\ KeepsFinal

-----------------------------------------------------------------------------
(* Refused packets, the packet limit, giveup and the extra dissection.     *)

\* ndpi_init_packet() refuses the packet: only num_processed_pkts changes.
LEMMA RejectKeeps ==
    ASSUME IInv, NEW p, RejectPacket(p)
    PROVE  Kept
<1>1. Arrives(p) /\ cnt' = [cnt EXCEPT !.processed = Processed]
      /\ UNCHANGED <<cls, l4_proto, guess, fast, extra, fpc, excluded, pc, loc>>
  BY Zenon DEF RejectPacket
<1>2. /\ Processed \in 0..(U16 - 1)
      /\ PacketsLimit > 0 /\ MaxPackets < U16 =>
           Processed = cnt.processed + 1 /\ Processed <= MaxPackets
  BY <1>1, Arrival, Zenon
<1>3. cnt \in [processed : 0..(U16 - 1), all : Nat]
  BY Zenon DEF IInv, TypeOK
<1>4. /\ cnt' \in [processed : 0..(U16 - 1), all : Nat]
      /\ cnt'.processed = Processed /\ cnt'.all = cnt.all
  BY <1>1, <1>2, <1>3, Zenon
<1>5. TypeOK'
  BY <1>1, <1>4 DEF IInv, TypeOK
<1>6. CountInv'
  BY SMTT(60), <1>1, <1>2, <1>3, <1>4 DEF IInv, CountInv, Open
<1>7. Good(cls)' /\ PacketInv' /\ ExtraInv'
  BY <1>1, Zenon DEF IInv, PacketInv, ExtraInv
<1>8. KeepsFinal
  BY <1>1, Zenon DEF KeepsFinal, SameVerdict
<1> QED
  BY <1>5, <1>6, <1>7, <1>8, Zenon DEF Kept, IInv

\* Giving up never starts monitoring.
LEMMA GiveupNeverMonitors ==
    ASSUME NEW c, Good(c), NEW e \in Environment
    PROVE  LET d == ndpi_internal_detection_giveup(c, e)
           IN  d.state = "MONITORING" => c.state = "MONITORING"
<1> DEFINE d == ndpi_internal_detection_giveup(c, e)
<1>1. CASE Open(c)
  <2> DEFINE g == IF c.upper # UNKNOWN THEN c ELSE Guessed(c, e)
  <2>1. d = internal_giveup(g, e)
    BY <1>1, Zenon DEF ndpi_internal_detection_giveup, Open
  <2>2. Good(g) /\ Open(g)
    BY <1>1, GuessedVerdict, Zenon
  <2> HIDE DEF g
  <2>3. d.state = "CLASSIFIED"
    BY <2>1, <2>2, InternalGiveup, Zenon DEF Open
  <2> QED
    BY <2>3, Zenon
<1>2. CASE ~Open(c)
  BY <1>2, GiveupCloses, Zenon DEF SameVerdict
<1> QED
  BY <1>1, <1>2, Zenon

\* The flow is closed between two packets, extra dissection or not.
LEMMA Closes ==
    ASSUME IInv, NEW h \in HitSets,
           cls' = ndpi_internal_detection_giveup(cls, Env(h)),
           pc = "idle",
           UNCHANGED <<l4_proto, guess, fast, extra, fpc, excluded, pc, loc>>,
           cnt' \in [processed : 0..(U16 - 1), all : Nat],
           PacketsLimit > 0 /\ MaxPackets < U16 =>
                cnt'.all <= cnt'.processed /\ cnt'.processed <= MaxPackets
    PROVE  Kept
<1>1. /\ Good(cls') /\ cls'.already_gaveup /\ cls'.state \in {"CLASSIFIED", "MONITORING"}
      /\ ~Open(cls) => SameVerdict(cls, cls')
  BY EnvType, GiveupCloses, Zenon DEF IInv
<1>2. cls' \in Classification /\ ~Open(cls')
  BY <1>1, Cases, Zenon DEF Open
<1>3. TypeOK'
  BY ZenonT(60), <1>2 DEF IInv, TypeOK
<1>4. KeepsFinal
  BY <1>1, Cases, Zenon DEF KeepsFinal, IInv, Open
<1>5. PacketInv'
  BY Zenon DEF IInv, PacketInv
<1>6. cls'.state = "MONITORING" => cls.state = "MONITORING"
  BY EnvType, GiveupNeverMonitors, Zenon DEF IInv
<1>7. ExtraInv'
  BY <1>1, <1>6, Zenon DEF IInv, ExtraInv
<1>8. CountInv'
  BY <1>2, Zenon DEF CountInv
<1> QED
  BY <1>1, <1>3, <1>4, <1>5, <1>7, <1>8, Zenon DEF Kept, IInv

\* The packet limit, and the application's ndpi_detection_giveup().
LEMMA LimitKeeps ==
    ASSUME IInv, NEW p, LimitGiveup(p)
    PROVE  Kept
<1>1. PICK h \in HitSets : cls' = ndpi_internal_detection_giveup(cls, Env(h))
  BY Zenon DEF LimitGiveup
<1>2. Accepts(p) /\ UNCHANGED <<l4_proto, guess, fast, extra, fpc, excluded, pc, loc>>
  BY Zenon DEF LimitGiveup
<1> QED
  BY <1>1, <1>2, Accepted, Closes, Zenon

\* ndpi_detection_giveup() closes the flow and leaves the packet state alone.
LEMMA GiveupKeeps ==
    ASSUME IInv, ndpi_detection_giveup
    PROVE  Kept
<1>1. PICK h \in HitSets : cls' = ndpi_internal_detection_giveup(cls, Env(h))
  BY Zenon DEF ndpi_detection_giveup
<1>2. pc = "idle" /\ UNCHANGED <<l4_proto, guess, fast, extra, cnt, fpc, excluded, pc, loc>>
  BY Zenon DEF ndpi_detection_giveup
<1>3. /\ cnt' \in [processed : 0..(U16 - 1), all : Nat]
      /\ PacketsLimit > 0 /\ MaxPackets < U16 =>
           cnt'.all <= cnt'.processed /\ cnt'.processed <= MaxPackets
  BY <1>2, Zenon DEF IInv, TypeOK, CountInv
<1> QED
  BY <1>1, <1>2, <1>3, Closes, Zenon

\* What a call of the extra dissection function may leave behind.
OutcomeOK(o) ==
    /\ Good(o.cls) /\ o.cls.state \in {"PARTIAL", "MONITORING"}
    /\ o.func \in Dissector /\ o.max \in 0..(U8 - 1) /\ o.ret \in {0, 1}
    /\ o.cls.state = "MONITORING" => o.ret = 1
    /\ cls.state = "MONITORING" => o.cls = cls

\* What a call of the extra function may leave behind.
LEMMA Outcomes ==
    ASSUME IInv, cls.state # "CLASSIFIED", extra.func # NULL,
           NEW h \in HitSets, NEW o \in ExtraOutcome(h)
    PROVE  OutcomeOK(o)
<1>1. /\ TypeOK /\ Good(cls) /\ cls.state \in {"PARTIAL", "MONITORING"}
      /\ extra.func \in Dissector /\ extra.max \in 0..(U8 - 1)
  <2>1. TypeOK /\ Good(cls) /\ ExtraInv
    BY Zenon DEF IInv
  <2>2. extra.func \in Dissector /\ extra.max \in 0..(U8 - 1)
    BY <2>1, Zenon DEF TypeOK
  <2> QED
    BY <2>1, <2>2, Cases, Zenon DEF ExtraInv, Open
<1>2. CASE cls.state = "MONITORING"
  <2>1. o = [cls |-> cls, func |-> extra.func, max |-> extra.max, ret |-> 1]
    BY <1>2 DEF ExtraOutcome
  <2>2. o.cls = cls /\ o.func = extra.func /\ o.max = extra.max /\ o.ret = 1
    BY <2>1, Zenon
  <2> QED
    BY <1>1, <1>2, <2>2, Zenon DEF OutcomeOK
<1>3. CASE cls.state = "PARTIAL"
  <2>1. \A c \in Reclassified(extra.func, h) : Good(c) /\ c.state = "PARTIAL"
    <3>1. Open(cls)
      BY <1>3, Zenon DEF Open
    <3>2. ASSUME NEW v \in VerdictOf(extra.func)
          PROVE  LET c == ndpi_set_detected_protocol(cls, v[1], v[2], v[3], Env(h))
                 IN  Good(c) /\ c.state = "PARTIAL"
      BY <1>1, <3>1, EnvType, VerdictType, SetDetected, Zenon
    <3> QED
      BY <1>1, <1>3, <3>2, Zenon DEF Reclassified
  <2>2. \A d \in Dissector : \A m \in ExtraMax[d] : m \in 0..(U8 - 1)
    BY DetectionAssumption, Zenon
  <2>3. PICK c \in Reclassified(extra.func, h) :
          \/ \E ret \in {0, 1} :
               o = [cls |-> c, func |-> extra.func, max |-> extra.max, ret |-> ret]
          \/ o = [cls |-> [c EXCEPT !.state = "MONITORING"], func |-> extra.func,
                  max |-> extra.max, ret |-> 1]
          \/ \E d \in Dissector : \E m \in ExtraMax[d] :
               o = [cls |-> c, func |-> d, max |-> m, ret |-> 1]
    <3> DEFINE R == Reclassified(extra.func, h)
               A == {[cls |-> c, func |-> extra.func, max |-> extra.max, ret |-> ret] :
                        c \in R, ret \in {0, 1}}
               B == {[cls |-> [c EXCEPT !.state = "MONITORING"], func |-> extra.func,
                      max |-> extra.max, ret |-> 1] : c \in {x \in R : extra.func \in Monitors}}
               S(d) == {[cls |-> c, func |-> d, max |-> m, ret |-> 1] :
                           c \in R, m \in ExtraMax[d]}
               D == {x \in Dissector : extra.switches < MaxSwitches}
    <3>1. ExtraOutcome(h) = A \union B \union UNION {S(d) : d \in D}
      BY <1>3 DEF ExtraOutcome
    <3>2. CASE o \in A
      BY <3>2
    <3>3. CASE o \in B
      BY <3>3, Zenon
    <3>4. CASE o \in UNION {S(d) : d \in D}
      <4>1. PICK d \in D : o \in S(d)
        BY <3>4
      <4> QED
        BY SMTT(60), <4>1
    <3> HIDE DEF A, B, S, D
    <3> QED
      BY <3>1, <3>2, <3>3, <3>4, Zenon
  <2>4. Good(c) /\ c.state = "PARTIAL"
    BY <2>1, Zenon
  <2>5. CASE \E ret \in {0, 1} :
               o = [cls |-> c, func |-> extra.func, max |-> extra.max, ret |-> ret]
    BY SMTT(60), <1>1, <1>3, <2>4, <2>5 DEF OutcomeOK
  <2>6. CASE o = [cls |-> [c EXCEPT !.state = "MONITORING"], func |-> extra.func,
                  max |-> extra.max, ret |-> 1]
    <3> DEFINE m == [c EXCEPT !.state = "MONITORING"]
    <3>1. Good(m) /\ m.state = "MONITORING"
      BY <2>4, Monitored, Zenon
    <3>2. o.cls = m /\ o.func = extra.func /\ o.max = extra.max /\ o.ret = 1
      BY <2>6, Zenon
    <3> HIDE DEF m
    <3> QED
      BY <1>1, <1>3, <3>1, <3>2, Zenon DEF OutcomeOK
  <2>7. CASE \E d \in Dissector : \E m \in ExtraMax[d] :
               o = [cls |-> c, func |-> d, max |-> m, ret |-> 1]
    BY SMTT(60), <1>3, <2>2, <2>4, <2>7 DEF OutcomeOK
  <2> QED
    BY <2>3, <2>5, <2>6, <2>7, Zenon
<1> QED
  BY <1>1, <1>2, <1>3, Zenon

\* The classification, and the extra dissection function, after an outcome.
ClassifiedBy(o, h) == IF ExtraDone(o) THEN internal_giveup(o.cls, Env(h)) ELSE o.cls

FunctionAfter(o) ==
    [func |-> IF ExtraDone(o) THEN NULL ELSE o.func, num |-> ExtraChecked(o), max |-> o.max,
     switches |-> extra.switches +
                    (IF o.func = extra.func /\ o.max = extra.max THEN 0 ELSE 1)]

\* The flow after a call of the extra dissection function.
LEMMA ExtraResult ==
    ASSUME IInv, NEW h \in HitSets, NEW o, OutcomeOK(o),
           cls' = ClassifiedBy(o, h), extra' = FunctionAfter(o)
    PROVE  /\ Good(cls') /\ cls'.state # "INSPECTING"
           /\ extra' \in [func : Dissector \union {NULL}, num : 0..(U8 - 1),
                          max : 0..(U8 - 1), switches : Nat]
           /\ cls'.state # "CLASSIFIED" => extra'.func # NULL
           /\ cls.state = "MONITORING" => cls' = cls
<1>1. /\ extra.num \in 0..(U8 - 1) /\ extra.switches \in Nat /\ U8 \in Nat \ {0}
      /\ NULL \notin Dissector
  <2>1. U8 \in Nat \ {0} /\ NULL \notin Dissector
    BY DetectionAssumption, Zenon
  <2>2. TypeOK
    BY Zenon DEF IInv
  <2>3. extra \in [func : Dissector \union {NULL}, num : 0..(U8 - 1), max : 0..(U8 - 1),
                   switches : Nat]
    BY <2>2, Zenon DEF TypeOK
  <2> QED
    BY <2>1, <2>3, Zenon
<1>2. ExtraChecked(o) \in 0..(U8 - 1)
  <2>1. extra.num + 1 \in Nat
    BY SMTT(60), <1>1
  <2> QED
    BY ZenonT(60), <1>1, <2>1, Wraps DEF ExtraChecked, NextExtra
<1>3. extra' \in [func : Dissector \union {NULL}, num : 0..(U8 - 1),
                  max : 0..(U8 - 1), switches : Nat]
  <2>1. o.func \in Dissector \union {NULL} /\ o.max \in 0..(U8 - 1)
    BY Zenon DEF OutcomeOK
  <2> DEFINE f == IF ExtraDone(o) THEN NULL ELSE o.func
             n == extra.switches +
                    (IF o.func = extra.func /\ o.max = extra.max THEN 0 ELSE 1)
  <2>3. f \in Dissector \union {NULL}
    BY <2>1, Zenon
  <2>4. n \in Nat
    BY <1>1
  <2>5. extra' = [func |-> f, num |-> ExtraChecked(o), max |-> o.max, switches |-> n]
    BY Zenon DEF FunctionAfter
  <2> HIDE DEF f, n
  <2> QED
    BY SMTT(60), <1>2, <2>1, <2>3, <2>4, <2>5
<1>4. CASE ExtraDone(o)
  <2>1. o.cls.state = "PARTIAL"
    BY SMTT(60), <1>4 DEF ExtraDone, ExtraCounts, OutcomeOK
  <2>2. Open(o.cls) /\ Good(o.cls) /\ o.cls.state # "CLASSIFIED" /\ Env(h) \in Environment
    <3>1. TypeOK
      BY Zenon DEF IInv
    <3> QED
      BY <2>1, <3>1, EnvType, Zenon DEF Open, OutcomeOK
  <2>3. Good(cls') /\ cls'.state = "CLASSIFIED"
    BY <1>4, <2>2, InternalGiveup, Zenon DEF ClassifiedBy
  <2> QED
    BY <1>3, <2>1, <2>3, Zenon DEF OutcomeOK
<1>5. CASE ~ExtraDone(o)
  <2>1. cls' = o.cls /\ extra'.func = o.func
    BY <1>5, Zenon DEF ClassifiedBy, FunctionAfter
  <2> QED
    BY <1>1, <1>3, <2>1, Zenon DEF OutcomeOK
<1> QED
  BY <1>4, <1>5, Zenon

\* A packet handed to the extra function keeps the invariant.
LEMMA ExtraKeeps ==
    ASSUME IInv, NEW p, process_extra_packet(p)
    PROVE  Kept
<1>1. /\ Accepts(p) /\ ~OverLimit /\ extra.func # NULL
      /\ UNCHANGED <<l4_proto, guess, fast, fpc, excluded, pc, loc>>
  BY Zenon DEF process_extra_packet
<1>2. /\ pc = "idle" /\ cls.state # "CLASSIFIED"
      /\ cnt' \in [processed : 0..(U16 - 1), all : Nat]
      /\ PacketsLimit > 0 /\ MaxPackets < U16 =>
           /\ cnt'.all <= cnt'.processed /\ cnt'.processed <= MaxPackets
           /\ Open(cls) => cnt'.all < PacketsLimit
  BY <1>1, Accepted, Zenon
<1>3. /\ Good(cls') /\ cls'.state # "INSPECTING"
      /\ extra' \in [func : Dissector \union {NULL}, num : 0..(U8 - 1),
                     max : 0..(U8 - 1), switches : Nat]
      /\ cls'.state # "CLASSIFIED" => extra'.func # NULL
      /\ cls.state = "MONITORING" => cls' = cls
  <2>1. CASE p.l4hdr
    <3>h. PICK h \in HitSets : \E o \in ExtraOutcome(h) :
            extra' = FunctionAfter(o) /\ cls' = ClassifiedBy(o, h)
      BY <2>1, Zenon DEF process_extra_packet, FunctionAfter, ClassifiedBy
    <3>1. PICK o \in ExtraOutcome(h) :
            extra' = FunctionAfter(o) /\ cls' = ClassifiedBy(o, h)
      BY <3>h, Zenon
    <3>2. OutcomeOK(o)
      BY <1>1, <1>2, Outcomes, Zenon
    <3> QED
      BY <3>1, <3>2, ExtraResult, Zenon
  <2>2. CASE ~p.l4hdr
    <3>1. UNCHANGED <<cls, extra>>
      BY <2>2, Zenon DEF process_extra_packet
    <3>2. TypeOK /\ ExtraInv /\ Good(cls)
      BY Zenon DEF IInv
    <3>3. extra \in [func : Dissector \union {NULL}, num : 0..(U8 - 1),
                     max : 0..(U8 - 1), switches : Nat]
      BY <3>2, Zenon DEF TypeOK
    <3>4. cls.state # "INSPECTING"
      BY <1>1, <3>2, Zenon DEF ExtraInv
    <3> QED
      BY ZenonT(60), <1>1, <3>1, <3>2, <3>3, <3>4
  <2> QED
    BY <2>1, <2>2, Zenon
<1>4. cls' \in Classification
  BY <1>3, Cases, Zenon
<1>5. TypeOK'
  <2>1. TypeOK
    BY Zenon DEF IInv
  <2> QED
    BY ZenonT(60), <1>1, <1>2, <1>3, <1>4, <2>1 DEF TypeOK
<1>g. Good(cls) /\ PacketInv
  BY Zenon DEF IInv
<1>6. KeepsFinal
  BY <1>2, <1>3, <1>g, Cases, Zenon DEF KeepsFinal, SameVerdict, Open
<1>7. PacketInv' /\ ExtraInv'
  <2>1. PacketInv'
    BY <1>1, <1>2, <1>g, Zenon DEF PacketInv
  <2>2. ExtraInv'
    BY <1>1, <1>3, Zenon DEF ExtraInv
  <2> QED
    BY <2>1, <2>2, Zenon
<1>8. Open(cls') => Open(cls)
  BY <1>2, <1>3, <1>g, Cases, Zenon DEF Open
<1>9. CountInv'
  BY <1>2, <1>8, Zenon DEF CountInv
<1> QED
  BY <1>3, <1>5, <1>6, <1>7, <1>9, Zenon DEF Kept, IInv

-----------------------------------------------------------------------------
(* The first steps of a packet that is inspected.                          *)

\* A packet for the dissectors finds an open flow, in fact one without a verdict.
LEMMA Inspected ==
    ASSUME IInv, NEW p, Inspects(p)
    PROVE  /\ pc = "idle" /\ p \in Packet /\ extra.func = NULL
           /\ cls.state = "INSPECTING" /\ cls.upper = UNKNOWN
           /\ Open(cls) /\ ~cls.already_gaveup
           /\ cnt' \in [processed : 0..(U16 - 1), all : Nat]
           /\ PacketsLimit > 0 /\ MaxPackets < U16 =>
                /\ cnt'.all <= cnt'.processed /\ cnt'.processed <= MaxPackets
                /\ cnt'.all < PacketsLimit
<1>1. Accepts(p) /\ ~OverLimit /\ extra.func = NULL
  BY Zenon DEF Inspects
<1>2. pc = "idle" /\ cls.state # "CLASSIFIED" /\ p \in Packet
  BY <1>1, Accepted, Zenon
<1>3. cls.upper = UNKNOWN /\ cls.state = "INSPECTING" /\ Open(cls) /\ ~cls.already_gaveup
  <2>1. Good(cls) /\ ExtraInv
    BY Zenon DEF IInv
  <2> QED
    BY <1>1, <1>2, <2>1, Cases, Zenon DEF ExtraInv, Open
<1> QED
  BY <1>1, <1>2, <1>3, Accepted, Zenon

\* A packet that decides the flow on its own, before any dissector.
LEMMA Decides ==
    ASSUME IInv, NEW p, Inspects(p), NEW c, Good(c), Open(c),
           NEW e \in Environment, cls' = internal_giveup(c, e),
           guess' \in [done : BOOLEAN, port : ProtocolOrUnknown, ip : ProtocolOrUnknown],
           fast' \in ProtocolOrUnknown,
           fpc' \in [upper : ProtocolOrUnknown, lower : ProtocolOrUnknown,
                     confidence : {"UNKNOWN", "CUSTOM_RULE", "DPI", "DNS", "IP"}],
           UNCHANGED <<l4_proto, extra, excluded, pc, loc>>
    PROVE  Kept
<1>1. /\ pc = "idle" /\ extra.func = NULL /\ cls.state = "INSPECTING" /\ ~cls.already_gaveup
      /\ cnt' \in [processed : 0..(U16 - 1), all : Nat]
      /\ PacketsLimit > 0 /\ MaxPackets < U16 =>
           cnt'.all <= cnt'.processed /\ cnt'.processed <= MaxPackets
  BY Inspected, Zenon
<1>2. Good(cls') /\ cls'.state = "CLASSIFIED"
  BY InternalGiveup, Zenon DEF Open
<1>3. TypeOK'
  <2>1. TypeOK
    BY Zenon DEF IInv
  <2>2. cls' \in Classification
    BY <1>2, Cases, Zenon
  <2> QED
    BY ZenonT(60), <1>1, <2>1, <2>2 DEF TypeOK
<1>4. PacketInv' /\ ExtraInv'
  <2>1. PacketInv
    BY Zenon DEF IInv
  <2>2. PacketInv'
    BY <1>1, <2>1, Zenon DEF PacketInv
  <2>3. ExtraInv'
    BY <1>1, <1>2, Zenon DEF ExtraInv
  <2> QED
    BY <2>2, <2>3, Zenon
<1>5. CountInv'
  BY <1>1, <1>2, Zenon DEF CountInv, Open
<1>6. KeepsFinal
  BY <1>1, Zenon DEF KeepsFinal
<1> QED
  BY <1>2, <1>3, <1>4, <1>5, <1>6, Zenon DEF Kept, IInv

\* The nBPF rules.
LEMMA NbpfKeeps ==
    ASSUME IInv, NEW p, NbpfMatch(p)
    PROVE  Kept
<1>1. PICK h \in HitSets :
         cls' = internal_giveup(
                    ndpi_set_detected_protocol(cls, NbpfProtocol, UNKNOWN, "NBPF", Env(h)), Env(h))
  BY Zenon DEF NbpfMatch
<1>2. /\ Inspects(p) /\ NbpfProtocol # UNKNOWN
      /\ UNCHANGED <<l4_proto, guess, fast, extra, fpc, excluded, pc, loc>>
  BY Zenon DEF NbpfMatch
<1> DEFINE c == ndpi_set_detected_protocol(cls, NbpfProtocol, UNKNOWN, "NBPF", Env(h))
<1>3. /\ NbpfProtocol \in ProtocolOrUnknown /\ UNKNOWN \in ProtocolOrUnknown
      /\ "NBPF" \in Confidence /\ Env(h) \in Environment /\ Good(cls) /\ Open(cls)
  <2>1. TypeOK /\ Good(cls)
    BY Zenon DEF IInv
  <2>2. Open(cls)
    BY <1>2, Inspected, Zenon
  <2>3. Env(h) \in Environment
    BY <2>1, EnvType, Zenon
  <2>4. /\ NbpfProtocol \in ProtocolOrUnknown /\ UNKNOWN \in ProtocolOrUnknown
        /\ "NBPF" \in Confidence
    BY ConstantTypes, Zenon DEF Confidence
  <2> QED
    BY <2>1, <2>2, <2>3, <2>4, Zenon
<1>4. Good(c) /\ c.state = "PARTIAL"
  BY <1>2, <1>3, SetDetected, Zenon
<1>5. /\ guess' \in [done : BOOLEAN, port : ProtocolOrUnknown, ip : ProtocolOrUnknown]
      /\ fast' \in ProtocolOrUnknown
      /\ fpc' \in [upper : ProtocolOrUnknown, lower : ProtocolOrUnknown,
                   confidence : {"UNKNOWN", "CUSTOM_RULE", "DPI", "DNS", "IP"}]
  BY ZenonT(60), <1>2 DEF IInv, TypeOK
<1>6. cls' = internal_giveup(c, Env(h))
  BY <1>1, Zenon
<1> HIDE DEF c
<1>7. Open(c)
  BY <1>4, Zenon DEF Open
<1> QED
  BY <1>2, <1>3, <1>4, <1>5, <1>6, <1>7, Decides, Zenon

\* fpc_check_eval() answers with a protocol and where it comes from.
LEMMA FpcType ==
    ASSUME TypeOK, NEW c \in Classification, NEW ip \in ProtocolOrUnknown, NEW h
    PROVE  fpc_check_eval(c, ip, h) \in
               [upper : ProtocolOrUnknown, lower : ProtocolOrUnknown,
                confidence : {"UNKNOWN", "CUSTOM_RULE", "DPI", "DNS", "IP"}]
<1>1. /\ c.upper \in ProtocolOrUnknown /\ c.lower \in ProtocolOrUnknown
      /\ FpcDnsProtocol \in ProtocolOrUnknown /\ UNKNOWN \in ProtocolOrUnknown
      /\ fpc \in [upper : ProtocolOrUnknown, lower : ProtocolOrUnknown,
                  confidence : {"UNKNOWN", "CUSTOM_RULE", "DPI", "DNS", "IP"}]
  <2>1. c.upper \in ProtocolOrUnknown /\ c.lower \in ProtocolOrUnknown
    BY Zenon DEF Classification
  <2> QED
    BY ZenonT(60), <2>1, ConstantTypes DEF TypeOK
<1> DEFINE r(u, l, k) == [upper |-> u, lower |-> l, confidence |-> k]
<1>2. \A u \in ProtocolOrUnknown, l \in ProtocolOrUnknown,
         k \in {"UNKNOWN", "CUSTOM_RULE", "DPI", "DNS", "IP"} :
        r(u, l, k) \in [upper : ProtocolOrUnknown, lower : ProtocolOrUnknown,
                       confidence : {"UNKNOWN", "CUSTOM_RULE", "DPI", "DNS", "IP"}]
  BY Zenon
<1>3. \/ fpc_check_eval(c, ip, h) = fpc
      \/ fpc_check_eval(c, ip, h) = r(c.upper, c.lower, "CUSTOM_RULE")
      \/ fpc_check_eval(c, ip, h) = r(c.upper, c.lower, "DPI")
      \/ fpc_check_eval(c, ip, h) = r(FpcDnsProtocol, UNKNOWN, "DNS")
      \/ fpc_check_eval(c, ip, h) = r(ip, UNKNOWN, "IP")
  BY Zenon DEF fpc_check_eval
<1> HIDE DEF r
<1> QED
  BY SMTT(60), <1>1, <1>2, <1>3

\* The custom rules on ports and addresses, in do_guess().
LEMMA CustomRuleKeeps ==
    ASSUME IInv, NEW p, CustomRule(p)
    PROVE  Kept
<1>1. PICK port \in PortGuess, ip \in IpGuess, user \in BOOLEAN, h \in HitSets :
         /\ PortRule(port, user) \/ ip \in CustomProtocol
         /\ do_guess(port, ip)
         /\ LET e == GuessEnv(port, ip, h)
                c == GuessClassification(port, ip, user, e)
            IN  /\ fpc' = fpc_check_eval(c, ip, h)
                /\ cls' = internal_giveup(c, e)
  BY Zenon DEF CustomRule
<1>2. Inspects(p) /\ UNCHANGED <<l4_proto, extra, excluded, pc, loc>>
  BY Zenon DEF CustomRule
<1> DEFINE e == GuessEnv(port, ip, h)
           c == GuessClassification(port, ip, user, e)
<1>3. /\ port \in ProtocolOrUnknown /\ ip \in ProtocolOrUnknown /\ UNKNOWN \in ProtocolOrUnknown
      /\ "CUSTOM_RULE" \in Confidence /\ UNKNOWN \notin CustomProtocol
  BY ConstantTypes, Zenon DEF Confidence
<1>5. Good(cls) /\ Open(cls) /\ TypeOK
  <2>1. Good(cls) /\ TypeOK
    BY Zenon DEF IInv
  <2> QED
    BY <1>2, <2>1, Inspected, Zenon
<1>4. e \in Environment
  <2>1. l4_proto \in {"TCP", "UDP", "OTHER"}
    BY <1>5, Zenon DEF TypeOK
  <2> QED
    BY <1>3, <2>1, ConstantTypes, Zenon DEF GuessEnv, Environment
<1> HIDE DEF e
<1>6. Good(c) /\ c.state = "PARTIAL"
  <2>1. CASE PortRule(port, user)
    <3>1. port # UNKNOWN
      BY <2>1, <1>3, Zenon DEF PortRule
    <3>2. c = ndpi_set_detected_protocol(cls, port, UNKNOWN, "CUSTOM_RULE", e)
      BY <2>1, Zenon DEF GuessClassification
    <3> QED
      BY SMTT(60), <1>3, <1>4, <1>5, <3>1, <3>2, SetDetected
  <2>2. CASE ~PortRule(port, user)
    <3>1. ip # UNKNOWN
      BY <1>1, <2>2, <1>3, Zenon
    <3>2. c = ndpi_set_detected_protocol(cls, ip, port, "CUSTOM_RULE", e)
      BY <2>2, Zenon DEF GuessClassification
    <3> QED
      BY SMTT(60), <1>3, <1>4, <1>5, <3>1, <3>2, SetDetected
  <2> QED
    BY <2>1, <2>2, Zenon
<1>7. fpc' = fpc_check_eval(c, ip, h) /\ cls' = internal_giveup(c, e)
  BY <1>1, Zenon DEF e
<1> HIDE DEF c
<1>8. Open(c) /\ c \in Classification
  BY <1>6, Cases, Zenon DEF Open
<1>9. fpc' \in [upper : ProtocolOrUnknown, lower : ProtocolOrUnknown,
                confidence : {"UNKNOWN", "CUSTOM_RULE", "DPI", "DNS", "IP"}]
  BY <1>3, <1>5, <1>7, <1>8, FpcType, Zenon
<1>10. /\ guess' \in [done : BOOLEAN, port : ProtocolOrUnknown, ip : ProtocolOrUnknown]
       /\ fast' \in ProtocolOrUnknown
  BY <1>1, <1>3, Zenon DEF do_guess
<1> QED
  BY <1>2, <1>4, <1>6, <1>7, <1>8, <1>9, <1>10, Decides, Zenon

Locals ==
    [pkt : Packet, func : Dissector \union {NULL}, a : Nat \ {0}, subs : Seq(Protocol),
     called : BOOLEAN]

\* A packet is handed to the dissectors.
LEMMA EnterKeeps ==
    ASSUME IInv, NEW p, Inspects(p), Enter(p, "fast"),
           guess' \in [done : BOOLEAN, port : ProtocolOrUnknown, ip : ProtocolOrUnknown],
           fast' \in ProtocolOrUnknown
    PROVE  Kept
<1>1. /\ pc = "idle" /\ p \in Packet /\ extra.func = NULL
      /\ cls.state = "INSPECTING" /\ cls.upper = UNKNOWN /\ ~cls.already_gaveup
  BY Inspected, Zenon
<1>c. /\ cnt' \in [processed : 0..(U16 - 1), all : Nat]
      /\ PacketsLimit > 0 /\ MaxPackets < U16 =>
           /\ cnt'.all <= cnt'.processed /\ cnt'.processed <= MaxPackets
           /\ cnt'.all < PacketsLimit
  BY Inspected, Zenon
<1>2. /\ pc' = "fast" /\ UNCHANGED <<cls, l4_proto, extra, fpc, excluded>>
      /\ loc' \in Locals /\ loc'.subs = <<>>
  <2>1. loc' = [pkt |-> p, func |-> NULL, a |-> 1, subs |-> <<>>, called |-> FALSE]
    BY ZenonT(60) DEF Enter, IdleLocals
  <2>2. loc' \in Locals /\ loc'.subs = <<>>
    <3>1. /\ NULL \in Dissector \union {NULL} /\ 1 \in Nat \ {0} /\ <<>> \in Seq(Protocol)
          /\ FALSE \in BOOLEAN
      OBVIOUS
    <3> QED
      BY Zenon, <1>1, <2>1, <3>1 DEF Locals
  <2> QED
    BY <2>2, Zenon DEF Enter
<1>3. TypeOK'
  <2>1. TypeOK
    BY Zenon DEF IInv
  <2> QED
    BY ZenonT(60), <1>c, <1>2, <2>1 DEF TypeOK, Locals
<1>4. PacketInv' /\ ExtraInv' /\ CountInv' /\ KeepsFinal
  <2>e. /\ pc' = "fast" /\ cls' = cls /\ extra' = extra /\ loc'.subs = <<>>
    BY <1>2, Zenon
  <2>1. PacketInv'
    BY SMTT(60), <1>1, <2>e DEF PacketInv
  <2>2. ExtraInv'
    BY <1>1, <2>e, Zenon DEF ExtraInv
  <2>3. CountInv'
    BY <1>c, Zenon DEF CountInv
  <2>4. KeepsFinal
    BY <1>1, Zenon DEF KeepsFinal
  <2> QED
    BY <2>1, <2>2, <2>3, <2>4, Zenon
<1>5. Good(cls')
  BY <1>2, Zenon DEF IInv
<1> QED
  BY <1>3, <1>4, <1>5, Zenon DEF Kept, IInv

\* The first inspected packet looks up the guesses and enters the scan.
LEMMA FirstInspectionKeeps ==
    ASSUME IInv, NEW p, FirstInspection(p)
    PROVE  Kept
<1>1. PICK port \in PortGuess, ip \in IpGuess : do_guess(port, ip)
  BY Zenon DEF FirstInspection
<1>2. /\ guess' \in [done : BOOLEAN, port : ProtocolOrUnknown, ip : ProtocolOrUnknown]
      /\ fast' \in ProtocolOrUnknown
  BY <1>1, ConstantTypes, Zenon DEF do_guess
<1> QED
  BY <1>2, EnterKeeps, Zenon DEF FirstInspection

\* A later inspected packet enters the scan.
LEMMA NextInspectionKeeps ==
    ASSUME IInv, NEW p, NextInspection(p)
    PROVE  Kept
<1>1. Inspects(p) /\ cls.upper = UNKNOWN
  BY Inspected, Zenon DEF NextInspection
<1>2. Enter(p, "fast") /\ UNCHANGED <<guess, fast>>
  BY <1>1, Zenon DEF NextInspection
<1>3. /\ guess' \in [done : BOOLEAN, port : ProtocolOrUnknown, ip : ProtocolOrUnknown]
      /\ fast' \in ProtocolOrUnknown
  BY ZenonT(60), <1>2 DEF IInv, TypeOK
<1> QED
  BY <1>1, <1>2, <1>3, EnterKeeps, Zenon
-----------------------------------------------------------------------------
(* The steps of the dissectors, and the theorems.                          *)

\* A step in the middle of a packet, after a dissector ran or without one.
LEMMA MidPacket ==
    ASSUME IInv, pc # "idle", pc' \in {"scan", "sub0", "sub1", "ret"}, loc' \in Locals,
           \/ UNCHANGED <<cls, fast, extra, excluded>>
           \/ \E d \in Dissector : Open(cls) /\ Dissected(d),
           UNCHANGED <<l4_proto, guess, cnt, fpc>>,
           PacketInv'
    PROVE  Kept
<1>1. TypeOK /\ Good(cls) /\ ~cls.already_gaveup /\ ExtraInv /\ CountInv
  BY Zenon DEF IInv, PacketInv
<1>2. CASE UNCHANGED <<cls, fast, extra, excluded>>
  <2>1. TypeOK'
    BY <1>1, <1>2, Zenon DEF TypeOK, Locals
  <2>2. ExtraInv' /\ CountInv' /\ KeepsFinal
    BY <1>1, <1>2, Zenon DEF ExtraInv, CountInv, KeepsFinal, SameVerdict
  <2> QED
    BY <1>1, <1>2, <2>1, <2>2, Zenon DEF Kept, IInv
<1>3. CASE \E d \in Dissector : Open(cls) /\ Dissected(d)
  <2>1. PICK d \in Dissector : Open(cls) /\ Dissected(d)
    BY <1>3, Zenon
  <2>2. TypeOK'
    BY <1>1, <2>1, Cases, Zenon DEF TypeOK, Locals, Dissected
  <2>3. ExtraInv' /\ CountInv'
    BY <1>1, <2>1, Zenon DEF ExtraInv, CountInv, Dissected
  <2>4. KeepsFinal
    BY <1>1, <2>1, Zenon DEF KeepsFinal, Open
  <2> QED
    BY <2>1, <2>2, <2>3, <2>4, Zenon DEF Kept, IInv, Dissected
<1> QED
  BY <1>2, <1>3, Zenon

\* The subprotocols of a protocol are dissected by nobody who starts monitoring.
LEMMA SubprotocolsType ==
    ASSUME NEW p \in ProtocolOrUnknown
    PROVE  /\ SubprotocolsOf(p) \in Seq(Protocol)
           /\ \A i \in DOMAIN SubprotocolsOf(p) : 
                DissectorOf[SubprotocolsOf(p)[i]] \notin MonitorsAtOnce
<1>1. CASE p = UNKNOWN
  BY SMTT(60), <1>1 DEF SubprotocolsOf
<1>2. CASE p # UNKNOWN
  <2>1. p \in Protocol /\ SubprotocolsOf(p) = Subprotocols[p]
    BY <1>2, Zenon DEF SubprotocolsOf, ProtocolOrUnknown
  <2> QED
    BY SMTT(60), <2>1, DetectionAssumption, MonitorsAssumption
<1> QED
  BY <1>1, <1>2, Zenon

\* A detection ends the scan and starts the subprotocols of the upper protocol.
LEMMA EnterSub0Keeps ==
    ASSUME IInv, Open(cls), pc # "idle", EnterSub0, NEW d \in Dissector, Dissected(d),
           UNCHANGED <<l4_proto, guess, cnt, fpc>>
    PROVE  Kept
<1>1. /\ cls'.upper \in ProtocolOrUnknown /\ ~cls'.already_gaveup
      /\ cls'.state = "MONITORING" => cls'.lower = UNKNOWN /\ SubprotocolsOf(cls'.upper) = <<>>
  BY Cases, Zenon DEF Dissected, Classification
<1>2. loc \in Locals
  BY Zenon DEF IInv, TypeOK, Locals
<1>3. /\ pc' = "sub0" /\ loc' \in Locals /\ loc'.subs = SubprotocolsOf(cls'.upper)
  BY ZenonT(60), <1>1, <1>2, SubprotocolsType DEF EnterSub0, Locals
<1>4. PacketInv'
  BY <1>1, <1>3, SubprotocolsType, Zenon DEF PacketInv
<1> QED
  BY <1>3, <1>4, MidPacket, Zenon

\* While the dissectors are tried one by one the flow has no verdict.
LEMMA Scanning ==
    ASSUME IInv, pc \in {"fast", "scan"}
    PROVE  /\ Open(cls) /\ cls.upper = UNKNOWN /\ cls.state = "INSPECTING"
           /\ loc \in Locals /\ ~cls.already_gaveup
           /\ \A i \in DOMAIN loc.subs : DissectorOf[loc.subs[i]] \notin MonitorsAtOnce
  BY Cases, Zenon DEF IInv, PacketInv, TypeOK, Locals, Open

\* The scan goes on.
LEMMA ScanGoesOn ==
    ASSUME IInv, pc \in {"fast", "scan"}, pc' = "scan", loc' \in Locals, loc'.subs = loc.subs,
           \/ UNCHANGED <<cls, fast, extra, excluded>>
           \/ \E d \in Dissector : Dissected(d) /\ cls'.upper = UNKNOWN,
           UNCHANGED <<l4_proto, guess, cnt, fpc>>
    PROVE  Kept
<1>1. /\ Open(cls) /\ cls.upper = UNKNOWN /\ ~cls.already_gaveup
      /\ \A i \in DOMAIN loc.subs : DissectorOf[loc.subs[i]] \notin MonitorsAtOnce
  BY Scanning, Zenon
<1>2. cls'.upper = UNKNOWN /\ ~cls'.already_gaveup
  BY <1>1, Zenon DEF Dissected
<1>3. PacketInv'
  BY <1>1, <1>2, Zenon DEF PacketInv
<1> QED
  BY <1>1, <1>3, MidPacket, Zenon

\* The fast callback.
LEMMA FastKeeps ==
    ASSUME IInv, FastCallback
    PROVE  Kept
<1> DEFINE d == FastDissector
<1>1. /\ pc = "fast" /\ UNCHANGED <<l4_proto, guess, cnt, fpc>>
      /\ IF Callable(d)
         THEN /\ Dissect(d)
              /\ IF cls'.upper = UNKNOWN
                 THEN /\ pc' = "scan"
                      /\ loc' = [loc EXCEPT !.func = d, !.called = TRUE]
                 ELSE EnterSub0
         ELSE /\ pc' = "scan"
              /\ UNCHANGED <<cls, fast, extra, excluded, loc>>
  BY Zenon DEF FastCallback
<1>2. loc \in Locals /\ Open(cls)
  BY <1>1, Scanning, Zenon
<1>3. d \in Dissector \union {NULL}
  BY DetectionAssumption, Zenon DEF FastDissector, IInv, TypeOK, ProtocolOrUnknown
<1> HIDE DEF d
<1>4. CASE ~Callable(d)
  BY <1>1, <1>2, <1>4, ScanGoesOn, Zenon
<1>5. CASE Callable(d)
  <2>1. d \in Dissector
    BY <1>3, <1>5, Zenon DEF Callable
  <2>2. Dissected(d)
    BY <1>1, <1>2, <1>5, <2>1, DissectKeeps, Zenon
  <2>3. CASE cls'.upper = UNKNOWN
    <3>1. loc' \in Locals /\ loc'.subs = loc.subs
      BY ZenonT(60), <1>1, <1>2, <1>5, <2>1, <2>3 DEF Locals
    <3> QED
      BY <1>1, <1>5, <2>1, <2>2, <2>3, <3>1, ScanGoesOn, Zenon
  <2>4. CASE cls'.upper # UNKNOWN
    BY <1>1, <1>2, <1>5, <2>1, <2>2, <2>4, EnterSub0Keeps, Zenon
  <2> QED
    BY <2>3, <2>4, Zenon
<1> QED
  BY <1>4, <1>5, Zenon

\* The candidates of a packet are dissectors.
LEMMA BufferType ==
    ASSUME NEW p
    PROVE  Buffer(p) \in Seq(Dissector)
<1>1. \A b \in {"tcp_payload", "tcp_no_payload", "udp", "non_tcp_udp"} :
          CallbackBuffer[b] \in Seq(Dissector)
  BY DetectionAssumption, Zenon DEF BufferName
<1> QED
  BY <1>1, Zenon DEF Buffer

\* One dissector of the scan.
LEMMA ScanKeeps ==
    ASSUME IInv, ScanCallback
    PROVE  Kept
<1> DEFINE d == Buffer(loc.pkt)[loc.a]
<1>1. /\ pc = "scan" /\ UNCHANGED <<l4_proto, guess, cnt, fpc>>
      /\ loc.a <= Len(Buffer(loc.pkt))
      /\ IF d # loc.func /\ Callable(d)
         THEN /\ Dissect(d)
              /\ IF cls'.upper = UNKNOWN
                 THEN /\ loc' = [loc EXCEPT !.a = loc.a + 1, !.called = TRUE]
                      /\ UNCHANGED pc
                 ELSE EnterSub0
         ELSE /\ loc' = [loc EXCEPT !.a = loc.a + 1]
              /\ UNCHANGED <<cls, fast, extra, excluded, pc>>
  BY Zenon DEF ScanCallback
<1>2. loc \in Locals /\ Open(cls)
  BY <1>1, Scanning, Zenon
<1> HIDE DEF d
<1>4. CASE ~(d # loc.func /\ Callable(d))
  <2>1. loc' = [loc EXCEPT !.a = loc.a + 1] /\ UNCHANGED <<cls, fast, extra, excluded, pc>>
    BY <1>1, <1>4, Zenon
  <2>2. loc' \in Locals /\ loc'.subs = loc.subs
    BY <1>2, <2>1 DEF Locals
  <2> QED
    BY <1>1, <2>1, <2>2, ScanGoesOn, Zenon
<1>5. CASE d # loc.func /\ Callable(d)
  <2>1. Dissect(d)
    BY <1>1, <1>5, Zenon
  <2>2. CASE d \in Dissector
    <3>1. Dissected(d)
      BY <1>2, <2>1, <2>2, DissectKeeps, Zenon
    <3>2. CASE cls'.upper = UNKNOWN
      <4>1. loc' = [loc EXCEPT !.a = loc.a + 1, !.called = TRUE] /\ pc' = "scan"
        BY <1>1, <1>5, <3>2, Zenon
      <4>2. loc' \in Locals /\ loc'.subs = loc.subs
        <5>1. loc.a + 1 \in Nat \ {0}
          BY SMTT(60), <1>2 DEF Locals
        <5> QED
          BY ZenonT(60), <1>2, <4>1, <5>1 DEF Locals
      <4> QED
        BY <1>1, <2>2, <3>1, <3>2, <4>1, <4>2, ScanGoesOn, Zenon
    <3>3. CASE cls'.upper # UNKNOWN
      BY <1>1, <1>2, <1>5, <2>2, <3>1, <3>3, EnterSub0Keeps, Zenon
    <3> QED
      BY <3>2, <3>3, Zenon
  <2>3. d \in Dissector
    <3>1. loc.a \in 1..Len(Buffer(loc.pkt))
      BY SMTT(60), <1>1, <1>2, BufferType DEF Locals
    <3> QED
      BY SMTT(60), <3>1, BufferType DEF d
  <2> QED
    BY <2>2, <2>3, Zenon
<1> QED
  BY <1>4, <1>5, Zenon

\* The scan ends without a verdict: there are no subprotocols to try.
LEMMA ScanEndKeeps ==
    ASSUME IInv, ScanEnd
    PROVE  Kept
<1>1. /\ pc = "scan" /\ pc' = "sub0"
      /\ loc' = [loc EXCEPT !.subs = SubprotocolsOf(cls.upper)]
      /\ UNCHANGED <<cls, l4_proto, guess, fast, extra, cnt, fpc, excluded>>
  BY Zenon DEF ScanEnd
<1>2. cls.upper = UNKNOWN /\ cls.state = "INSPECTING" /\ loc \in Locals /\ ~cls.already_gaveup
  BY <1>1, Scanning, Zenon
<1>3. loc' = [loc EXCEPT !.subs = <<>>]
  BY <1>1, <1>2, Zenon DEF SubprotocolsOf
<1>4. loc' \in Locals /\ loc'.subs = <<>>
  <2>1. <<>> \in Seq(Protocol)
    OBVIOUS
  <2> QED
    BY ZenonT(60), <1>2, <1>3, <2>1 DEF Locals
<1>5. PacketInv'
  BY SMTT(60), <1>1, <1>2, <1>4 DEF PacketInv
<1> QED
  BY <1>1, <1>4, <1>5, MidPacket, Zenon

\* The rest of the subprotocols.
LEMMA TailSubs ==
    ASSUME NEW s \in Seq(Protocol), s # <<>>,
           \A i \in DOMAIN s : DissectorOf[s[i]] \notin MonitorsAtOnce
    PROVE  /\ Head(s) \in Protocol /\ DissectorOf[Head(s)] \notin MonitorsAtOnce
           /\ Tail(s) \in Seq(Protocol)
           /\ \A i \in DOMAIN Tail(s) : DissectorOf[Tail(s)[i]] \notin MonitorsAtOnce
<1>1. Len(s) \in Nat \ {0} /\ DOMAIN s = 1..Len(s) /\ Head(s) = s[1] /\ s[1] \in Protocol
  OBVIOUS
<1>2. Tail(s) \in Seq(Protocol) /\ Len(Tail(s)) = Len(s) - 1
  OBVIOUS
<1>3. DOMAIN Tail(s) = 1..(Len(s) - 1)
  BY SMTT(60), <1>1, <1>2
<1>4. ASSUME NEW i \in DOMAIN Tail(s)
      PROVE  DissectorOf[Tail(s)[i]] \notin MonitorsAtOnce
  <2>1. i + 1 \in DOMAIN s /\ Tail(s)[i] = s[i + 1]
    BY SMTT(60), <1>1, <1>3
  <2> QED
    BY <2>1, Zenon
<1> QED
  BY SMTT(60), <1>1, <1>2, <1>4

\* One subprotocol.
LEMMA SubKeeps ==
    ASSUME IInv, SubCallback
    PROVE  Kept
<1> DEFINE d == DissectorOf[Head(loc.subs)]
           called == Head(loc.subs) \notin {cls.upper, cls.lower} /\ Callable(d)
<1>1. /\ pc \in {"sub0", "sub1"} /\ loc.subs # <<>>
      /\ IF called
         THEN /\ Dissect(d)
              /\ loc' = [loc EXCEPT !.subs = Tail(loc.subs), !.called = TRUE]
         ELSE /\ loc' = [loc EXCEPT !.subs = Tail(loc.subs)]
              /\ UNCHANGED <<cls, fast, extra, excluded>>
      /\ UNCHANGED <<l4_proto, guess, cnt, fpc, pc>>
  BY Zenon DEF SubCallback
<1>2. /\ loc \in Locals /\ ~cls.already_gaveup /\ cls.state # "MONITORING" /\ Open(cls)
      /\ \A i \in DOMAIN loc.subs : DissectorOf[loc.subs[i]] \notin MonitorsAtOnce
  BY <1>1, Cases, Zenon DEF IInv, PacketInv, TypeOK, Locals
<1>3. /\ Head(loc.subs) \in Protocol /\ d \notin MonitorsAtOnce
      /\ Tail(loc.subs) \in Seq(Protocol)
      /\ \A i \in DOMAIN Tail(loc.subs) : DissectorOf[Tail(loc.subs)[i]] \notin MonitorsAtOnce
  BY <1>1, <1>2, TailSubs, Zenon DEF Locals
<1>4. loc' \in Locals /\ loc'.subs = Tail(loc.subs)
  BY ZenonT(60), <1>1, <1>2, <1>3 DEF Locals
<1>5. d \in Dissector \union {NULL}
  BY <1>3, DetectionAssumption, Zenon
<1> HIDE DEF d
<1>6. CASE called
  <2>1. d \in Dissector
    BY <1>5, <1>6, Zenon DEF Callable
  <2>2. Dissected(d)
    BY <1>1, <1>2, <1>6, <2>1, DissectKeeps, Zenon
  <2>3. PacketInv'
    BY <1>1, <1>3, <1>4, <2>2, Zenon DEF PacketInv, Dissected
  <2> QED
    BY <1>1, <1>2, <1>4, <2>1, <2>2, <2>3, MidPacket, Zenon
<1>7. CASE ~called
  <2>1. PacketInv'
    BY <1>1, <1>2, <1>3, <1>4, <1>7, Zenon DEF PacketInv
  <2> QED
    BY <1>1, <1>4, <1>7, <2>1, MidPacket, Zenon
<1> QED
  BY <1>6, <1>7, Zenon

\* The subprotocols of one protocol are done.
LEMMA SubEndKeeps ==
    ASSUME IInv, SubEnd
    PROVE  Kept
<1>1. loc.subs = <<>> /\ UNCHANGED <<cls, l4_proto, guess, fast, extra, cnt, fpc, excluded>>
  BY Zenon DEF SubEnd
<1>2. loc \in Locals /\ cls.lower \in ProtocolOrUnknown
  BY Zenon DEF IInv, TypeOK, Locals, Classification
<1>3. CASE pc = "sub0" /\ pc' = "sub1" /\ loc' = [loc EXCEPT !.subs = SubprotocolsOf(cls.lower)]
  <2>1. loc' \in Locals /\ loc'.subs = SubprotocolsOf(cls.lower)
    BY <1>2, <1>3, SubprotocolsType, Zenon DEF Locals
  <2>2. cls.state = "MONITORING" => SubprotocolsOf(cls.lower) = <<>>
    BY <1>3, Zenon DEF IInv, PacketInv, SubprotocolsOf
  <2>3. PacketInv'
    BY <1>1, <1>2, <1>3, <2>1, <2>2, SubprotocolsType, Zenon DEF IInv, PacketInv
  <2> QED
    BY <1>1, <1>3, <2>1, <2>3, MidPacket, Zenon
<1>4. CASE pc = "sub1" /\ pc' = "ret" /\ UNCHANGED loc
  <2>1. PacketInv'
    BY <1>1, <1>4, Zenon DEF IInv, PacketInv
  <2> QED
    BY <1>1, <1>2, <1>4, <2>1, MidPacket, Zenon
<1> QED
  BY <1>3, <1>4, Zenon DEF SubEnd

\* What the epilogue of a packet makes of the flow.
LEMMA Epilogue ==
    ASSUME IInv, pc = "ret", NEW e \in Environment, NEW d,
           LET c == ClassifiedEpilogue(cls, e)
           IN  d = IF NoMoreDissectors THEN ndpi_internal_detection_giveup(c, e) ELSE c
    PROVE  /\ Good(d)
           /\ Open(d) => Open(cls) /\ d = cls
           /\ d.state = "MONITORING" => cls.state = "MONITORING"
           /\ d.upper # UNKNOWN /\ d.state # "CLASSIFIED" => extra.func # NULL
           /\ cls.state = "MONITORING" => SameVerdict(cls, d)
<1> DEFINE c == ClassifiedEpilogue(cls, e)
<1>1. /\ Good(cls) /\ ~cls.already_gaveup /\ cls.state # "CLASSIFIED"
      /\ cls.state = "MONITORING" => extra.func # NULL
      /\ Open(cls) \/ cls.state = "MONITORING"
  BY Cases, Zenon DEF IInv, PacketInv, ExtraInv
<1>2. d = IF NoMoreDissectors THEN ndpi_internal_detection_giveup(c, e) ELSE c
  BY Zenon
<1>3. CASE cls.upper # UNKNOWN /\ extra.func = NULL
  <2>1. c = internal_giveup(cls, e) /\ Open(cls)
    BY <1>1, <1>3, Zenon DEF ClassifiedEpilogue
  <2>2. Good(c) /\ c.state = "CLASSIFIED"
    BY <1>1, <2>1, InternalGiveup, Zenon
  <2> HIDE DEF c
  <2>3. Good(d) /\ d.state = "CLASSIFIED"
    BY SMTT(60), <1>2, <2>2, GiveupCloses DEF Open, SameVerdict
  <2> QED
    BY <2>1, <2>3, Zenon DEF Open
<1>4. CASE ~(cls.upper # UNKNOWN /\ extra.func = NULL)
  <2>1. c = cls
    BY <1>4, Zenon DEF ClassifiedEpilogue
  <2> HIDE DEF c
  <2>2. CASE ~NoMoreDissectors
    BY <1>1, <1>2, <1>4, <2>1, <2>2, Zenon DEF SameVerdict
  <2>3. CASE NoMoreDissectors
    <3>1. d = ndpi_internal_detection_giveup(cls, e)
      BY <1>2, <2>1, <2>3, Zenon
    <3>2. /\ Good(d) /\ d.state \in {"CLASSIFIED", "MONITORING"}
          /\ ~Open(cls) => SameVerdict(cls, d)
          /\ d.state = "MONITORING" => cls.state = "MONITORING"
      BY <1>1, <3>1, GiveupCloses, GiveupNeverMonitors, Zenon
    <3> QED
      BY <1>1, <3>2, Zenon DEF Open
  <2> QED
    BY <2>2, <2>3, Zenon
<1> QED
  BY <1>3, <1>4, Zenon

\* The end of a packet: give up when the budget is spent, or wait for the next.
LEMMA ReturnKeeps ==
    ASSUME IInv, ReturnProtocols
    PROVE  Kept
<1>1. PICK h \in HitSets :
         /\ fpc' = IF cnt.all = 1 THEN fpc_check_eval(cls, guess.ip, h) ELSE fpc
         /\ LET c == ClassifiedEpilogue(cls, Env(h))
            IN  cls' = IF NoMoreDissectors
                       THEN ndpi_internal_detection_giveup(c, Env(h))
                       ELSE c
  BY Zenon DEF ReturnProtocols
<1>2. /\ pc = "ret" /\ pc' = "idle" /\ loc' = IdleLocals
      /\ UNCHANGED <<l4_proto, guess, fast, extra, cnt, excluded>>
  BY Zenon DEF ReturnProtocols
<1>3. Env(h) \in Environment /\ TypeOK /\ ~cls.already_gaveup
  BY <1>2, EnvType, Zenon DEF IInv, PacketInv
<1>4. /\ Good(cls')
      /\ Open(cls') => Open(cls) /\ cls' = cls
      /\ cls'.state = "MONITORING" => cls.state = "MONITORING"
      /\ cls'.upper # UNKNOWN /\ cls'.state # "CLASSIFIED" => extra.func # NULL
      /\ cls.state = "MONITORING" => SameVerdict(cls, cls')
  BY SMTT(60), <1>1, <1>2, <1>3, Epilogue
<1>5. loc' \in Locals /\ loc'.subs = <<>>
  <2>1. <<>> \in Seq(Protocol) /\ NoPacket \in Packet
    BY SMTT(60) DEF NoPacket, Packet
  <2> QED
    BY SMTT(60), <1>2, <2>1 DEF IdleLocals, Locals
<1>6. fpc' \in [upper : ProtocolOrUnknown, lower : ProtocolOrUnknown,
                confidence : {"UNKNOWN", "CUSTOM_RULE", "DPI", "DNS", "IP"}]
  <2>1. cls \in Classification /\ guess.ip \in ProtocolOrUnknown
    BY <1>3, Zenon DEF TypeOK
  <2>2. fpc_check_eval(cls, guess.ip, h) \in
            [upper : ProtocolOrUnknown, lower : ProtocolOrUnknown,
             confidence : {"UNKNOWN", "CUSTOM_RULE", "DPI", "DNS", "IP"}]
    BY <1>3, <2>1, FpcType, Zenon
  <2> QED
    BY <1>1, <1>3, <2>2, Zenon DEF TypeOK
<1>7. TypeOK'
  BY <1>2, <1>3, <1>4, <1>5, <1>6, Cases, Zenon DEF TypeOK, Locals
<1>8. PacketInv'
  BY SMTT(60), <1>2, <1>5 DEF PacketInv
<1>9. ExtraInv'
  BY <1>2, <1>4, Cases, Zenon DEF IInv, ExtraInv, Open
<1>10. CountInv'
  BY <1>2, <1>4, Zenon DEF IInv, CountInv
<1>11. KeepsFinal
  BY <1>3, <1>4, Zenon DEF KeepsFinal
<1> QED
  BY <1>4, <1>7, <1>8, <1>9, <1>10, <1>11, Zenon DEF Kept, IInv

-----------------------------------------------------------------------------
(* The theorems.                                                            *)

\* Every step, of the library or of the application, keeps the invariant and
\* leaves final verdicts alone.
LEMMA StepKeeps ==
    ASSUME IInv, [Next]_vars
    PROVE  Kept
<1>1. ASSUME NEW p \in PacketKind, RejectPacket(p) PROVE Kept
  BY <1>1, RejectKeeps, Zenon
<1>2. ASSUME NEW p \in PacketKind, LimitGiveup(p) PROVE Kept
  BY <1>2, LimitKeeps, Zenon
<1>3. ASSUME NEW p \in PacketKind, process_extra_packet(p) PROVE Kept
  BY <1>3, ExtraKeeps, Zenon
<1>4. ASSUME NEW p \in PacketKind, NbpfMatch(p) PROVE Kept
  BY <1>4, NbpfKeeps, Zenon
<1>5. ASSUME NEW p \in PacketKind, CustomRule(p) PROVE Kept
  BY <1>5, CustomRuleKeeps, Zenon
<1>6. ASSUME NEW p \in PacketKind, FirstInspection(p) PROVE Kept
  BY <1>6, FirstInspectionKeeps, Zenon
<1>7. ASSUME NEW p \in PacketKind, NextInspection(p) PROVE Kept
  BY <1>7, NextInspectionKeeps, Zenon
<1>8. CASE FastCallback
  BY <1>8, FastKeeps, Zenon
<1>9. CASE ScanCallback
  BY <1>9, ScanKeeps, Zenon
<1>10. CASE ScanEnd
  BY <1>10, ScanEndKeeps, Zenon
<1>11. CASE SubCallback
  BY <1>11, SubKeeps, Zenon
<1>12. CASE SubEnd
  BY <1>12, SubEndKeeps, Zenon
<1>13. CASE ReturnProtocols
  BY <1>13, ReturnKeeps, Zenon
<1>14. CASE ndpi_detection_giveup
  BY <1>14, GiveupKeeps, Zenon
<1>15. CASE UNCHANGED vars
  <2>1. TypeOK'
    BY SMTT(60), <1>15 DEF vars, IInv, TypeOK
  <2>2. Good(cls)' /\ PacketInv' /\ ExtraInv' /\ CountInv' /\ KeepsFinal
    BY <1>15, Zenon DEF vars, IInv, PacketInv, ExtraInv, CountInv, KeepsFinal, SameVerdict
  <2> QED
    BY <2>1, <2>2, Zenon DEF Kept, IInv
<1> QED
  BY <1>1, <1>2, <1>3, <1>4, <1>5, <1>6, <1>7, <1>8, <1>9, <1>10, <1>11, <1>12, <1>13,
     <1>14, <1>15, Zenon DEF Next, PacketStep, DissectionStep

\* The invariant of the flow, for any configuration and number of packets.
THEOREM Invariant == Spec => []IInv
<1>1. IInv /\ [Next]_vars => IInv'
  BY StepKeeps, Zenon DEF Kept
<1> QED
  BY InitIInv, <1>1, PTL DEF Spec

\* Every field of the flow keeps its type.
THEOREM TypeCorrect == Spec => []TypeOK
<1>1. IInv => TypeOK
  BY Zenon DEF IInv
<1> QED
  BY Invariant, <1>1, PTL

\* ndpi_detection_process_packet() keeps the state enum and the fields it
\* summarises consistent, at every point of a packet.
THEOREM StateConsistent == Spec => []StateAgrees
<1>1. IInv => StateAgrees
  BY Zenon DEF IInv, ExtraInv, Good, GoodVerdict, StateAgrees
<1> QED
  BY Invariant, <1>1, PTL

\* Between packets a verdict that is not final has an extra dissection function.
THEOREM NoThirdCase == Spec => []ExtraOrDone
<1>1. IInv => ExtraOrDone
  BY Zenon DEF IInv, ExtraInv, ExtraOrDone, Boundary
<1> QED
  BY Invariant, <1>1, PTL

\* internal_giveup() closes a flow once.
THEOREM ClosedOnce == Spec => []GiveupOnce
<1>1. IInv => GiveupOnce
  BY Zenon DEF IInv, Good, GoodGiveup, GiveupOnce
<1> QED
  BY Invariant, <1>1, PTL

\* The packet limit of the configuration is honoured.
THEOREM LimitIsHonoured == Spec => []LimitHonoured
<1>1. IInv => LimitHonoured
  BY Zenon DEF IInv, CountInv, LimitHonoured, Open
<1> QED
  BY Invariant, <1>1, PTL

\* The protocol stack is well formed and holds the legacy pair.
THEOREM StackAgrees == Spec => []StackHoldsVerdict
<1>1. IInv => StackHoldsVerdict
  BY Zenon DEF IInv, Good, GoodVerdict, Holds, StackHoldsVerdict
<1> QED
  BY Invariant, <1>1, PTL

\* A verdict given up on, or observed in MONITORING, never changes.
THEOREM VerdictIsFinal == Spec => FinalVerdict
<1>1. IInv /\ [Next]_vars =>
        [cls.already_gaveup \/ cls.state = "MONITORING" =>
           /\ cls'.upper = cls.upper /\ cls'.lower = cls.lower
           /\ cls'.confidence = cls.confidence /\ cls'.protocol_stack = cls.protocol_stack
           /\ cls'.state = cls.state]_vars
  BY StepKeeps, Zenon DEF Kept, KeepsFinal, SameVerdict
<1> QED
  BY Invariant, <1>1, PTL DEF Spec, FinalVerdict

-----------------------------------------------------------------------------
(* The mark and the confidence of a guess, step by step.                    *)

\* The invariant of the guesses.
GuessInv == GuessedOrPlain(cls, guess.port, guess.ip)

\* A verdict of a dissector is no guess.
LEMMA DissectorsDoNotGuess ==
    ASSUME IInv, Open(cls), Plain(cls, guess.ip),
           NEW d \in Dissector, NEW v \in VerdictOf(d), NEW h \in HitSets
    PROVE  LET c == ndpi_set_detected_protocol(cls, v[1], v[2], v[3], Env(h))
           IN  Plain(c, guess.ip) /\ Good(c) /\ c.state = "PARTIAL"
<1>1. TypeOK /\ Good(cls)
  BY Zenon DEF IInv
<1>2. v \in Verdict[d] /\ v[1] \in Protocol /\ v[2] \in ProtocolOrUnknown /\ v[3] \in Confidence
  BY Zenon, <1>1, VerdictType
<1>3. v[3] # "DPI_PARTIAL_CACHE" /\ (v[3] \in ByAddress => v[1] = guess.ip)
  <2>1. v[3] # "DPI_PARTIAL_CACHE"
    BY Zenon, <1>2, ConfidenceAssumption
  <2>2. v[3] \in ByAddress => v[1] = guess.ip
    BY <1>2, Zenon DEF VerdictOf, ByAddress
  <2> QED
    BY <2>1, <2>2, Zenon
<1>4. Env(h) \in Environment
  BY Zenon, <1>1, EnvType
<1> QED
  BY Zenon, <1>1, <1>2, <1>3, <1>4, PlainDetected

\* Whatever a dissector does, it does not guess.
LEMMA DissectPlain ==
    ASSUME IInv, Open(cls), Plain(cls, guess.ip), NEW d \in Dissector, Dissect(d)
    PROVE  Plain(cls', guess.ip)
<1>1. CASE UNCHANGED cls
  BY <1>1, Zenon
<1>2. CASE \E v \in VerdictOf(d), h \in HitSets :
             cls' = ndpi_set_detected_protocol(cls, v[1], v[2], v[3], Env(h))
  BY Zenon, <1>2, DissectorsDoNotGuess
<1>3. CASE \E v \in VerdictOf(d), h \in HitSets :
             LET c == ndpi_set_detected_protocol(cls, v[1], v[2], v[3], Env(h))
             IN  cls' = [c EXCEPT !.state = "MONITORING"]
  <2>1. PICK v \in VerdictOf(d), h \in HitSets :
             LET c == ndpi_set_detected_protocol(cls, v[1], v[2], v[3], Env(h))
             IN  cls' = [c EXCEPT !.state = "MONITORING"]
    BY <1>3, Zenon
  <2> DEFINE c == ndpi_set_detected_protocol(cls, v[1], v[2], v[3], Env(h))
  <2>2. Plain(c, guess.ip) /\ Good(c) /\ cls' = [c EXCEPT !.state = "MONITORING"]
    BY Zenon, <2>1, DissectorsDoNotGuess
  <2> HIDE DEF c
  <2> QED
    BY <2>2, Zenon DEF Plain, Good, GoodVerdict, Classification
<1> QED
  BY ZenonT(60), <1>1, <1>2, <1>3 DEF Dissect

\* What the environment of giveup holds of the guesses.
LEMMA EnvGuess ==
    ASSUME NEW h
    PROVE  Env(h).by_port = guess.port /\ Env(h).by_ip = guess.ip
  BY Zenon DEF Env

\* A flow that is not closed was not guessed.
LEMMA OpenIsPlain ==
    ASSUME GuessInv, cls.state # "CLASSIFIED"
    PROVE  Plain(cls, guess.ip)
  BY Zenon DEF GuessInv, GuessedOrPlain

\* The flow is given up on, by the packet limit or by the application.
LEMMA GivenUp ==
    ASSUME IInv, GuessInv, NEW h \in HitSets,
           cls' = ndpi_internal_detection_giveup(cls, Env(h)), UNCHANGED guess
    PROVE  GuessInv'
<1>1. Good(cls) /\ Env(h) \in Environment
  BY EnvType, Zenon DEF IInv
<1>2. GuessedOrPlain(cls, Env(h).by_port, Env(h).by_ip)
  BY EnvGuess, Zenon DEF GuessInv
<1>3. GuessedOrPlain(cls', Env(h).by_port, Env(h).by_ip)
  BY <1>1, <1>2, GiveupGuesses, Zenon
<1> QED
  BY <1>3, EnvGuess, Zenon DEF GuessInv

\* The epilogue of a packet.
LEMMA ReturnGuess ==
    ASSUME IInv, GuessInv, ReturnProtocols
    PROVE  GuessInv'
<1>1. PICK h \in HitSets :
         LET c == ClassifiedEpilogue(cls, Env(h))
         IN  cls' = IF NoMoreDissectors THEN ndpi_internal_detection_giveup(c, Env(h)) ELSE c
  BY Zenon DEF ReturnProtocols
<1>2. pc = "ret" /\ UNCHANGED guess
  BY Zenon DEF ReturnProtocols
<1>3. Env(h) \in Environment /\ Good(cls) /\ cls.state # "CLASSIFIED"
  BY <1>2, EnvType, Cases, Zenon DEF IInv, PacketInv
<1> DEFINE c == ClassifiedEpilogue(cls, Env(h))
<1>4. Plain(cls, guess.ip)
  BY <1>3, OpenIsPlain, Zenon
<1>5. Good(c) /\ Plain(c, guess.ip)
  BY <1>3, <1>4, PlainGiveup, InternalGiveup, Zenon DEF ClassifiedEpilogue
<1>6. cls' = IF NoMoreDissectors THEN ndpi_internal_detection_giveup(c, Env(h)) ELSE c
  BY <1>1, Zenon
<1> HIDE DEF c
<1>7. GuessedOrPlain(c, guess.port, guess.ip)
  BY <1>5, Zenon DEF GuessedOrPlain
<1>8. GuessedOrPlain(ndpi_internal_detection_giveup(c, Env(h)), guess.port, guess.ip)
  BY <1>3, <1>5, <1>7, EnvGuess, GiveupGuesses, Zenon
<1>9. GuessedOrPlain(cls', guess.port, guess.ip)
  BY <1>6, <1>7, <1>8, Zenon
<1> QED
  BY <1>2, <1>9, Zenon DEF GuessInv

\* The extra dissection function does not guess either.
LEMMA OutcomePlain ==
    ASSUME IInv, cls.state # "CLASSIFIED", extra.func # NULL, Plain(cls, guess.ip),
           NEW h \in HitSets, NEW o \in ExtraOutcome(h)
    PROVE  Plain(o.cls, guess.ip)
<1>1. cls.state \in {"PARTIAL", "MONITORING"} /\ extra.func \in Dissector /\ Good(cls)
  <2>1. TypeOK /\ ExtraInv /\ Good(cls)
    BY Zenon DEF IInv
  <2>2. extra.func \in Dissector
    BY <2>1, Zenon DEF TypeOK
  <2> QED
    BY <2>1, <2>2, Cases, Zenon DEF ExtraInv, Open
<1>2. CASE cls.state = "MONITORING"
  BY <1>2 DEF ExtraOutcome
<1>3. CASE cls.state = "PARTIAL"
  <2> DEFINE R == Reclassified(extra.func, h)
             A == {[cls |-> c, func |-> extra.func, max |-> extra.max, ret |-> ret] :
                      c \in R, ret \in {0, 1}}
             B == {[cls |-> [c EXCEPT !.state = "MONITORING"], func |-> extra.func,
                    max |-> extra.max, ret |-> 1] : c \in {x \in R : extra.func \in Monitors}}
             S(d) == {[cls |-> c, func |-> d, max |-> m, ret |-> 1] :
                         c \in R, m \in ExtraMax[d]}
             D == {x \in Dissector : extra.switches < MaxSwitches}
  <2>1. ExtraOutcome(h) = A \union B \union UNION {S(d) : d \in D}
    BY <1>3 DEF ExtraOutcome
  <2>2. \A c \in R : Plain(c, guess.ip) /\ c \in Classification
    <3>1. Open(cls)
      BY <1>3, Zenon DEF Open
    <3>2. \A v \in VerdictOf(extra.func) :
            LET c == ndpi_set_detected_protocol(cls, v[1], v[2], v[3], Env(h))
            IN  Plain(c, guess.ip) /\ Good(c)
      BY Zenon, <1>1, <3>1, DissectorsDoNotGuess
    <3>3. \A c \in R : Plain(c, guess.ip) /\ Good(c)
      BY <1>1, <3>2, Zenon DEF Reclassified
    <3> HIDE DEF R
    <3> QED
      BY Zenon, <3>3, Cases
  <2> HIDE DEF R
  <2>3. CASE o \in A
    BY <2>2, <2>3
  <2>4. CASE o \in B
    <3>1. PICK c \in R : o.cls = [c EXCEPT !.state = "MONITORING"]
      BY <2>4
    <3> QED
      BY <2>2, <3>1, Zenon DEF Plain, Classification
  <2>5. CASE o \in UNION {S(d) : d \in D}
    <3>1. \E d \in D : o \in S(d)
      <4> HIDE DEF S, D
      <4> QED
        BY <2>5, Zenon
    <3>2. PICK d \in D : o \in S(d)
      <4> HIDE DEF S, D
      <4> QED
        BY <3>1, Zenon
    <3> QED
      BY <2>2, <3>2
  <2> HIDE DEF A, B, S, D
  <2> QED
    BY <2>1, <2>3, <2>4, <2>5, Zenon
<1> QED
  BY <1>1, <1>2, <1>3, Zenon

\* A packet of the extra dissection.
LEMMA ExtraGuess ==
    ASSUME IInv, GuessInv, NEW p, process_extra_packet(p)
    PROVE  GuessInv'
<1>1. /\ Accepts(p) /\ extra.func # NULL /\ UNCHANGED guess
  BY Zenon DEF process_extra_packet
<1>2. cls.state # "CLASSIFIED"
  BY Zenon, <1>1, Accepted
<1>3. Plain(cls, guess.ip)
  BY Zenon, <1>2, OpenIsPlain
<1>4. CASE UNCHANGED cls
  BY <1>1, <1>4, Zenon DEF GuessInv
<1>5. CASE \E h \in HitSets : \E o \in ExtraOutcome(h) :
             cls' = IF ExtraDone(o) THEN internal_giveup(o.cls, Env(h)) ELSE o.cls
  <2>1. PICK h \in HitSets : \E o \in ExtraOutcome(h) :
             cls' = IF ExtraDone(o) THEN internal_giveup(o.cls, Env(h)) ELSE o.cls
    BY <1>5, Zenon
  <2>2. PICK o \in ExtraOutcome(h) :
             cls' = IF ExtraDone(o) THEN internal_giveup(o.cls, Env(h)) ELSE o.cls
    BY <2>1, Zenon
  <2>3. OutcomeOK(o) /\ Env(h) \in Environment
    <3>1. TypeOK
      BY Zenon DEF IInv
    <3> QED
      BY Zenon, <1>1, <1>2, <3>1, Outcomes, EnvType
  <2>4. Plain(o.cls, guess.ip)
    BY Zenon, <1>1, <1>2, <1>3, OutcomePlain
  <2>5. Good(o.cls) /\ o.cls.state # "CLASSIFIED"
    BY <2>3, Zenon DEF OutcomeOK
  <2>6. Plain(cls', guess.ip)
    <3>1. Plain(internal_giveup(o.cls, Env(h)), guess.ip)
      BY Zenon, <2>3, <2>4, <2>5, PlainGiveup
    <3> QED
      BY Zenon, <2>2, <2>4, <3>1
  <2> QED
    BY <1>1, <2>6, Zenon DEF GuessInv, GuessedOrPlain
<1> QED
  BY Zenon, <1>4, <1>5 DEF process_extra_packet

\* A rule of the user decides the flow before the dissectors.
LEMMA RuleGuess ==
    ASSUME IInv, Plain(cls, guess.ip), Open(cls), cls.confidence = "UNKNOWN", NEW ip,
           NEW e \in Environment, NEW upper \in Protocol, NEW lower \in ProtocolOrUnknown,
           NEW conf \in {"NBPF", "CUSTOM_RULE"}
    PROVE  Plain(internal_giveup(ndpi_set_detected_protocol(cls, upper, lower, conf, e), e), ip)
<1> DEFINE c == ndpi_set_detected_protocol(cls, upper, lower, conf, e)
<1>1. Plain(cls, ip) /\ Good(cls) /\ conf \in Confidence
  BY Zenon DEF Plain, ByAddress, IInv, Confidence
<1>2. conf # "DPI_PARTIAL_CACHE" /\ conf \notin ByAddress
  BY Zenon DEF ByAddress
<1>3. Plain(c, ip) /\ Good(c) /\ c.state = "PARTIAL"
  BY <1>1, <1>2, PlainDetected, Zenon
<1> HIDE DEF c
<1>4. Plain(internal_giveup(c, e), ip)
  BY <1>3, PlainGiveup, Zenon
<1> QED
  BY <1>4, Zenon DEF c

\* The nBPF rules.
LEMMA NbpfGuess ==
    ASSUME IInv, GuessInv, NEW p, NbpfMatch(p)
    PROVE  GuessInv'
<1>1. PICK h \in HitSets :
         cls' = internal_giveup(
                    ndpi_set_detected_protocol(cls, NbpfProtocol, UNKNOWN, "NBPF", Env(h)), Env(h))
  BY Zenon DEF NbpfMatch
<1>2. Inspects(p) /\ NbpfProtocol # UNKNOWN /\ UNCHANGED guess
  BY Zenon DEF NbpfMatch
<1>3. Open(cls) /\ cls.upper = UNKNOWN /\ cls.state # "CLASSIFIED"
  BY <1>2, Inspected, Zenon DEF Open
<1>4. Plain(cls, guess.ip) /\ cls.confidence = "UNKNOWN"
  BY <1>3, OpenIsPlain, Zenon DEF Plain
<1>5. /\ NbpfProtocol \in Protocol /\ UNKNOWN \in ProtocolOrUnknown /\ Env(h) \in Environment
  BY <1>2, DetectionAssumption, EnvType, Zenon DEF IInv, ProtocolOrUnknown
<1>6. Plain(cls', guess.ip)
  BY <1>1, <1>3, <1>4, <1>5, RuleGuess, Zenon
<1> QED
  BY <1>2, <1>6, Zenon DEF GuessInv, GuessedOrPlain

\* The custom rules of do_guess().
LEMMA CustomGuess ==
    ASSUME IInv, GuessInv, NEW p, CustomRule(p)
    PROVE  GuessInv'
<1>1. PICK port \in PortGuess, ip \in IpGuess, user \in BOOLEAN, h \in HitSets :
         /\ PortRule(port, user) \/ ip \in CustomProtocol
         /\ do_guess(port, ip)
         /\ LET e == GuessEnv(port, ip, h)
                c == GuessClassification(port, ip, user, e)
            IN  cls' = internal_giveup(c, e)
  BY Zenon DEF CustomRule
<1> DEFINE e == GuessEnv(port, ip, h)
           c == GuessClassification(port, ip, user, e)
<1>2. Inspects(p) /\ guess' = [done |-> TRUE, port |-> port, ip |-> ip]
  BY Zenon, <1>1 DEF CustomRule, do_guess
<1>3. /\ port \in ProtocolOrUnknown /\ ip \in ProtocolOrUnknown /\ UNKNOWN \in ProtocolOrUnknown
      /\ UNKNOWN \notin CustomProtocol
  BY ConstantTypes, Zenon
<1>4. e \in Environment
  <2>1. TypeOK
    BY Zenon DEF IInv
  <2>2. l4_proto \in {"TCP", "UDP", "OTHER"}
    BY Zenon, <2>1 DEF TypeOK
  <2> QED
    BY <1>3, <2>2, ConstantTypes, Zenon DEF GuessEnv, Environment
<1>5. Open(cls) /\ cls.upper = UNKNOWN /\ cls.state # "CLASSIFIED"
  BY <1>2, Inspected, Zenon DEF Open
<1>6. Plain(cls, guess.ip) /\ cls.confidence = "UNKNOWN"
  BY <1>5, OpenIsPlain, Zenon DEF Plain
<1> HIDE DEF e
<1>7. Plain(internal_giveup(c, e), ip)
  <2>1. CASE PortRule(port, user)
    <3>1. port \in Protocol
      BY <2>1, <1>3, Zenon DEF PortRule, ProtocolOrUnknown
    <3>2. c = ndpi_set_detected_protocol(cls, port, UNKNOWN, "CUSTOM_RULE", e)
      BY <2>1, Zenon DEF GuessClassification
    <3> QED
      BY Zenon, <1>3, <1>4, <1>5, <1>6, <3>1, <3>2, RuleGuess
  <2>2. CASE ~PortRule(port, user)
    <3>1. ip \in Protocol
      BY <1>1, <2>2, <1>3, Zenon DEF ProtocolOrUnknown
    <3>2. c = ndpi_set_detected_protocol(cls, ip, port, "CUSTOM_RULE", e)
      BY <2>2, Zenon DEF GuessClassification
    <3> QED
      BY Zenon, <1>3, <1>4, <1>5, <1>6, <3>1, <3>2, RuleGuess
  <2> QED
    BY <2>1, <2>2, Zenon
<1>8. cls' = internal_giveup(c, e) /\ guess'.ip = ip
  BY Zenon, <1>1, <1>2 DEF e
<1> QED
  BY <1>7, <1>8, Zenon DEF GuessInv, GuessedOrPlain

\* A step of the dissection that may call one dissector.
LEMMA DissectionGuess ==
    ASSUME IInv, GuessInv, FastCallback \/ ScanCallback \/ SubCallback
    PROVE  GuessInv'
<1> TypeOK /\ PacketInv /\ Good(cls)
  BY Zenon DEF IInv
<1>1. /\ pc \in {"fast", "scan", "sub0", "sub1"} /\ UNCHANGED guess
      /\ pc \in {"sub0", "sub1"} => loc.subs # <<>>
  BY Zenon DEF FastCallback, ScanCallback, SubCallback
<1>2. cls.state # "CLASSIFIED" /\ cls.state # "MONITORING" /\ Open(cls)
  <2>1. Good(cls) /\ ~cls.already_gaveup
    BY <1>1, Zenon DEF PacketInv
  <2>2. cls.state # "MONITORING"
    BY <1>1, <2>1, Scanning, Zenon DEF PacketInv, Open
  <2> QED
    BY <2>1, <2>2, Cases, Zenon
<1>3. Plain(cls, guess.ip)
  BY <1>2, OpenIsPlain, Zenon
<1>4. UNCHANGED cls \/ \E d \in Dissector : Dissect(d)
  <2>1. CASE FastCallback
    <3>1. FastDissector \in Dissector \union {NULL}
      BY DetectionAssumption, Zenon DEF FastDissector, TypeOK, ProtocolOrUnknown
    <3> QED
      BY <2>1, <3>1, Zenon DEF FastCallback, Callable
  <2>2. CASE ScanCallback
    <3> DEFINE d == Buffer(loc.pkt)[loc.a]
    <3>1. d \in Dissector
      <4>1. loc.a \in 1..Len(Buffer(loc.pkt))
        BY SMTT(60), <2>2, BufferType DEF TypeOK, ScanCallback
      <4> QED
        BY SMTT(60), <4>1, BufferType
    <3>2. Dissect(d) \/ UNCHANGED cls
      BY <2>2, Zenon DEF ScanCallback
    <3> QED
      BY Zenon, <3>1, <3>2
  <2>3. CASE SubCallback
    <3> DEFINE d == DissectorOf[Head(loc.subs)]
    <3>1. Head(loc.subs) \in Protocol
      BY <2>3 DEF SubCallback, TypeOK
    <3>2. d \in Dissector \union {NULL}
      BY <3>1, DetectionAssumption, Zenon
    <3>3. (Callable(d) /\ Dissect(d)) \/ UNCHANGED cls
      BY <2>3, Zenon DEF SubCallback
    <3> QED
      BY Zenon, <3>2, <3>3 DEF Callable
  <2> QED
    BY <2>1, <2>2, <2>3, Zenon
<1>5. Plain(cls', guess.ip)
  BY <1>2, <1>3, <1>4, DissectPlain, Zenon
<1> QED
  BY <1>1, <1>5, Zenon DEF GuessInv, GuessedOrPlain

\* do_guess() looks the guesses up before anything is known of the flow.
LEMMA FirstGuess ==
    ASSUME IInv, GuessInv, NEW p, FirstInspection(p)
    PROVE  GuessInv'
<1>1. Inspects(p) /\ UNCHANGED cls
  BY Zenon DEF FirstInspection, Enter
<1>2. cls.upper = UNKNOWN /\ cls.state # "CLASSIFIED"
  BY <1>1, Inspected, Zenon
<1>3. Plain(cls, guess.ip)
  BY <1>2, OpenIsPlain, Zenon
<1>4. Plain(cls', guess'.ip)
  BY <1>1, <1>2, <1>3, Zenon DEF Plain, ByAddress
<1> QED
  BY <1>4, Zenon DEF GuessInv, GuessedOrPlain

\* Every step keeps the mark and the confidence of a guess together.
LEMMA StepGuess ==
    ASSUME IInv, GuessInv, [Next]_vars
    PROVE  GuessInv'
<1>1. CASE UNCHANGED <<cls, guess>>
  BY <1>1, Zenon DEF GuessInv
<1>2. CASE UNCHANGED guess /\ \E h \in HitSets : cls' = ndpi_internal_detection_giveup(cls, Env(h))
  BY <1>2, GivenUp, Zenon
<1>3. ASSUME NEW p \in PacketKind, RejectPacket(p) \/ NextInspection(p) PROVE GuessInv'
  BY <1>1, <1>3, Zenon DEF RejectPacket, NextInspection, Enter
<1>4. ASSUME NEW p \in PacketKind, LimitGiveup(p) PROVE GuessInv'
  BY <1>2, <1>4, Zenon DEF LimitGiveup
<1>5. CASE ScanEnd \/ SubEnd
  BY <1>1, <1>5, Zenon DEF ScanEnd, SubEnd
<1>6. CASE ndpi_detection_giveup
  BY <1>2, <1>6, Zenon DEF ndpi_detection_giveup
<1>7. CASE UNCHANGED vars
  BY <1>1, <1>7, Zenon DEF vars
<1> QED
  BY <1>3, <1>4, <1>5, <1>6, <1>7, FirstGuess, ExtraGuess, NbpfGuess, CustomGuess,
     DissectionGuess, ReturnGuess, Zenon DEF Next, PacketStep, DissectionStep

\* A verdict obtained by guessing is marked, says so in its confidence, and comes
\* from the source that guess_on_giveup and guess_ip_before_port put first.
THEOREM GuessesAreHonest == Spec => []GuessHonest
<1>1. Init => GuessInv
  <2>1. Init => cls = NewClassification
    BY Zenon DEF Init
  <2>2. \A ip : Plain(NewClassification, ip)
    BY Zenon DEF NewClassification, Plain, ByAddress
  <2> QED
    BY Zenon, <2>1, <2>2 DEF GuessInv, GuessedOrPlain
<1>2. IInv /\ GuessInv /\ [Next]_vars => GuessInv'
  BY StepGuess, Zenon
<1>3. GuessInv => GuessHonest
  BY Zenon DEF GuessInv, GuessedOrPlain, Plain, FromGuess, ByAddress, GuessHonest
<1> QED
  BY Invariant, <1>1, <1>2, <1>3, PTL DEF Spec
=============================================================================
