--------------------------- MODULE VerdictProofs ----------------------------
(***************************************************************************)
(* What is reported of the flows.  The flow table of ndpiReader, for every *)
(* number of flows, roots and packets; and the risks of a flow and their   *)
(* messages, for every set of risks, every configuration of masks and every *)
(* size of the array.                                                      *)
(***************************************************************************)
EXTENDS ReaderFlows, FlowRisks, ListProofs
-----------------------------------------------------------------------------
(* The reader: the sums over sets of flows.                                *)

\* The size of the union of two sets that have no element in common.
LEMMA DisjointUnion ==
    ASSUME NEW A, NEW B, IsFiniteSet(A), IsFiniteSet(B), A \intersect B = {}
    PROVE  Cardinality(A \union B) = Cardinality(A) + Cardinality(B)
<1>1. Cardinality(A \union B) = Cardinality(A) + Cardinality(B) - Cardinality(A \intersect B)
  BY FS_Union, Zenon
<1>2. Cardinality(A \intersect B) = 0
  BY FS_EmptySet, Zenon
<1>3. Cardinality(A) \in Nat /\ Cardinality(B) \in Nat
  BY FS_CardinalityType, Zenon
<1>4. Cardinality(A \union B) = Cardinality(A) + Cardinality(B) - 0
  BY <1>1, <1>2, Zenon
<1> QED BY <1>3, <1>4

Decided(flows) == Cardinality({f \in flows : ~UndecidedFlow(f)})

Numbered(flows) == UNION {{f} \X (1..f.packets) : f \in flows}

\* The pairs counted by Packets are as many as the packets of a flow.
LEMMA NumberedOne ==
    ASSUME NEW x, x.packets \in Nat
    PROVE  /\ IsFiniteSet({x} \X (1..x.packets))
           /\ Cardinality({x} \X (1..x.packets)) = x.packets
<1>1. IsFiniteSet({x}) /\ Cardinality({x}) = 1
  BY FS_Singleton, Zenon
<1>2. IsFiniteSet(1..x.packets) /\ Cardinality(1..x.packets) = x.packets
  BY FS_Interval
<1> DEFINE A == {x}
           B == 1..x.packets
<1> HIDE DEF A, B
<1>3. IsFiniteSet(A \X B) /\ Cardinality(A \X B) = Cardinality(A) * Cardinality(B)
  BY <1>1, <1>2, FS_Product, Zenon DEF A, B
<1> QED BY <1>1, <1>2, <1>3 DEF A, B

\* They are finitely many for finitely many flows.
LEMMA NumberedFinite ==
    ASSUME NEW S, IsFiniteSet(S), \A f \in S : f.packets \in Nat
    PROVE  IsFiniteSet(Numbered(S))
<1> DEFINE Part(f) == {f} \X (1..f.packets)
           Parts == {Part(f) : f \in S}
<1>1. IsFiniteSet(Parts)
  <2> DEFINE h == [f \in S |-> Part(f)]
  <2>1. h \in Surjection(S, Parts)
    BY Zenon DEF Surjection
  <2> HIDE DEF h, Parts
  <2> QED BY <2>1, FS_Surjection, Zenon DEF ExistsSurjection
<1>2. \A T \in Parts : IsFiniteSet(T)
  BY NumberedOne, Zenon
<1> QED BY Zenon, <1>1, <1>2, FS_UNION DEF Numbered

\* The packets and the decided flows of a table with one node more.
LEMMA AddFlow ==
    ASSUME NEW S, IsFiniteSet(S), \A f \in S : f.packets \in Nat,
           NEW x, x \notin S, x.packets \in Nat
    PROVE  /\ IsFiniteSet(S \union {x})
           /\ Packets(S) \in Nat /\ Decided(S) \in Nat
           /\ Packets(S \union {x}) = Packets(S) + x.packets
           /\ UndecidedFlow(x) => Decided(S \union {x}) = Decided(S)
           /\ ~UndecidedFlow(x) => Decided(S \union {x}) = Decided(S) + 1
<1> DEFINE A == Numbered(S)
           B == {x} \X (1..x.packets)
           D == {f \in S : ~UndecidedFlow(f)}
           E == {f \in S \union {x} : ~UndecidedFlow(f)}
<1>1. IsFiniteSet(S \union {x})
  BY FS_AddElement, Zenon
<1>2. IsFiniteSet(A) /\ IsFiniteSet(B) /\ Cardinality(B) = x.packets
  BY Zenon, NumberedFinite, NumberedOne
<1>3. A \intersect B = {}
  BY DEF Numbered
<1>4. Numbered(S \union {x}) = A \union B
  BY Zenon DEF Numbered
<1>5. Packets(S) = Cardinality(A) /\ Packets(S \union {x}) = Cardinality(A \union B)
  BY Zenon, <1>4 DEF Packets, Numbered
<1>6. IsFiniteSet(D)
  BY FS_Subset, Zenon
<1>7. UndecidedFlow(x) => E = D
  BY Zenon
<1>8. ~UndecidedFlow(x) => E = D \union {x} /\ x \notin D
  BY Zenon
<1>9. Decided(S) = Cardinality(D) /\ Decided(S \union {x}) = Cardinality(E)
  BY Zenon DEF Decided
<1> HIDE DEF A, B, D, E
<1>10. Cardinality(A) \in Nat /\ Cardinality(D) \in Nat
  BY <1>2, <1>6, FS_CardinalityType, Zenon
<1>11. Cardinality(A \union B) = Cardinality(A) + x.packets
  BY Zenon, <1>2, <1>3, DisjointUnion
<1>12. ~UndecidedFlow(x) => Cardinality(E) = Cardinality(D) + 1
  BY <1>6, <1>8, FS_AddElement, Zenon
<1> QED BY <1>1, <1>5, <1>7, <1>9, <1>10, <1>11, <1>12, Zenon

\* The packets and the decided flows of a table from which some nodes are deleted, with the
\* flows that may be guesses when they are reported.
LEMMA RemoveFlows ==
    ASSUME NEW S, IsFiniteSet(S), \A f \in S : f.packets \in Nat,
           NEW T, T \subseteq S, NEW guessed \in GuessedIn(T)
    PROVE  /\ IsFiniteSet(S \ T)
           /\ Packets(S \ T) \in Nat /\ Packets(T) \in Nat
           /\ Packets(S) = Packets(S \ T) + Packets(T)
           /\ Decided(S \ T) \in Nat /\ Decided(T) \in Nat
           /\ Decided(S) = Decided(S \ T) + Decided(T)
           /\ Cardinality(guessed) \in Nat /\ Cardinality(T) \in Nat
           /\ Cardinality(guessed) + Decided(T) <= Cardinality(T)
<1> DEFINE A == Numbered(S \ T)
           B == Numbered(T)
           D == {f \in S \ T : ~UndecidedFlow(f)}
           E == {f \in T : ~UndecidedFlow(f)}
<1>1. IsFiniteSet(S \ T) /\ IsFiniteSet(T)
  BY FS_Subset, Zenon
<1>2. IsFiniteSet(A) /\ IsFiniteSet(B)
  BY <1>1, NumberedFinite, Zenon
<1>3. A \intersect B = {}
  BY DEF Numbered
<1>4. Numbered(S) = A \union B
  BY Zenon DEF Numbered
<1>5. Packets(S \ T) = Cardinality(A) /\ Packets(T) = Cardinality(B)
      /\ Packets(S) = Cardinality(A \union B)
  BY <1>4, Zenon DEF Packets, Numbered
<1>6. IsFiniteSet(D) /\ IsFiniteSet(E)
  BY <1>1, FS_Subset, Zenon
<1>7. D \intersect E = {} /\ {f \in S : ~UndecidedFlow(f)} = D \union E
  BY Zenon
<1>8. Decided(S \ T) = Cardinality(D) /\ Decided(T) = Cardinality(E)
      /\ Decided(S) = Cardinality(D \union E)
  BY <1>7, Zenon DEF Decided
<1>9. guessed \subseteq T /\ E \subseteq T /\ guessed \intersect E = {}
  BY Zenon DEF GuessedIn
<1> HIDE DEF A, B, D, E
<1>10. Cardinality(A) \in Nat /\ Cardinality(B) \in Nat /\ Cardinality(D) \in Nat
       /\ Cardinality(E) \in Nat
  BY <1>2, <1>6, FS_CardinalityType, Zenon
<1>11. Cardinality(A \union B) = Cardinality(A) + Cardinality(B)
  BY <1>2, <1>3, DisjointUnion, Zenon
<1>12. Cardinality(D \union E) = Cardinality(D) + Cardinality(E)
  BY <1>6, <1>7, DisjointUnion, Zenon
<1>13. IsFiniteSet(guessed) /\ Cardinality(guessed) \in Nat /\ Cardinality(T) \in Nat
  BY <1>1, <1>9, FS_Subset, FS_CardinalityType, Zenon
<1>14. Cardinality(guessed \union E) = Cardinality(guessed) + Cardinality(E)
  BY <1>6, <1>9, <1>13, DisjointUnion, Zenon
<1>15. guessed \union E \subseteq T
  BY <1>9, Zenon
<1>16. Cardinality(guessed \union E) <= Cardinality(T)
  BY <1>1, <1>15, FS_Subset, Zenon
<1> QED BY <1>1, <1>5, <1>8, <1>10, <1>11, <1>12, <1>13, <1>14, <1>16, Zenon

-----------------------------------------------------------------------------
\* The table.

FlowShape(f) ==
    /\ DOMAIN f = {"key", "last_seen_ms", "packets", "detection_completed", "ndpi_flow",
                   "src2dst_pkt_count", "dst2src_pkt_count"}
    /\ f.key \in ReaderKey
    /\ f.packets \in Nat /\ f.src2dst_pkt_count \in Nat /\ f.dst2src_pkt_count \in Nat
    /\ f.detection_completed = 0 => f.ndpi_flow # "freed"

FlowOK(f) ==
    FlowShape(f) /\ f.src2dst_pkt_count + f.dst2src_pkt_count < max_num_packets_per_flow

\* The nodes are finitely many, each can be used, and a conversation has one.
Table(flows) ==
    /\ IsFiniteSet(flows)
    /\ \A f \in flows : FlowOK(f)
    /\ \A f, g \in flows : g.key \in {f.key, Reversed(f.key)} => g = f

Put(flows, h) == {g \in flows : g.key # h.key} \union {h}

\* The key of the other direction of the other direction is the key itself.
LEMMA ReversedTwice ==
    ASSUME NEW key \in ReaderKey
    PROVE  Reversed(Reversed(key)) = key
BY Zenon, ReaderAssumption DEF Reversed

\* A node takes the place of the one with its key.
LEMMA ReplaceFlow ==
    ASSUME NEW S, Table(S), NEW g \in S, NEW h, FlowOK(h), h.key = g.key
    PROVE  /\ Table(Put(S, h)) /\ h \in Put(S, h)
           /\ Packets(S) \in Nat /\ Decided(S) \in Nat
           /\ Packets(Put(S, h)) = Packets(S) - g.packets + h.packets
           /\ UndecidedFlow(g) /\ UndecidedFlow(h) => Decided(Put(S, h)) = Decided(S)
           /\ UndecidedFlow(g) /\ ~UndecidedFlow(h) => Decided(Put(S, h)) = Decided(S) + 1
           /\ ~UndecidedFlow(g) /\ ~UndecidedFlow(h) => Decided(Put(S, h)) = Decided(S)
<1> DEFINE R == {e \in S : e.key # h.key}
<1>1. S = R \union {g} /\ g \notin R /\ h \notin R /\ R \subseteq S
  BY Zenon DEF Table
<1>2. IsFiniteSet(R)
  BY FS_Subset, Zenon DEF Table
<1>3. Put(S, h) = R \union {h}
  BY Zenon DEF Put
<1>4. g.packets \in Nat /\ h.packets \in Nat /\ \A e \in R : e.packets \in Nat
  BY Zenon DEF Table, FlowOK, FlowShape
<1> HIDE DEF R
<1>5. /\ Packets(R) \in Nat /\ Decided(R) \in Nat
      /\ Packets(R \union {g}) = Packets(R) + g.packets
      /\ UndecidedFlow(g) => Decided(R \union {g}) = Decided(R)
      /\ ~UndecidedFlow(g) => Decided(R \union {g}) = Decided(R) + 1
  BY <1>1, <1>2, <1>4, AddFlow, Zenon
<1>6. /\ IsFiniteSet(R \union {h})
      /\ Packets(R \union {h}) = Packets(R) + h.packets
      /\ UndecidedFlow(h) => Decided(R \union {h}) = Decided(R)
      /\ ~UndecidedFlow(h) => Decided(R \union {h}) = Decided(R) + 1
  BY <1>1, <1>2, <1>4, AddFlow, Zenon
<1>7. Table(R \union {h})
  <2>1. \A f \in R \union {h} : FlowOK(f)
    BY <1>1, Zenon DEF Table
  <2>2. \A f, e \in R \union {h} : e.key \in {f.key, Reversed(f.key)} => e = f
    BY <1>1, Zenon DEF Table
  <2> QED BY <1>6, <2>1, <2>2, Zenon DEF Table
<1>8. /\ Packets(S) = Packets(R) + g.packets
      /\ UndecidedFlow(g) => Decided(S) = Decided(R)
      /\ ~UndecidedFlow(g) => Decided(S) = Decided(R) + 1
  BY <1>1, <1>5, Zenon
<1>9. /\ Table(Put(S, h)) /\ h \in Put(S, h)
      /\ Packets(Put(S, h)) = Packets(R) + h.packets
      /\ UndecidedFlow(h) => Decided(Put(S, h)) = Decided(R)
      /\ ~UndecidedFlow(h) => Decided(Put(S, h)) = Decided(R) + 1
  BY <1>3, <1>6, <1>7, Zenon
<1>10. Packets(R) \in Nat /\ Decided(R) \in Nat
  BY <1>5, Zenon
<1> QED BY <1>4, <1>8, <1>9, <1>10

\* A node is added for a conversation that has none.
LEMMA InsertFlow ==
    ASSUME NEW S, Table(S), NEW h, FlowOK(h),
           ndpi_tfind(S, h.key) = {}, ndpi_tfind(S, Reversed(h.key)) = {}
    PROVE  /\ Table(Put(S, h)) /\ h \in Put(S, h)
           /\ Packets(S) \in Nat /\ Decided(S) \in Nat
           /\ Packets(Put(S, h)) = Packets(S) + h.packets
           /\ UndecidedFlow(h) => Decided(Put(S, h)) = Decided(S)
           /\ ~UndecidedFlow(h) => Decided(Put(S, h)) = Decided(S) + 1
<1>1. Put(S, h) = S \union {h} /\ h \notin S
  BY Zenon DEF Put, ndpi_tfind
<1>2. h.packets \in Nat /\ \A e \in S : e.packets \in Nat
  BY Zenon DEF Table, FlowOK, FlowShape
<1>3. \A e \in S : h.key # e.key /\ h.key # Reversed(e.key) /\ e.key # Reversed(h.key)
  <2>1. ASSUME NEW e \in S, h.key = Reversed(e.key) PROVE FALSE
    <3>1. e.key \in ReaderKey
      BY Zenon DEF Table, FlowOK, FlowShape
    <3>2. Reversed(h.key) = e.key
      BY <2>1, <3>1, ReversedTwice, Zenon
    <3> QED BY <3>2, Zenon DEF ndpi_tfind
  <2> QED BY <2>1, Zenon DEF ndpi_tfind
<1>4. /\ IsFiniteSet(S \union {h})
      /\ Packets(S) \in Nat /\ Decided(S) \in Nat
      /\ Packets(S \union {h}) = Packets(S) + h.packets
      /\ UndecidedFlow(h) => Decided(S \union {h}) = Decided(S)
      /\ ~UndecidedFlow(h) => Decided(S \union {h}) = Decided(S) + 1
  BY <1>1, <1>2, AddFlow, Zenon DEF Table
<1>5. Table(S \union {h})
  <2>1. \A f \in S \union {h} : FlowOK(f)
    BY Zenon DEF Table
  <2>2. \A f, e \in S \union {h} : e.key \in {f.key, Reversed(f.key)} => e = f
    BY <1>3, Zenon DEF Table
  <2> QED BY <1>4, <2>1, <2>2, Zenon DEF Table
<1> QED BY <1>1, <1>4, <1>5, Zenon

-----------------------------------------------------------------------------
\* The workflow.

StatsShape(s) ==
    /\ DOMAIN s = {"raw_packet_count", "ip_packet_count", "ndpi_flow_count", "protocol_counter",
                   "protocol_flows", "guessed_flow_protocols"}
    /\ s.raw_packet_count \in Nat /\ s.ip_packet_count \in Nat /\ s.ndpi_flow_count \in Nat
    /\ s.protocol_counter \in Nat /\ s.protocol_flows \in Nat
    /\ s.guessed_flow_protocols \in Nat

Shape(w) ==
    /\ DOMAIN w = {"options", "pc", "flows", "handed", "last_time", "last_idle_scan_time",
                   "idle_scan_idx", "pcap_start", "pcap_end", "stats", "cumulative_stats", "seen"}
    /\ StatsShape(w.stats) /\ StatsShape(w.cumulative_stats)
    /\ w.last_time \in Nat

\* A flow that was decided may have been counted as a guess; one that was not has not.
Books(w) ==
    /\ w.stats.ip_packet_count = w.stats.protocol_counter + Packets(w.flows)
    /\ w.stats.guessed_flow_protocols <= w.stats.protocol_flows + Decided(w.flows)
    /\ w.cumulative_stats.ip_packet_count = w.cumulative_stats.protocol_counter
    /\ w.cumulative_stats.guessed_flow_protocols <= w.cumulative_stats.protocol_flows

\* The flow of the packet was seen just now, so that no scan takes it for idle.
HandedFlow(w) ==
    w.handed # NoFlow =>
        /\ w.pc # "wait"
        /\ \E f \in w.flows : f.key = w.handed /\ f.last_seen_ms = w.last_time

\* The inductive invariant.
ReaderInv(w) == Shape(w) /\ Table(w.flows) /\ Books(w) /\ HandedFlow(w)

\* Nothing of w that the books depend on is different in u.
SameBooks(w, u) ==
    /\ Shape(u) /\ u.flows = w.flows /\ u.cumulative_stats = w.cumulative_stats
    /\ u.stats.ip_packet_count = w.stats.ip_packet_count
    /\ u.stats.protocol_counter = w.stats.protocol_counter
    /\ u.stats.protocol_flows = w.stats.protocol_flows
    /\ u.stats.guessed_flow_protocols = w.stats.guessed_flow_protocols

\* A packet that is only received changes nothing in the books.
LEMMA ArriveKeeps ==
    ASSUME NEW w, Shape(w), NEW time \in 1..ReaderMaxTime, NEW u, u = Arrive(w, time)
    PROVE  SameBooks(w, u) /\ u.handed = NoFlow /\ u.pc = "processed"
<1>1. PacketTime(w, time) \in Nat
  BY ReaderAssumption DEF PacketTime, Shape
<1> QED BY <1>1 DEF Arrive, SameBooks, Shape, StatsShape

\* The flow found or made for a packet, before the packet is counted in it.
FlowDraft(f) ==
    FlowShape(f) /\ f.src2dst_pkt_count + f.dst2src_pkt_count <= max_num_packets_per_flow

SameVerdict(g, f) ==
    /\ f.key = g.key /\ f.packets = g.packets
    /\ f.detection_completed = g.detection_completed /\ f.ndpi_flow = g.ndpi_flow

Kept(S, f) == \E g \in S : SameVerdict(g, f)

Fresh(S, f) ==
    /\ ndpi_tfind(S, f.key) = {} /\ ndpi_tfind(S, Reversed(f.key)) = {}
    /\ f.packets = 0 /\ f.detection_completed = 0 /\ f.ndpi_flow = "INSPECTING"

\* The arrays of the packet's direction have room for one packet.
LEMMA EntropyKeeps ==
    ASSUME NEW f, FlowOK(f), NEW forward \in BOOLEAN, NEW e, e = CountEntropy(f, forward)
    PROVE  FlowDraft(e) /\ SameVerdict(f, e)
<1>1. CASE forward
  BY <1>1, ReaderAssumption DEF CountEntropy, FlowOK, FlowShape, FlowDraft, SameVerdict
<1>2. CASE ~forward
  BY <1>2, ReaderAssumption DEF CountEntropy, FlowOK, FlowShape, FlowDraft, SameVerdict
<1> QED BY <1>1, <1>2, Zenon

\* get_ndpi_flow_info() returns a node of the table, or one that no node is in conflict with.
LEMMA FlowOfPacket ==
    ASSUME NEW w, Shape(w), Table(w.flows), NEW key \in ReaderKey, NEW failed, NEW r,
           r = get_ndpi_flow_info(w, key, failed)
    PROVE  /\ SameBooks(w, r.w) /\ r.w.handed = w.handed /\ r.w.pc = w.pc
           /\ r.flow # NoFlow =>
                FlowDraft(r.flow) /\ (Kept(w.flows, r.flow) \/ Fresh(w.flows, r.flow))
<1> DEFINE back == ndpi_tfind(w.flows, key) = {}
           found == IF back THEN ndpi_tfind(w.flows, Reversed(key)) ELSE ndpi_tfind(w.flows, key)
           with == w.options.enable_flow_stats
           chosen == CHOOSE f \in found : TRUE
           new == NewReaderFlow(key)
           counted == [w EXCEPT !.stats.ndpi_flow_count = @ + 1]
<1>1. SameBooks(w, w) /\ SameBooks(w, counted) /\ counted.handed = w.handed
      /\ counted.pc = w.pc
  BY DEF SameBooks, Shape, StatsShape
<1>2. FlowOK(new) /\ new.key = key /\ new.packets = 0 /\ new.detection_completed = 0
      /\ new.ndpi_flow = "INSPECTING"
  BY ReaderAssumption DEF NewReaderFlow, FlowOK, FlowShape
<1>3. ASSUME NEW f, FlowOK(f), NEW forward \in BOOLEAN, NEW e,
             e = IF with THEN CountEntropy(f, forward) ELSE f
      PROVE  FlowDraft(e) /\ SameVerdict(f, e)
  <2>1. CASE with
    BY <1>3, <2>1, EntropyKeeps, Zenon
  <2>2. CASE ~with
    BY <1>3, <2>2, ReaderAssumption DEF FlowOK, FlowShape, FlowDraft, SameVerdict
  <2> QED BY <2>1, <2>2, Zenon
<1>4. found # {} => chosen \in w.flows /\ FlowOK(chosen)
  <2>1. found # {} => chosen \in found
    BY Zenon
  <2>2. found \subseteq w.flows
    BY Zenon DEF ndpi_tfind
  <2> QED BY <2>1, <2>2, Zenon DEF Table
<1>5. \/ found # {} /\ r.w = w
         /\ r.flow = (IF with THEN CountEntropy(chosen, ~back) ELSE chosen)
      \/ r.w \in {w, counted} /\ r.flow = NoFlow
      \/ found = {} /\ r.w = counted
         /\ r.flow = (IF with THEN CountEntropy(new, TRUE) ELSE new)
  BY Zenon DEF get_ndpi_flow_info
<1> HIDE DEF with, chosen, new, counted
<1>6. CASE found # {} /\ r.w = w
           /\ r.flow = (IF with THEN CountEntropy(chosen, ~back) ELSE chosen)
  <2>1. FlowDraft(r.flow) /\ SameVerdict(chosen, r.flow)
    BY Zenon, <1>3, <1>4, <1>6
  <2> QED BY <1>1, <1>4, <1>6, <2>1, Zenon DEF Kept
<1>7. CASE r.w \in {w, counted} /\ r.flow = NoFlow
  BY <1>1, <1>7, Zenon
<1>8. CASE found = {} /\ r.w = counted
           /\ r.flow = (IF with THEN CountEntropy(new, TRUE) ELSE new)
  <2>1. FlowDraft(r.flow) /\ SameVerdict(new, r.flow)
    BY Zenon, <1>2, <1>3, <1>8
  <2>2. ndpi_tfind(w.flows, key) = {} /\ ndpi_tfind(w.flows, Reversed(key)) = {}
    BY <1>8, Zenon
  <2>3. Fresh(w.flows, r.flow)
    BY <1>2, <2>1, <2>2, Zenon DEF Fresh, SameVerdict
  <2> QED BY Zenon, <1>1, <1>8, <2>1, <2>3
<1> QED BY Zenon, <1>5, <1>6, <1>7, <1>8

\* The packet is counted in its flow, and full arrays are cleared.
LEMMA CountKeeps ==
    ASSUME NEW f, FlowDraft(f), NEW time, NEW g,
           g = ndpi_clear_entropy_stats(CountReaderPacket(f, time))
    PROVE  /\ FlowOK(g) /\ g.key = f.key /\ g.packets = f.packets + 1 /\ g.last_seen_ms = time
           /\ g.detection_completed = f.detection_completed /\ g.ndpi_flow = f.ndpi_flow
<1> DEFINE e == CountReaderPacket(f, time)
<1>1. /\ FlowDraft(e) /\ e.key = f.key /\ e.packets = f.packets + 1 /\ e.last_seen_ms = time
      /\ e.detection_completed = f.detection_completed /\ e.ndpi_flow = f.ndpi_flow
  BY DEF CountReaderPacket, FlowDraft, FlowShape
<1>2. g = ndpi_clear_entropy_stats(e)
  BY Zenon
<1> HIDE DEF e
<1>3. CASE e.src2dst_pkt_count + e.dst2src_pkt_count = max_num_packets_per_flow
  <2>1. g = [e EXCEPT !.src2dst_pkt_count = 0, !.dst2src_pkt_count = 0]
    BY <1>2, <1>3, Zenon DEF ndpi_clear_entropy_stats
  <2>2. FlowShape(e)
    BY <1>1, Zenon DEF FlowDraft
  <2>3. /\ FlowShape(g) /\ g.src2dst_pkt_count = 0 /\ g.dst2src_pkt_count = 0
        /\ g.key = e.key /\ g.packets = e.packets /\ g.last_seen_ms = e.last_seen_ms
        /\ g.detection_completed = e.detection_completed /\ g.ndpi_flow = e.ndpi_flow
    BY <2>1, <2>2 DEF FlowShape
  <2>4. FlowOK(g)
    BY <2>3, ReaderAssumption DEF FlowOK
  <2> QED BY <1>1, <2>3, <2>4, Zenon
<1>4. CASE e.src2dst_pkt_count + e.dst2src_pkt_count # max_num_packets_per_flow
  <2>1. g = e
    BY <1>2, <1>4, Zenon DEF ndpi_clear_entropy_stats
  <2>2. FlowOK(e)
    BY <1>1, <1>4, ReaderAssumption DEF FlowDraft, FlowShape, FlowOK
  <2> QED BY <1>1, <2>1, <2>2, Zenon
<1> QED BY <1>3, <1>4, Zenon

\* The verdict of the library: a flow is counted as a guess only when it becomes decided.
LEMMA InspectKeeps ==
    ASSUME NEW w, Shape(w), NEW g, FlowOK(g), g.detection_completed = 0,
           NEW answer \in LibraryAnswers(g.ndpi_flow), NEW guessed \in BOOLEAN,
           NEW exported \in BOOLEAN, NEW r, r = Inspect(w, g, answer, guessed, exported)
    PROVE  /\ FlowOK(r.flow) /\ r.flow.key = g.key /\ r.flow.packets = g.packets
           /\ r.flow.last_seen_ms = g.last_seen_ms
           /\ Shape(r.w) /\ r.w.flows = w.flows /\ r.w.cumulative_stats = w.cumulative_stats
           /\ r.w.last_time = w.last_time /\ r.w.pc = w.pc
           /\ r.w.stats.ip_packet_count = w.stats.ip_packet_count
           /\ r.w.stats.protocol_counter = w.stats.protocol_counter
           /\ r.w.stats.protocol_flows = w.stats.protocol_flows
           /\ \/ r.w.stats.guessed_flow_protocols = w.stats.guessed_flow_protocols
              \/ /\ r.w.stats.guessed_flow_protocols = w.stats.guessed_flow_protocols + 1
                 /\ ~UndecidedFlow(r.flow)
<1> DEFINE enough == /\ g.key.proto \in {IPPROTO_TCP, IPPROTO_UDP} /\ max_num_dissected_pkts > 0
                     /\ g.packets >= max_num_dissected_pkts
           given == IF answer = "INSPECTING" THEN "CLASSIFIED" ELSE answer
           e == [g EXCEPT !.ndpi_flow = given, !.detection_completed = 1]
           done == process_ndpi_collected_info(e, exported)
           one == IF guessed THEN 1 ELSE 0
<1>1. answer # "freed"
  BY Zenon DEF LibraryAnswers, FlowOK, FlowShape
<1>2. /\ FlowOK(e) /\ e.key = g.key /\ e.packets = g.packets /\ e.last_seen_ms = g.last_seen_ms
      /\ e.detection_completed = 1
  BY DEF FlowOK, FlowShape
<1>3. \/ /\ r.w = [w EXCEPT !.stats.guessed_flow_protocols = @ + one]
         /\ r.flow = done
      \/ r.w = w /\ r.flow = [g EXCEPT !.ndpi_flow = answer]
  BY Zenon DEF Inspect
<1> HIDE DEF e
<1>4. /\ FlowOK(done) /\ done.key = g.key /\ done.packets = g.packets
      /\ done.last_seen_ms = g.last_seen_ms /\ ~UndecidedFlow(done)
  BY <1>2 DEF process_ndpi_collected_info, ndpi_free_flow_info_half, FlowOK, FlowShape,
              UndecidedFlow
<1>5. one \in {0, 1}
  BY Zenon
<1> HIDE DEF done, one
<1>6. CASE /\ r.w = [w EXCEPT !.stats.guessed_flow_protocols = @ + one]
           /\ r.flow = done
  <2>1. /\ Shape(r.w) /\ r.w.flows = w.flows /\ r.w.cumulative_stats = w.cumulative_stats
        /\ r.w.last_time = w.last_time /\ r.w.pc = w.pc
        /\ r.w.stats.ip_packet_count = w.stats.ip_packet_count
        /\ r.w.stats.protocol_counter = w.stats.protocol_counter
        /\ r.w.stats.protocol_flows = w.stats.protocol_flows
        /\ r.w.stats.guessed_flow_protocols = w.stats.guessed_flow_protocols + one
    BY <1>5, <1>6 DEF Shape, StatsShape
  <2>2. w.stats.guessed_flow_protocols \in Nat
    BY Zenon DEF Shape, StatsShape
  <2> QED BY <1>4, <1>5, <1>6, <2>1, <2>2
<1>7. CASE r.w = w /\ r.flow = [g EXCEPT !.ndpi_flow = answer]
  BY <1>1, <1>7, Zenon DEF FlowOK, FlowShape
<1> QED BY <1>3, <1>6, <1>7, Zenon

\* The sums over a table are numbers.
LEMMA TableSums ==
    ASSUME NEW S, Table(S)
    PROVE  Packets(S) \in Nat /\ Decided(S) \in Nat
<1>1. IsFiniteSet(S) /\ \A f \in S : f.packets \in Nat
  BY Zenon DEF Table, FlowOK, FlowShape
<1>2. IsFiniteSet(Numbered(S)) /\ IsFiniteSet({f \in S : ~UndecidedFlow(f)})
  BY <1>1, NumberedFinite, FS_Subset, Zenon
<1> QED BY <1>2, FS_CardinalityType, Zenon DEF Packets, Decided, Numbered

\* The flow goes back into the table; "one" is what it added to the guesses.
LEMMA StoreKeeps ==
    ASSUME NEW w, Shape(w), Table(w.flows), NEW f, Kept(w.flows, f) \/ Fresh(w.flows, f),
           NEW h, FlowOK(h), h.key = f.key, h.packets = f.packets + 1,
           h.last_seen_ms = w.last_time, NEW one \in {0, 1},
           one = 1 => UndecidedFlow(f) /\ ~UndecidedFlow(h),
           ~UndecidedFlow(f) => ~UndecidedFlow(h),
           w.stats.ip_packet_count = w.stats.protocol_counter + Packets(w.flows) + 1,
           w.stats.guessed_flow_protocols <= w.stats.protocol_flows + Decided(w.flows) + one,
           w.cumulative_stats.ip_packet_count = w.cumulative_stats.protocol_counter,
           w.cumulative_stats.guessed_flow_protocols <= w.cumulative_stats.protocol_flows,
           w.pc = "processed", NEW u, u = Store(w, h)
    PROVE  ReaderInv(u)
<1> DEFINE S == w.flows
           P == Put(S, h)
<1>1. /\ Shape(u) /\ u.flows = P /\ u.handed = h.key /\ u.last_time = w.last_time
      /\ u.pc = w.pc
      /\ u.stats = w.stats /\ u.cumulative_stats = w.cumulative_stats
  BY Zenon DEF Store, Put, Shape
<1>2. /\ Table(P) /\ h \in P /\ Packets(S) \in Nat /\ Decided(S) \in Nat
      /\ Packets(P) = Packets(S) + 1
      /\ Decided(P) \in Nat /\ Decided(P) >= Decided(S) + one
  <2>1. CASE Kept(S, f)
    <3>1. PICK g \in S : SameVerdict(g, f)
      BY <2>1, Zenon DEF Kept
    <3>2. g.packets \in Nat /\ h.packets = g.packets + 1 /\ h.key = g.key
      BY <3>1, Zenon DEF SameVerdict, Table, FlowOK, FlowShape
    <3>3. UndecidedFlow(g) <=> UndecidedFlow(f)
      BY <3>1, Zenon DEF SameVerdict, UndecidedFlow
    <3> HIDE DEF S
    <3>4. /\ Table(P) /\ h \in P /\ Packets(S) \in Nat /\ Decided(S) \in Nat
          /\ Packets(P) = Packets(S) - g.packets + h.packets
          /\ UndecidedFlow(g) /\ UndecidedFlow(h) => Decided(P) = Decided(S)
          /\ UndecidedFlow(g) /\ ~UndecidedFlow(h) => Decided(P) = Decided(S) + 1
          /\ ~UndecidedFlow(g) /\ ~UndecidedFlow(h) => Decided(P) = Decided(S)
      BY <3>2, ReplaceFlow, Zenon DEF S
    <3> HIDE DEF P
    <3> QED BY <3>2, <3>3, <3>4
  <2>2. CASE Fresh(S, f)
    <3>1. h.packets = 1 /\ UndecidedFlow(f) /\ ndpi_tfind(S, h.key) = {}
          /\ ndpi_tfind(S, Reversed(h.key)) = {}
      BY <2>2 DEF Fresh, UndecidedFlow
    <3> HIDE DEF S
    <3>2. /\ Table(P) /\ h \in P /\ Packets(S) \in Nat /\ Decided(S) \in Nat
          /\ Packets(P) = Packets(S) + h.packets
          /\ UndecidedFlow(h) => Decided(P) = Decided(S)
          /\ ~UndecidedFlow(h) => Decided(P) = Decided(S) + 1
      BY <3>1, InsertFlow, Zenon DEF S
    <3> HIDE DEF P
    <3> QED BY <3>1, <3>2
  <2> QED BY <2>1, <2>2, Zenon
<1> HIDE DEF S, P
<1>3. StatsShape(w.stats)
  BY Zenon DEF Shape
<1>4. Books(u)
  BY <1>1, <1>2, <1>3 DEF Books, StatsShape, S
<1>5. HandedFlow(u)
  BY <1>1, <1>2, Zenon DEF HandedFlow
<1> QED BY <1>1, <1>2, <1>4, <1>5, Zenon DEF ReaderInv

\* A packet whose flow is known.
LEMMA ProcessKeeps ==
    ASSUME NEW w, Shape(w), Table(w.flows), Books(w), w.pc = "processed",
           NEW f, f # NoFlow, FlowDraft(f), Kept(w.flows, f) \/ Fresh(w.flows, f),
           NEW a \in Answers(f), NEW exported \in BOOLEAN,
           NEW u, u = Process(w, f, a[1], a[2], exported)
    PROVE  ReaderInv(u)
<1> DEFINE counted == [w EXCEPT !.stats.ip_packet_count = @ + 1]
           g == ndpi_clear_entropy_stats(CountReaderPacket(f, w.last_time))
           r == Inspect(counted, g, a[1], a[2], exported)
<1>1. /\ Shape(counted) /\ counted.flows = w.flows /\ counted.last_time = w.last_time
      /\ counted.pc = w.pc
      /\ counted.cumulative_stats = w.cumulative_stats
      /\ counted.stats.ip_packet_count = w.stats.ip_packet_count + 1
      /\ counted.stats.protocol_counter = w.stats.protocol_counter
      /\ counted.stats.protocol_flows = w.stats.protocol_flows
      /\ counted.stats.guessed_flow_protocols = w.stats.guessed_flow_protocols
  BY DEF Shape, StatsShape
<1>2. /\ FlowOK(g) /\ g.key = f.key /\ g.packets = f.packets + 1
      /\ g.last_seen_ms = w.last_time
      /\ g.detection_completed = f.detection_completed /\ g.ndpi_flow = f.ndpi_flow
  BY CountKeeps
<1>3. UndecidedFlow(f) <=> f.detection_completed = 0
  BY Zenon DEF UndecidedFlow, FlowDraft, FlowShape
<1>4. UndecidedFlow(g) <=> UndecidedFlow(f)
  BY <1>2, Zenon DEF UndecidedFlow
<1>5. IF f.detection_completed # 0 THEN u = Store(counted, g) ELSE u = Store(r.w, r.flow)
  BY Zenon DEF Process
<1>6. StatsShape(w.stats) /\ Packets(w.flows) \in Nat /\ Decided(w.flows) \in Nat
  BY TableSums, Zenon DEF Shape
<1> HIDE DEF counted, g
<1>7. CASE f.detection_completed # 0
  <2>1. /\ counted.stats.ip_packet_count
             = counted.stats.protocol_counter + Packets(counted.flows) + 1
        /\ counted.stats.guessed_flow_protocols
             <= counted.stats.protocol_flows + Decided(counted.flows) + 0
    BY <1>1, <1>6 DEF Books, StatsShape
  <2>2. /\ counted.cumulative_stats.ip_packet_count = counted.cumulative_stats.protocol_counter
        /\ counted.cumulative_stats.guessed_flow_protocols
             <= counted.cumulative_stats.protocol_flows
    BY Zenon, <1>1 DEF Books
  <2>3. u = Store(counted, g) /\ Table(counted.flows) /\ counted.pc = "processed"
        /\ (Kept(counted.flows, f) \/ Fresh(counted.flows, f))
        /\ g.last_seen_ms = counted.last_time
    BY Zenon, <1>1, <1>2, <1>5, <1>7
  <2>4. 0 \in {0, 1} /\ (0 = 1 => UndecidedFlow(f) /\ ~UndecidedFlow(g))
    OBVIOUS
  <2> QED
    BY Zenon, <1>1, <1>2, <1>4, <2>1, <2>2, <2>3, <2>4, StoreKeeps
<1>8. CASE f.detection_completed = 0
  <2>1. a[1] \in LibraryAnswers(g.ndpi_flow) /\ a[2] \in BOOLEAN
    BY <1>2, <1>8, Zenon DEF Answers
  <2>r. r = Inspect(counted, g, a[1], a[2], exported)
    BY Zenon
  <2>s. IF f.detection_completed # 0 THEN u = Store(counted, g) ELSE u = Store(r.w, r.flow)
    BY Zenon, <1>5
  <2> HIDE DEF r
  <2>i. /\ FlowOK(r.flow) /\ r.flow.key = g.key /\ r.flow.packets = g.packets
        /\ r.flow.last_seen_ms = g.last_seen_ms
        /\ Shape(r.w) /\ r.w.flows = counted.flows
        /\ r.w.cumulative_stats = counted.cumulative_stats
        /\ r.w.last_time = counted.last_time /\ r.w.pc = counted.pc
        /\ r.w.stats.ip_packet_count = counted.stats.ip_packet_count
        /\ r.w.stats.protocol_counter = counted.stats.protocol_counter
        /\ r.w.stats.protocol_flows = counted.stats.protocol_flows
        /\ \/ r.w.stats.guessed_flow_protocols = counted.stats.guessed_flow_protocols
           \/ /\ r.w.stats.guessed_flow_protocols = counted.stats.guessed_flow_protocols + 1
              /\ ~UndecidedFlow(r.flow)
    <3>1. Shape(counted) /\ FlowOK(g) /\ g.detection_completed = 0
      BY Zenon, <1>1, <1>2, <1>8
    <3> QED
      BY SMTT(30), <2>1, <2>r, <3>1, InspectKeeps
  <2>2. /\ FlowOK(r.flow) /\ r.flow.key = g.key /\ r.flow.packets = g.packets
        /\ r.flow.last_seen_ms = g.last_seen_ms
        /\ Shape(r.w) /\ r.w.flows = w.flows /\ r.w.cumulative_stats = w.cumulative_stats
        /\ r.w.last_time = w.last_time /\ r.w.pc = w.pc
        /\ r.w.stats.ip_packet_count = w.stats.ip_packet_count + 1
        /\ r.w.stats.protocol_counter = w.stats.protocol_counter
        /\ r.w.stats.protocol_flows = w.stats.protocol_flows
        /\ \/ r.w.stats.guessed_flow_protocols = w.stats.guessed_flow_protocols
           \/ /\ r.w.stats.guessed_flow_protocols = w.stats.guessed_flow_protocols + 1
              /\ ~UndecidedFlow(r.flow)
    BY Zenon, <1>1, <2>i
  <2> DEFINE x == r.w
             h == r.flow
  <2>3. PICK one \in {0, 1} :
          /\ x.stats.guessed_flow_protocols = w.stats.guessed_flow_protocols + one
          /\ one = 1 => ~UndecidedFlow(h)
    <3>1. CASE x.stats.guessed_flow_protocols = w.stats.guessed_flow_protocols
      <4>1. x.stats.guessed_flow_protocols = w.stats.guessed_flow_protocols + 0
        <5>1. w.stats.guessed_flow_protocols \in Nat
          BY Zenon, <1>6 DEF StatsShape
        <5> QED
          BY <3>1, <5>1
      <4> QED BY <4>1
    <3> QED BY <2>2, <3>1, Zenon
  <2>4. u = Store(x, h)
    BY Zenon, <2>s, <1>8
  <2> HIDE DEF x, h
  <2>5. UndecidedFlow(f) /\ h.key = f.key /\ h.packets = f.packets + 1
        /\ h.last_seen_ms = x.last_time
    BY <1>2, <1>3, <1>8, <2>2, Zenon DEF x, h
  <2>6. /\ x.stats.ip_packet_count = x.stats.protocol_counter + Packets(x.flows) + 1
        /\ x.stats.guessed_flow_protocols <= x.stats.protocol_flows + Decided(x.flows) + one
        /\ x.cumulative_stats.ip_packet_count = x.cumulative_stats.protocol_counter
        /\ x.cumulative_stats.guessed_flow_protocols <= x.cumulative_stats.protocol_flows
    BY <1>6, <2>2, <2>3 DEF Books, StatsShape, x
  <2>7. x.pc = "processed" /\ Shape(x) /\ Table(x.flows) /\ FlowOK(h) /\ (Kept(x.flows, f) \/ Fresh(x.flows, f))
    BY <2>2, Zenon DEF x, h
  <2> QED BY <2>3, <2>4, <2>5, <2>6, <2>7, StoreKeeps, Zenon
<1> QED BY <1>7, <1>8, Zenon

\* The empty table.
LEMMA EmptyTable == Table({}) /\ Packets({}) = 0 /\ Decided({}) = 0
<1>1. Numbered({}) = {} /\ {f \in {} : ~UndecidedFlow(f)} = {}
  BY Zenon DEF Numbered
<1>2. Packets({}) = 0 /\ Decided({}) = 0
  BY <1>1, FS_EmptySet, Zenon DEF Packets, Decided, Numbered
<1>3. Table({})
  BY FS_EmptySet, Zenon DEF Table
<1> QED BY <1>2, <1>3, Zenon

\* The walk over some nodes of the table counts their packets, the nodes and the guesses.
LEMMA WalkCounts ==
    ASSUME NEW w, Shape(w), Table(w.flows), NEW T, T \subseteq w.flows,
           NEW guessed \in GuessedIn(T), NEW u, u = node_proto_guess_walker(w, T, guessed)
    PROVE  /\ Shape(u) /\ u.flows = w.flows /\ u.cumulative_stats = w.cumulative_stats
           /\ u.handed = w.handed /\ u.last_time = w.last_time
           /\ u.stats.ip_packet_count = w.stats.ip_packet_count
           /\ u.stats.protocol_counter = w.stats.protocol_counter + Packets(T)
           /\ u.stats.protocol_flows = w.stats.protocol_flows + Cardinality(T)
           /\ u.stats.guessed_flow_protocols
                = w.stats.guessed_flow_protocols + Cardinality(guessed)
<1> DEFINE G == Cardinality(guessed)
           P == Packets(T)
           N == Cardinality(T)
<1>1. IsFiniteSet(w.flows) /\ \A f \in w.flows : f.packets \in Nat
  BY Zenon DEF Table, FlowOK, FlowShape
<1>2. G \in Nat /\ P \in Nat /\ N \in Nat
  BY Zenon, <1>1, RemoveFlows
<1> DEFINE a == [w EXCEPT !.stats.guessed_flow_protocols = @ + G]
           b == [a EXCEPT !.stats.protocol_counter = @ + P]
           c == [b EXCEPT !.stats.protocol_flows = @ + N]
<1>3. u = c
  BY Zenon DEF node_proto_guess_walker, Shape, StatsShape
<1> HIDE DEF G, P, N
<1>4. /\ Shape(a) /\ a.flows = w.flows /\ a.cumulative_stats = w.cumulative_stats
      /\ a.handed = w.handed /\ a.last_time = w.last_time
      /\ a.stats.ip_packet_count = w.stats.ip_packet_count
      /\ a.stats.protocol_counter = w.stats.protocol_counter
      /\ a.stats.protocol_flows = w.stats.protocol_flows
      /\ a.stats.guessed_flow_protocols = w.stats.guessed_flow_protocols + G
  BY <1>2 DEF Shape, StatsShape
<1> HIDE DEF a
<1>5. /\ Shape(b) /\ b.flows = w.flows /\ b.cumulative_stats = w.cumulative_stats
      /\ b.handed = w.handed /\ b.last_time = w.last_time
      /\ b.stats.ip_packet_count = w.stats.ip_packet_count
      /\ b.stats.protocol_counter = w.stats.protocol_counter + P
      /\ b.stats.protocol_flows = w.stats.protocol_flows
      /\ b.stats.guessed_flow_protocols = w.stats.guessed_flow_protocols + G
  BY <1>2, <1>4 DEF Shape, StatsShape
<1> HIDE DEF b
<1>6. /\ Shape(c) /\ c.flows = w.flows /\ c.cumulative_stats = w.cumulative_stats
      /\ c.handed = w.handed /\ c.last_time = w.last_time
      /\ c.stats.ip_packet_count = w.stats.ip_packet_count
      /\ c.stats.protocol_counter = w.stats.protocol_counter + P
      /\ c.stats.protocol_flows = w.stats.protocol_flows + N
      /\ c.stats.guessed_flow_protocols = w.stats.guessed_flow_protocols + G
  BY <1>2, <1>5 DEF Shape, StatsShape
<1> HIDE DEF c
<1> QED BY <1>3, <1>6, Zenon DEF G, P, N

\* The idle flows are reported and deleted; the flow of the packet is none of them.
LEMMA ScanKeeps ==
    ASSUME NEW w, ReaderInv(w), NEW T \in TakenByScan(w), NEW guessed \in GuessedIn(T),
           NEW pc, pc # "wait", NEW idx, NEW scanned, NEW u,
           u = [node_idle_scan_walker(w, T, guessed) EXCEPT
                  !.pc = pc, !.idle_scan_idx = idx, !.last_idle_scan_time = scanned]
    PROVE  ReaderInv(u)
<1> DEFINE v == node_proto_guess_walker(w, T, guessed)
           x == [v EXCEPT !.flows = @ \ T]
<1>1. Shape(w) /\ Table(w.flows) /\ Books(w) /\ HandedFlow(w)
  BY Zenon DEF ReaderInv
<1>2. T \subseteq IdleFlows(w)
  BY Zenon DEF TakenByScan
<1>3. T \subseteq w.flows
  BY <1>2, Zenon DEF IdleFlows
<1>4. /\ Shape(v) /\ v.flows = w.flows /\ v.cumulative_stats = w.cumulative_stats
      /\ v.handed = w.handed /\ v.last_time = w.last_time
      /\ v.stats.ip_packet_count = w.stats.ip_packet_count
      /\ v.stats.protocol_counter = w.stats.protocol_counter + Packets(T)
      /\ v.stats.protocol_flows = w.stats.protocol_flows + Cardinality(T)
      /\ v.stats.guessed_flow_protocols = w.stats.guessed_flow_protocols + Cardinality(guessed)
  BY <1>1, <1>3, WalkCounts
<1>5. u = [x EXCEPT !.pc = pc, !.idle_scan_idx = idx, !.last_idle_scan_time = scanned]
  BY Zenon DEF node_idle_scan_walker
<1> HIDE DEF v
<1>6. /\ Shape(x) /\ x.flows = w.flows \ T /\ x.cumulative_stats = w.cumulative_stats
      /\ x.handed = w.handed /\ x.last_time = w.last_time /\ x.stats = v.stats
  BY <1>4, Zenon DEF Shape
<1> HIDE DEF x
<1>7. /\ Shape(u) /\ u.flows = w.flows \ T /\ u.cumulative_stats = w.cumulative_stats
      /\ u.handed = w.handed /\ u.last_time = w.last_time /\ u.stats = v.stats
      /\ u.pc = pc
  BY Zenon, <1>5, <1>6 DEF Shape
<1> DEFINE S == w.flows
           R == S \ T
<1>8. IsFiniteSet(S) /\ \A f \in S : f.packets \in Nat
  BY <1>1, Zenon DEF Table, FlowOK, FlowShape
<1>9. /\ IsFiniteSet(R)
      /\ Packets(R) \in Nat /\ Packets(T) \in Nat
      /\ Packets(S) = Packets(R) + Packets(T)
      /\ Decided(R) \in Nat /\ Decided(T) \in Nat
      /\ Decided(S) = Decided(R) + Decided(T)
      /\ Cardinality(guessed) \in Nat /\ Cardinality(T) \in Nat
      /\ Cardinality(guessed) + Decided(T) <= Cardinality(T)
  BY Zenon, <1>3, <1>8, RemoveFlows
<1>10. Table(R)
  BY <1>1, <1>9, Zenon DEF Table
<1>11. HandedFlow(u)
  <2>1. \A f \in S : f.last_seen_ms = w.last_time => f \notin T
    BY <1>1, <1>2, ReaderAssumption DEF IdleFlows, Shape
  <2> QED BY <1>1, <1>7, <2>1, Zenon DEF HandedFlow
<1> HIDE DEF R
<1>12. Books(u)
  <2>1. StatsShape(w.stats)
    BY <1>1, Zenon DEF Shape
  <2>2. /\ w.stats.ip_packet_count = w.stats.protocol_counter + Packets(S)
        /\ w.stats.guessed_flow_protocols <= w.stats.protocol_flows + Decided(S)
        /\ w.cumulative_stats.ip_packet_count = w.cumulative_stats.protocol_counter
        /\ w.cumulative_stats.guessed_flow_protocols <= w.cumulative_stats.protocol_flows
    BY <1>1, Zenon DEF Books
  <2>3. u.flows = R
    BY <1>7, Zenon DEF R
  <2> HIDE DEF S
  <2> QED BY <1>4, <1>7, <1>9, <2>1, <2>2, <2>3 DEF Books, StatsShape
<1> QED BY <1>7, <1>10, <1>11, <1>12, Zenon DEF ReaderInv, R

\* The export marks the flow of the packet, which was decided.
LEMMA ExportKeeps ==
    ASSUME NEW w, ReaderInv(w), NEW x, x = Exported(w)
    PROVE  /\ Shape(x) /\ Table(x.flows) /\ Books(x)
           /\ GuessedIn(w.flows) \subseteq GuessedIn(x.flows)
<1> DEFINE S == w.flows
           Marked(f) == IF f.key = w.handed /\ f.detection_completed = 1
                        THEN [f EXCEPT !.detection_completed = 2] ELSE f
<1>1. Shape(w) /\ Table(S) /\ Books(w)
  BY Zenon DEF ReaderInv
<1>2. CASE x = w
  BY <1>1, <1>2, Zenon
<1>3. CASE x # w
  <2>1. x = [w EXCEPT !.flows = {Marked(f) : f \in @}]
    BY <1>3, Zenon DEF Exported
  <2>2. /\ Shape(x) /\ x.flows = {Marked(f) : f \in S} /\ x.stats = w.stats
        /\ x.cumulative_stats = w.cumulative_stats
    BY <1>1, <2>1, Zenon DEF Shape
  <2>3. CASE \A f \in S : ~(f.key = w.handed /\ f.detection_completed = 1)
    <3>1. x.flows = S
      BY <2>2, <2>3, Zenon
    <3> QED BY Zenon, <1>1, <2>2, <3>1 DEF Books
  <2>4. CASE \E f \in S : f.key = w.handed /\ f.detection_completed = 1
    <3>1. PICK g \in S : g.key = w.handed /\ g.detection_completed = 1
      BY <2>4, Zenon
    <3> DEFINE h == [g EXCEPT !.detection_completed = 2]
    <3>2. FlowOK(g)
      BY <1>1, Zenon DEF Table
    <3>3. FlowOK(h) /\ h.key = g.key /\ h.packets = g.packets /\ h.detection_completed = 2
      BY <3>1, <3>2 DEF FlowOK, FlowShape
    <3>4. \A f \in S : f.key = g.key => f = g
      BY <1>1, Zenon DEF Table
    <3>5. Marked(g) = h
      BY <3>1, Zenon
    <3>6. \A f \in S : f # g => Marked(f) = f /\ f.key # g.key
      BY <3>1, <3>4, Zenon
    <3> HIDE DEF h, Marked
    <3>7. x.flows = Put(S, h)
      BY <2>2, <3>3, <3>4, <3>5, <3>6 DEF Put
    <3>8. ~UndecidedFlow(g) /\ ~UndecidedFlow(h)
      BY <3>1, <3>3 DEF UndecidedFlow
    <3>9. g.packets \in Nat
      BY <3>2, Zenon DEF FlowOK, FlowShape
    <3>10. /\ Table(Put(S, h)) /\ Packets(S) \in Nat
           /\ Packets(Put(S, h)) = Packets(S) - g.packets + h.packets
           /\ Decided(Put(S, h)) = Decided(S)
      BY <1>1, <3>3, <3>8, ReplaceFlow, Zenon
    <3>11. Packets(Put(S, h)) = Packets(S)
      BY <3>3, <3>9, <3>10
    <3>12. Books(x)
      BY Zenon, <1>1, <2>2, <3>7, <3>10, <3>11 DEF Books
    <3>13. GuessedIn(S) \subseteq GuessedIn(Put(S, h))
      <4>1. ASSUME NEW f \in S, UndecidedFlow(f) PROVE f \in Put(S, h)
        BY <3>3, <3>4, <3>8, <4>1, Zenon DEF Put
      <4> QED BY <4>1, Zenon DEF GuessedIn
    <3> QED BY Zenon, <2>2, <3>7, <3>10, <3>12, <3>13
  <2> QED BY <2>3, <2>4, Zenon
<1> QED BY <1>2, <1>3, Zenon

\* After a report the table is empty and all its packets are in the totals.
LEMMA ReportKeeps ==
    ASSUME NEW w, Shape(w), Table(w.flows), Books(w), NEW guessed \in GuessedIn(w.flows),
           NEW x, x = printResults(w, guessed),
           NEW u, DOMAIN u = DOMAIN x, u.flows = {}, u.stats = ZeroStats,
           u.cumulative_stats = x.cumulative_stats, u.last_time = x.last_time,
           u.handed = NoFlow
    PROVE  ReaderInv(u)
<1> DEFINE S == w.flows
           r == node_proto_guess_walker(w, S, guessed)
           c == w.cumulative_stats
<1>1. /\ Shape(r) /\ r.cumulative_stats = c /\ r.last_time = w.last_time
      /\ r.stats.ip_packet_count = w.stats.ip_packet_count
      /\ r.stats.protocol_counter = w.stats.protocol_counter + Packets(S)
      /\ r.stats.protocol_flows = w.stats.protocol_flows + Cardinality(S)
      /\ r.stats.guessed_flow_protocols = w.stats.guessed_flow_protocols + Cardinality(guessed)
  BY WalkCounts
<1>2. x = w \/ x = [r EXCEPT !.cumulative_stats = AddStats(@, r.stats)]
  BY Zenon DEF printResults
<1> HIDE DEF r
<1>3. IsFiniteSet(S) /\ \A f \in S : f.packets \in Nat
  BY Zenon DEF Table, FlowOK, FlowShape
<1>4. /\ Packets(S) \in Nat /\ Decided(S) \in Nat /\ Cardinality(guessed) \in Nat
      /\ Cardinality(S) \in Nat /\ Cardinality(guessed) + Decided(S) <= Cardinality(S)
  BY Zenon, <1>3, RemoveFlows
<1> HIDE DEF r
<1>5. /\ StatsShape(x.cumulative_stats) /\ x.last_time \in Nat /\ DOMAIN x = DOMAIN w
      /\ x.cumulative_stats.ip_packet_count = x.cumulative_stats.protocol_counter
      /\ x.cumulative_stats.guessed_flow_protocols <= x.cumulative_stats.protocol_flows
  <2>1. CASE x = w
    BY <2>1, Zenon DEF Shape, Books
  <2>2. CASE x = [r EXCEPT !.cumulative_stats = AddStats(@, r.stats)]
    <3> DEFINE a == AddStats(c, r.stats)
    <3>1. x.cumulative_stats = a /\ x.last_time = w.last_time /\ DOMAIN x = DOMAIN w
      BY <1>1, <2>2, Zenon DEF Shape
    <3>2. StatsShape(c) /\ StatsShape(r.stats) /\ StatsShape(w.stats) /\ w.last_time \in Nat
      BY <1>1, Zenon DEF Shape
    <3>3. /\ StatsShape(a)
          /\ a.ip_packet_count = c.ip_packet_count + r.stats.ip_packet_count
          /\ a.protocol_counter = c.protocol_counter + r.stats.protocol_counter
          /\ a.protocol_flows = c.protocol_flows + r.stats.protocol_flows
          /\ a.guessed_flow_protocols
               = c.guessed_flow_protocols + r.stats.guessed_flow_protocols
      BY <3>2 DEF AddStats, StatsShape
    <3> HIDE DEF a
    <3>4. /\ w.stats.ip_packet_count = w.stats.protocol_counter + Packets(S)
          /\ w.stats.guessed_flow_protocols <= w.stats.protocol_flows + Decided(S)
          /\ c.ip_packet_count = c.protocol_counter
          /\ c.guessed_flow_protocols <= c.protocol_flows
      BY Zenon DEF Books
    <3> HIDE DEF S, c
    <3>5. /\ a.ip_packet_count = a.protocol_counter
          /\ a.guessed_flow_protocols <= a.protocol_flows
      <4>1. /\ w.stats.protocol_counter \in Nat /\ w.stats.protocol_flows \in Nat
            /\ w.stats.guessed_flow_protocols \in Nat /\ w.stats.ip_packet_count \in Nat
            /\ c.ip_packet_count \in Nat /\ c.protocol_counter \in Nat
            /\ c.protocol_flows \in Nat /\ c.guessed_flow_protocols \in Nat
        BY Zenon, <3>2 DEF StatsShape
      <4> QED
        BY <1>1, <1>4, <3>3, <3>4, <4>1
    <3> QED BY <3>1, <3>2, <3>3, <3>5, Zenon
  <2> QED BY <1>2, <2>1, <2>2, Zenon
<1>6. StatsShape(ZeroStats) /\ ZeroStats.ip_packet_count = 0 /\ ZeroStats.protocol_counter = 0
      /\ ZeroStats.guessed_flow_protocols = 0 /\ ZeroStats.protocol_flows = 0
  BY Zenon DEF ZeroStats, StatsShape
<1>7. Shape(u)
  BY <1>5, <1>6, Zenon DEF Shape
<1>8. Books(u)
  BY <1>5, <1>6, EmptyTable DEF Books
<1> QED BY <1>7, <1>8, EmptyTable, Zenon DEF ReaderInv, HandedFlow

-----------------------------------------------------------------------------
\* The workflow starts empty.
LEMMA ReaderInit_Inv ==
    ASSUME ReaderInit
    PROVE  ReaderInv(reader)
<1>1. PICK options \in ReaderOptions : reader = NewReader(options)
  BY Zenon DEF ReaderInit
<1>2. /\ Shape(reader) /\ reader.flows = {} /\ reader.handed = NoFlow
      /\ reader.stats = ZeroStats /\ reader.cumulative_stats = ZeroStats
  BY <1>1, Zenon DEF NewReader, Shape, ZeroStats, StatsShape
<1>3. ZeroStats.ip_packet_count = 0 /\ ZeroStats.protocol_counter = 0
      /\ ZeroStats.guessed_flow_protocols = 0 /\ ZeroStats.protocol_flows = 0
  BY Zenon DEF ZeroStats
<1>4. Books(reader)
  BY <1>2, <1>3, EmptyTable DEF Books
<1> QED BY <1>2, <1>4, EmptyTable, Zenon DEF ReaderInv, HandedFlow

\* The books of a workflow that has the books of another.
LEMMA SameBooksKeep ==
    ASSUME NEW w, Table(w.flows), Books(w), NEW u, SameBooks(w, u)
    PROVE  Shape(u) /\ Table(u.flows) /\ Books(u)
BY Zenon DEF SameBooks, Books

\* Every step of ndpi_process_packet(), and the end of the capture, keep the invariant.
LEMMA ReaderNext_Inv ==
    ASSUME ReaderInv(reader), [ReaderNext]_reader
    PROVE  ReaderInv(reader')
<1> DEFINE w == reader
           u == reader'
<1>0. Shape(w) /\ Table(w.flows) /\ Books(w) /\ HandedFlow(w)
  BY Zenon DEF ReaderInv
<1>1. CASE UNCHANGED reader
  BY <1>1, Zenon
<1>2. ASSUME NEW time \in 1..ReaderMaxTime, SkipPacket(time) PROVE ReaderInv(u)
  <2>1. u = Arrive(w, time)
    BY <1>2, Zenon DEF SkipPacket
  <2>2. SameBooks(w, u) /\ u.handed = NoFlow
    BY <1>0, <2>1, ArriveKeeps, Zenon
  <2> QED BY <1>0, <2>2, SameBooksKeep, Zenon DEF ReaderInv, HandedFlow
<1>3. ASSUME NEW time \in 1..ReaderMaxTime, NEW key \in ReaderKey, NEW failed,
             packet_processing(time, key, failed)
      PROVE  ReaderInv(u)
  <2> DEFINE v == Arrive(w, time)
             r == get_ndpi_flow_info(v, key, failed)
  <2>1. PICK a \in Answers(r.flow), exported \in BOOLEAN :
          u = IF r.flow = NoFlow THEN r.w ELSE Process(r.w, r.flow, a[1], a[2], exported)
    BY <1>3, Zenon DEF packet_processing
  <2>2. SameBooks(w, v) /\ v.handed = NoFlow /\ v.pc = "processed"
    BY <1>0, ArriveKeeps, Zenon
  <2>3. Shape(v) /\ Table(v.flows) /\ Books(v)
    BY Zenon, <1>0, <2>2, SameBooksKeep
  <2> HIDE DEF v
  <2>4. /\ SameBooks(v, r.w) /\ r.w.handed = v.handed /\ r.w.pc = v.pc
        /\ r.flow # NoFlow =>
             FlowDraft(r.flow) /\ (Kept(v.flows, r.flow) \/ Fresh(v.flows, r.flow))
    BY Zenon, <2>3, FlowOfPacket
  <2> HIDE DEF r
  <2>5. Shape(r.w) /\ Table(r.w.flows) /\ Books(r.w) /\ r.w.flows = v.flows
    <3>1. Shape(r.w) /\ Table(r.w.flows) /\ Books(r.w)
      BY Zenon, <2>3, <2>4, SameBooksKeep
    <3> QED
      BY Zenon, <2>4, <3>1 DEF SameBooks
  <2>6. CASE r.flow = NoFlow
    BY Zenon, <2>1, <2>2, <2>4, <2>5, <2>6 DEF ReaderInv, HandedFlow
  <2>7. CASE r.flow # NoFlow
    <3>1. u = Process(r.w, r.flow, a[1], a[2], exported) /\ r.w.pc = "processed"
      BY Zenon, <2>1, <2>2, <2>4, <2>7
    <3>2. FlowDraft(r.flow) /\ (Kept(r.w.flows, r.flow) \/ Fresh(r.w.flows, r.flow))
      BY Zenon, <2>4, <2>5, <2>7
    <3> QED
      BY Zenon, <2>5, <2>7, <3>1, <3>2, ProcessKeeps
  <2> QED BY <2>6, <2>7, Zenon
<1>4. CASE IdleScan
  <2>0. PICK T \in TakenByScan(w) : \E guessed \in GuessedIn(T) :
          u = [node_idle_scan_walker(w, T, guessed) EXCEPT !.pc = "scanned",
                  !.idle_scan_idx = (@ + 1) % num_roots, !.last_idle_scan_time = w.last_time]
    BY <1>4, Zenon DEF IdleScan
  <2>1. PICK guessed \in GuessedIn(T) :
          u = [node_idle_scan_walker(w, T, guessed) EXCEPT !.pc = "scanned",
                  !.idle_scan_idx = (@ + 1) % num_roots, !.last_idle_scan_time = w.last_time]
    BY <2>0, Zenon
  <2> DEFINE pc == "scanned"
             idx == (node_idle_scan_walker(w, T, guessed).idle_scan_idx + 1) % num_roots
  <2>2. u = [node_idle_scan_walker(w, T, guessed) EXCEPT
               !.pc = pc, !.idle_scan_idx = idx, !.last_idle_scan_time = w.last_time]
    BY <2>1, Zenon
  <2>3. pc # "wait"
    BY Zenon
  <2> HIDE DEF pc, idx
  <2> QED BY <2>2, <2>3, ScanKeeps, Zenon
<1>5. CASE NoScan
  <2>1. u = [w EXCEPT !.pc = "scanned"]
    BY <1>5, Zenon DEF NoScan
  <2>2. /\ SameBooks(w, u) /\ u.handed = w.handed /\ u.last_time = w.last_time
        /\ u.flows = w.flows /\ u.pc = "scanned"
    BY <1>0, <2>1, Zenon DEF SameBooks, Shape
  <2> QED BY <1>0, <2>2, SameBooksKeep, Zenon DEF ReaderInv, HandedFlow
<1>6. CASE EndPacket
  <2> DEFINE x == Exported(w)
  <2>1. u = [x EXCEPT !.pc = "wait", !.handed = NoFlow]
    BY <1>6, Zenon DEF EndPacket
  <2>2. Shape(x) /\ Table(x.flows) /\ Books(x)
    BY ExportKeeps, Zenon
  <2> HIDE DEF x
  <2>3. SameBooks(x, u) /\ u.handed = NoFlow
    BY <2>1, <2>2, Zenon DEF SameBooks, Shape
  <2> QED BY <2>2, <2>3, SameBooksKeep, Zenon DEF ReaderInv, HandedFlow
<1>7. CASE Split
  <2> DEFINE x == Exported(w)
  <2>1. PICK guessed \in GuessedIn(w.flows) :
          u = [printResults(x, guessed) EXCEPT !.pc = "wait", !.handed = NoFlow, !.flows = {},
                  !.stats = ZeroStats, !.pcap_start = w.pcap_end]
    BY Zenon, <1>7 DEF Split
  <2>2. Shape(x) /\ Table(x.flows) /\ Books(x) /\ guessed \in GuessedIn(x.flows)
    BY ExportKeeps, Zenon
  <2> HIDE DEF x
  <2> DEFINE y == printResults(x, guessed)
  <2>3. DOMAIN y = DOMAIN x
    BY <2>2, Zenon DEF printResults, node_proto_guess_walker
  <2>4. /\ DOMAIN u = DOMAIN y /\ u.flows = {} /\ u.stats = ZeroStats
        /\ u.cumulative_stats = y.cumulative_stats /\ u.last_time = y.last_time
        /\ u.handed = NoFlow
    BY <2>1, <2>2, <2>3, Zenon DEF Shape
  <2> HIDE DEF y
  <2> QED BY <2>2, <2>4, ReportKeeps, Zenon DEF y
<1>8. CASE Finish
  <2>1. PICK guessed \in GuessedIn(w.flows) :
          u = [printResults(w, guessed) EXCEPT !.pc = "done", !.flows = {}, !.stats = ZeroStats]
    BY Zenon, <1>8 DEF Finish
  <2>2. w.handed = NoFlow
    BY <1>0, <1>8, Zenon DEF Finish, HandedFlow
  <2> DEFINE y == printResults(w, guessed)
  <2>3. DOMAIN y = DOMAIN w /\ y.handed = w.handed
    BY <1>0, Zenon DEF printResults, node_proto_guess_walker, Shape
  <2>4. /\ DOMAIN u = DOMAIN y /\ u.flows = {} /\ u.stats = ZeroStats
        /\ u.cumulative_stats = y.cumulative_stats /\ u.last_time = y.last_time
        /\ u.handed = NoFlow
    BY <1>0, <2>1, <2>2, <2>3, Zenon DEF Shape
  <2> HIDE DEF y
  <2> QED BY <1>0, <2>4, ReportKeeps, Zenon DEF y
<1> QED BY <1>1, <1>2, <1>3, <1>4, <1>5, <1>6, <1>7, <1>8, Zenon DEF ReaderNext

\* However the packets, the failed allocations, the idle scans and the splits follow each other,
\* every packet that found a flow is in exactly one report, and no flow is counted as a guess
\* more than once (packet_processing, node_proto_guess_walker, printResults).
THEOREM BooksAddUp == ReaderSpec => []ReportsAddUp
<1>1. ReaderInit => ReaderInv(reader)
  BY ReaderInit_Inv, Zenon
<1>2. ReaderInv(reader) /\ [ReaderNext]_reader => ReaderInv(reader)'
  BY ReaderNext_Inv, Zenon
<1>3. ReaderInv(reader) => ReportsAddUp
  BY Zenon DEF ReaderInv, Books, ReportsAddUp
<1> QED BY <1>1, <1>2, <1>3, PTL DEF ReaderSpec

\* A conversation has one node, the flow handed to ndpi_process_packet() outlives the idle scan,
\* a flow that is inspected has its library struct, and the arrays of packet lengths have room,
\* for every size of the table and of the arrays (get_ndpi_flow_info, node_idle_scan_walker).
THEOREM FlowsStayUsable == ReaderSpec => []FlowsUsable
<1>1. ReaderInit => ReaderInv(reader)
  BY ReaderInit_Inv, Zenon
<1>2. ReaderInv(reader) /\ [ReaderNext]_reader => ReaderInv(reader)'
  BY ReaderNext_Inv, Zenon
<1>3. ReaderInv(reader) => FlowsUsable
  BY Zenon DEF ReaderInv, Table, FlowOK, FlowShape, HandedFlow, ndpi_tfind, FlowsUsable
<1> QED BY <1>1, <1>2, <1>3, PTL DEF ReaderSpec
-----------------------------------------------------------------------------
(* The risks of a flow.                                                    *)

InfoRecord == [id : InfoRisk, info : SUBSET RiskMessage]

\* An entry that is the only one for its risk is dropped.
LEMMA SingleDropped ==
    ASSUME NEW s \in Seq(InfoRecord), NEW x, NEW i \in DOMAIN s, s[i].id = x,
           \A j \in DOMAIN s : s[j].id = x => j = i
    PROVE  DroppedAt(s, x, i)
<1> DEFINE Row == {j \in 1..i : \A n \in j..i : s[n].id = x}
<1>1. i \in Nat /\ i >= 1 /\ i <= Len(s) /\ Len(s) \in Nat
  OBVIOUS
<1>2. i \in Row
  BY <1>1
<1>3. ASSUME NEW j \in Row PROVE j = i
  <2>1. j \in 1..i /\ j \in j..i
    BY <1>1
  <2>2. s[j].id = x
    BY <2>1, Zenon
  <2>3. j \in DOMAIN s
    BY <1>1, <2>1
  <2> QED BY <2>2, <2>3, Zenon
<1>4. Row = {i}
  BY <1>2, <1>3, Zenon
<1>5. Cardinality(Row) = 1
  BY Zenon, <1>4, FS_Singleton
<1>6. 1 % 2 = 1
  OBVIOUS
<1> HIDE DEF Row
<1>7. Cardinality(Row) % 2 = 1
  BY <1>5, <1>6, Zenon
<1> QED BY <1>7, Zenon DEF DroppedAt, Row

\* The place of the first message for a risk.
LEMMA InfoOfFacts ==
    ASSUME NEW f, f.infos \in Seq(InfoRecord), NEW x, NEW n, n = InfoOf(f, x)
    PROVE  /\ n = 0 => \A i \in DOMAIN f.infos : f.infos[i].id # x
           /\ n # 0 => n \in DOMAIN f.infos
<1> DEFINE I == {i \in DOMAIN f.infos : f.infos[i].id = x}
           m == CHOOSE i \in I : \A j \in I : i <= j
<1>1. n = IF I = {} THEN 0 ELSE m
  BY Zenon DEF InfoOf
<1>2. I \subseteq Nat /\ 0 \notin I /\ I \subseteq DOMAIN f.infos
  OBVIOUS
<1>3. I # {} => m \in I
  BY Zenon, <1>2, LeastElement
<1>4. I = {} => \A i \in DOMAIN f.infos : f.infos[i].id # x
  BY Zenon
<1> HIDE DEF I, m
<1> QED BY Zenon, <1>1, <1>2, <1>3, <1>4

-----------------------------------------------------------------------------
RiskShape(f) ==
    /\ DOMAIN f = {"risk", "risk_shadow", "risk_mask", "infos", "host_risk_mask_evaluated",
                   "ip_risk_mask_evaluated", "named", "monitoring", "host_mask", "ip_mask",
                   "steps"}
    /\ f.infos \in Seq(InfoRecord)
    /\ f.host_risk_mask_evaluated \in BOOLEAN /\ f.ip_risk_mask_evaluated \in BOOLEAN

\* What the masks hold back, once they were looked at.
Masked(f) ==
    /\ f.host_risk_mask_evaluated =>
         /\ f.ip_risk_mask_evaluated
         /\ f.risk \subseteq f.risk_mask /\ f.risk_mask \subseteq f.host_mask
    /\ f.ip_risk_mask_evaluated => f.risk_mask \subseteq f.ip_mask[1] \intersect f.ip_mask[2]

HeldBack(f, x) == f.ip_risk_mask_evaluated /\ x \notin f.risk_mask

\* The messages s explain the risks of f.
Explains(s, f) ==
    \A i \in DOMAIN s :
       \/ HeldBack(f, s[i].id)
       \/ s[i].id \in f.risk /\ \A j \in DOMAIN s : s[j].id = s[i].id => j = i

\* The inductive invariant.
RiskInv(f) == RiskShape(f) /\ Masked(f) /\ Explains(f.infos, f)

\* One more message, for a risk that is held back or has none.
LEMMA RiskStored ==
    ASSUME NEW g, RiskShape(g), Masked(g), Explains(g.infos, g), NEW x \in InfoRisk,
           NEW m \in RiskMessage, NEW u, u = StoreInfo(g, x, m),
           \/ HeldBack(g, x)
           \/ x \in g.risk /\ \A i \in DOMAIN g.infos : g.infos[i].id # x
    PROVE  RiskInv(u)
<1>1. CASE u = g
  BY <1>1, Zenon DEF RiskInv
<1>2. CASE u # g
  <2> DEFINE s == g.infos
             e == Info(x, m)
             t == Append(s, e)
  <2>1. u = [g EXCEPT !.infos = t]
    BY <1>2, Zenon DEF StoreInfo
  <2>2. e \in InfoRecord /\ e.id = x
    BY Zenon DEF Info, InfoRecord
  <2>3. s \in Seq(InfoRecord)
    BY Zenon DEF RiskShape
  <2> HIDE DEF e, s
  <2>4. /\ t \in Seq(InfoRecord) /\ DOMAIN t = DOMAIN s \union {Len(s) + 1}
        /\ Len(s) + 1 \notin DOMAIN s
        /\ t[Len(s) + 1] = e /\ \A i \in DOMAIN s : t[i] = s[i]
    BY <2>2, <2>3
  <2> HIDE DEF t
  <2>5. Explains(t, g)
    <3> SUFFICES ASSUME NEW i \in DOMAIN t, ~HeldBack(g, t[i].id)
                 PROVE  t[i].id \in g.risk /\ \A j \in DOMAIN t : t[j].id = t[i].id => j = i
      BY Zenon DEF Explains
    <3>1. CASE i = Len(s) + 1
      <4>1. t[i].id = x
        BY <2>2, <2>4, <3>1, Zenon
      <4>2. x \in g.risk /\ \A j \in DOMAIN s : s[j].id # x
        BY <4>1, Zenon DEF s
      <4> QED BY <2>4, <3>1, <4>1, <4>2, Zenon
    <3>2. CASE i \in DOMAIN s
      <4>1. t[i] = s[i] /\ ~HeldBack(g, s[i].id)
        BY <2>4, <3>2, Zenon
      <4>2. s[i].id \in g.risk /\ \A j \in DOMAIN s : s[j].id = s[i].id => j = i
        BY <3>2, <4>1, Zenon DEF Explains, s
      <4>3. s[i].id # x
        BY <3>2, <4>1, Zenon DEF s
      <4> QED BY <2>2, <2>4, <3>2, <4>1, <4>2, <4>3, Zenon
    <3> QED BY <2>4, <3>1, <3>2, Zenon
  <2>6. /\ RiskShape(u) /\ u.infos = t /\ u.risk = g.risk /\ u.risk_mask = g.risk_mask
        /\ u.ip_risk_mask_evaluated = g.ip_risk_mask_evaluated /\ Masked(u)
    BY <2>1, <2>4, Zenon DEF RiskShape, Masked
  <2>7. Explains(u.infos, u)
    BY <2>5, <2>6, Zenon DEF Explains, HeldBack
  <2> QED BY <2>6, <2>7, Zenon DEF RiskInv
<1> QED BY <1>1, <1>2, Zenon

\* A risk that is there already.
LEMMA RaiseAgainKeeps ==
    ASSUME NEW f, RiskInv(f), NEW x, x \in f.risk, NEW m \in RiskMessage \union {NoMessage},
           NEW u, u = RaiseAgain(f, x, m)
    PROVE  RiskInv(u)
<1> DEFINE n == InfoOf(f, x)
           s == f.infos
           t == LongerInfo(s, n, m)
<1>0. RiskShape(f) /\ Masked(f) /\ Explains(s, f) /\ s \in Seq(InfoRecord)
  BY Zenon DEF RiskInv, RiskShape
<1>1. n = 0 => \A i \in DOMAIN s : s[i].id # x
  BY <1>0, InfoOfFacts, Zenon
<1>2. n # 0 => n \in DOMAIN s
  BY <1>0, InfoOfFacts, Zenon
<1>3. \/ u = f
      \/ x \in InfoRisk /\ m # NoMessage /\ n # 0 /\ u = [f EXCEPT !.infos = t]
      \/ x \in InfoRisk /\ m # NoMessage /\ n = 0 /\ u = StoreInfo(f, x, m)
  BY Zenon DEF RaiseAgain
<1> HIDE DEF n
<1>4. CASE u = f
  BY <1>4, Zenon
<1>5. CASE x \in InfoRisk /\ m # NoMessage /\ n # 0 /\ u = [f EXCEPT !.infos = t]
  <2> DEFINE e == [id |-> s[n].id, info |-> s[n].info \union {m}]
  <2>1. n \in DOMAIN s /\ m \in RiskMessage
    BY <1>2, <1>5, Zenon
  <2>2. s[n] \in InfoRecord
    BY <1>0, <2>1
  <2>3. e \in InfoRecord /\ e.id = s[n].id
    BY <2>1, <2>2, Zenon DEF InfoRecord
  <2>4. t = [s EXCEPT ![n] = e]
    BY Zenon DEF LongerInfo
  <2> HIDE DEF e, s
  <2>5. /\ t \in Seq(InfoRecord) /\ DOMAIN t = DOMAIN s
        /\ \A i \in DOMAIN s : t[i].id = s[i].id
    BY <1>0, <2>1, <2>3, <2>4
  <2> HIDE DEF t
  <2>6. Explains(t, f)
    BY <1>0, <2>5, Zenon DEF Explains
  <2>7. /\ RiskShape(u) /\ u.infos = t /\ u.risk = f.risk /\ u.risk_mask = f.risk_mask
        /\ u.ip_risk_mask_evaluated = f.ip_risk_mask_evaluated /\ Masked(u)
    BY <1>0, <1>5, <2>5, Zenon DEF RiskShape, Masked
  <2>8. Explains(u.infos, u)
    BY <2>6, <2>7, Zenon DEF Explains, HeldBack
  <2> QED BY <2>7, <2>8, Zenon DEF RiskInv
<1>6. CASE x \in InfoRisk /\ m # NoMessage /\ n = 0 /\ u = StoreInfo(f, x, m)
  <2>1. m \in RiskMessage
    BY <1>6, Zenon
  <2> QED BY <1>0, <1>1, <1>6, <2>1, RiskStored, Zenon
<1> QED BY <1>3, <1>4, <1>5, <1>6, Zenon

\* A new risk: the mask of the host name holds it back, or its entries were held back before,
\* or it has none.
LEMMA RaiseNewKeeps ==
    ASSUME NEW f, RiskInv(f), NEW x, x \notin f.risk, NEW m \in RiskMessage \union {NoMessage},
           NEW u, u = RaiseNew(f, x, m)
    PROVE  RiskInv(u)
<1> DEFINE v == IF f.host_risk_mask_evaluated THEN {x} \intersect f.risk_mask ELSE {x}
           g == [f EXCEPT !.risk = @ \union v]
<1>0. RiskShape(f) /\ Masked(f) /\ Explains(f.infos, f)
  BY Zenon DEF RiskInv
<1>1. /\ RiskShape(g) /\ g.infos = f.infos /\ g.risk = f.risk \union v
      /\ g.risk_mask = f.risk_mask /\ g.ip_risk_mask_evaluated = f.ip_risk_mask_evaluated
      /\ g.host_risk_mask_evaluated = f.host_risk_mask_evaluated
      /\ g.host_mask = f.host_mask /\ g.ip_mask = f.ip_mask
  BY <1>0, Zenon DEF RiskShape
<1>2. v \subseteq {x} /\ (f.host_risk_mask_evaluated => v \subseteq f.risk_mask)
      /\ (v # {} \/ HeldBack(f, x))
  BY <1>0, Zenon DEF Masked, HeldBack
<1>3. \/ u = g
      \/ x \in InfoRisk /\ m # NoMessage /\ u = StoreInfo(g, x, m)
  BY Zenon DEF RaiseNew
<1> HIDE DEF v, g
<1>4. Masked(g)
  BY <1>0, <1>1, <1>2, Zenon DEF Masked
<1>5. Explains(g.infos, g)
  BY <1>0, <1>1, Zenon DEF Explains, HeldBack
<1>6. CASE u = g
  BY <1>1, <1>4, <1>5, <1>6, Zenon DEF RiskInv
<1>7. CASE x \in InfoRisk /\ m # NoMessage /\ u = StoreInfo(g, x, m)
  <2>1. m \in RiskMessage
    BY <1>7, Zenon
  <2>2. \/ HeldBack(g, x)
        \/ x \in g.risk /\ \A i \in DOMAIN g.infos : g.infos[i].id # x
    BY <1>0, <1>1, <1>2 DEF Explains, HeldBack
  <2> QED BY <1>1, <1>4, <1>5, <1>7, <2>1, <2>2, RiskStored, Zenon
<1> QED BY <1>3, <1>6, <1>7, Zenon

\* ndpi_set_risk() keeps the invariant.
LEMMA SetRiskKeeps ==
    ASSUME NEW f, RiskInv(f), NEW x, NEW m \in RiskMessage \union {NoMessage},
           NEW u, u = ndpi_set_risk(f, x, m)
    PROVE  RiskInv(u)
<1>1. CASE u = f
  BY <1>1, Zenon
<1>2. CASE x \in f.risk /\ u = RaiseAgain(f, x, m)
  BY <1>2, RaiseAgainKeeps, Zenon
<1>3. CASE x \notin f.risk /\ u = RaiseNew(f, x, m)
  BY <1>3, RaiseNewKeeps, Zenon
<1> QED BY <1>1, <1>2, <1>3, Zenon DEF ndpi_set_risk, ndpi_isset_risk

\* ndpi_unset_risk() leaves no message for the risk that is not held back.
LEMMA UnsetRiskKeeps ==
    ASSUME NEW f, RiskInv(f), NEW x, NEW u, u = ndpi_unset_risk(f, x)
    PROVE  RiskInv(u)
<1> DEFINE s == f.infos
           keep == {i \in DOMAIN s : ~DroppedAt(s, x, i)}
           t == IF x \in InfoRisk THEN DropInfo(s, x) ELSE s
<1>0. RiskShape(f) /\ Masked(f) /\ Explains(s, f) /\ s \in Seq(InfoRecord)
  BY Zenon DEF RiskInv, RiskShape
<1>1. CASE u = f
  BY <1>1, Zenon
<1>2. CASE u # f
  <2>1. u = [f EXCEPT !.risk = @ \ {x}, !.infos = t]
    BY <1>2, Zenon DEF ndpi_unset_risk
  <2>2. \A i \in DOMAIN s : s[i].id \in InfoRisk
    <3>1. \A i \in DOMAIN s : s[i] \in InfoRecord
      BY <1>0
    <3> QED BY <3>1, Zenon DEF InfoRecord
  <2>3. /\ t \in Seq(InfoRecord)
        /\ \A n \in DOMAIN t : \E i \in DOMAIN s :
              t[n] = s[i] /\ (x \in InfoRisk => ~DroppedAt(s, x, i))
        /\ \A m, n \in DOMAIN t : m # n =>
              \E i, j \in DOMAIN s : i # j /\ t[m] = s[i] /\ t[n] = s[j]
    <3>1. CASE x \in InfoRisk
      <4>1. t = EntriesAt(s, keep) /\ keep \subseteq DOMAIN s
        BY <3>1, Zenon DEF DropInfo
      <4> HIDE DEF s, t, keep
      <4>2. /\ t \in Seq(InfoRecord)
            /\ \A n \in DOMAIN t : \E i \in keep : t[n] = s[i]
            /\ \A m, n \in DOMAIN t : m # n =>
                  \E i, j \in keep : i # j /\ t[m] = s[i] /\ t[n] = s[j]
        BY <1>0, <4>1, EntriesKept
      <4> QED BY <4>1, <4>2 DEF keep
    <3>2. CASE x \notin InfoRisk
      BY <1>0, <3>2, Zenon
    <3> QED BY <3>1, <3>2, Zenon
  <2> HIDE DEF t, s
  <2>4. ASSUME NEW n \in DOMAIN t, ~HeldBack(f, t[n].id)
        PROVE  /\ t[n].id \in f.risk \ {x}
               /\ \A m \in DOMAIN t : t[m].id = t[n].id => m = n
    <3>1. PICK i \in DOMAIN s : t[n] = s[i] /\ (x \in InfoRisk => ~DroppedAt(s, x, i))
      BY <2>3, Zenon
    <3>2. s[i].id \in f.risk /\ \A j \in DOMAIN s : s[j].id = s[i].id => j = i
      BY <1>0, <2>4, <3>1, Zenon DEF Explains
    <3>3. s[i].id # x
      BY <1>0, <2>2, <3>1, <3>2, SingleDropped, Zenon
    <3>4. ASSUME NEW m \in DOMAIN t, t[m].id = t[n].id, m # n PROVE FALSE
      <4>1. PICK a, b \in DOMAIN s : a # b /\ t[m] = s[a] /\ t[n] = s[b]
        BY <2>3, <3>4, Zenon
      <4>2. s[a].id = s[i].id /\ s[b].id = s[i].id
        BY <3>1, <3>4, <4>1, Zenon
      <4> QED BY <3>2, <4>1, <4>2, Zenon
    <3> QED BY <3>1, <3>2, <3>3, <3>4, Zenon
  <2>5. /\ RiskShape(u) /\ u.infos = t /\ u.risk = f.risk \ {x} /\ u.risk_mask = f.risk_mask
        /\ u.ip_risk_mask_evaluated = f.ip_risk_mask_evaluated /\ Masked(u)
    BY <1>0, <2>1, <2>3 DEF RiskShape, Masked
  <2>6. Explains(u.infos, u)
    BY <2>4, <2>5, Zenon DEF Explains, HeldBack
  <2> QED BY <2>5, <2>6, Zenon DEF RiskInv
<1> QED BY <1>1, <1>2, Zenon

\* The messages explain fewer risks when more are held back.
LEMMA MaskingExplains ==
    ASSUME NEW f, Explains(f.infos, f), NEW u, u.infos = f.infos \/ u.infos = << >>,
           u.ip_risk_mask_evaluated, u.risk = f.risk \intersect u.risk_mask,
           f.ip_risk_mask_evaluated => u.risk_mask \subseteq f.risk_mask
    PROVE  Explains(u.infos, u)
<1>1. CASE u.infos = f.infos
  BY <1>1, Zenon DEF Explains, HeldBack
<1>2. CASE u.infos = << >>
  BY <1>2 DEF Explains
<1> QED BY <1>1, <1>2, Zenon

\* ndpi_handle_risk_exceptions() evaluates the masks of the addresses, and the one of the name
\* when there is a name.
LEMMA ExceptionsKeep ==
    ASSUME NEW f, RiskInv(f), NEW u, u = ndpi_handle_risk_exceptions(f)
    PROVE  RiskInv(u)
<1> DEFINE g == IF f.host_risk_mask_evaluated \/ f.ip_risk_mask_evaluated THEN f
                ELSE [f EXCEPT !.risk_mask = NoMask]
           h == HostExceptions(g)
           e == AddressExceptions(h)
<1>0. RiskShape(f) /\ Masked(f) /\ Explains(f.infos, f)
  BY Zenon DEF RiskInv
<1>1. CASE f.risk = {}
  BY <1>1, Zenon DEF ndpi_handle_risk_exceptions
<1>2. CASE f.risk # {}
  <2>1. u = [e EXCEPT !.risk = @ \intersect e.risk_mask]
    BY <1>2, Zenon DEF ndpi_handle_risk_exceptions
  <2>2. /\ RiskShape(g) /\ g.infos = f.infos /\ g.risk = f.risk
        /\ (f.ip_risk_mask_evaluated => g.risk_mask = f.risk_mask)
        /\ (f.host_risk_mask_evaluated => g.risk_mask = f.risk_mask)
        /\ (g.ip_risk_mask_evaluated <=> f.ip_risk_mask_evaluated)
        /\ (g.host_risk_mask_evaluated <=> f.host_risk_mask_evaluated)
        /\ g.host_mask = f.host_mask /\ g.ip_mask = f.ip_mask
    BY <1>0, Zenon DEF RiskShape
  <2> HIDE DEF g
  <2>3. /\ RiskShape(h) /\ (h.infos = f.infos \/ h.infos = << >>) /\ h.risk = f.risk
        /\ h.risk_mask \subseteq g.risk_mask
        /\ (h.ip_risk_mask_evaluated <=> f.ip_risk_mask_evaluated)
        /\ h.host_mask = f.host_mask /\ h.ip_mask = f.ip_mask
        /\ (h.host_risk_mask_evaluated =>
              h.risk_mask \subseteq h.host_mask \/ f.host_risk_mask_evaluated)
    <3>1. CASE h = g
      BY <2>2, <3>1, Zenon DEF HostExceptions
    <3>2. CASE h # g
      <4> DEFINE mask == g.risk_mask \intersect g.host_mask
                 infos == IF mask = {} THEN << >> ELSE g.infos
      <4>1. h = [g EXCEPT !.risk_mask = mask, !.infos = infos, !.host_risk_mask_evaluated = TRUE]
        BY <3>2, Zenon DEF HostExceptions
      <4>2. infos \in Seq(InfoRecord) /\ (infos = f.infos \/ infos = << >>)
        BY <2>2 DEF RiskShape
      <4>3. mask \subseteq g.risk_mask /\ mask \subseteq g.host_mask
        BY Zenon
      <4> HIDE DEF mask, infos
      <4> QED BY <2>2, <4>1, <4>2, <4>3, Zenon DEF RiskShape
    <3> QED BY <3>1, <3>2, Zenon
  <2> HIDE DEF h
  <2>4. /\ RiskShape(e) /\ (e.infos = f.infos \/ e.infos = << >>) /\ e.risk = f.risk
        /\ e.risk_mask \subseteq h.risk_mask
        /\ e.ip_risk_mask_evaluated
        /\ (e.host_risk_mask_evaluated <=> h.host_risk_mask_evaluated)
        /\ e.host_mask = f.host_mask /\ e.ip_mask = f.ip_mask
        /\ (f.ip_risk_mask_evaluated \/ e.risk_mask \subseteq e.ip_mask[1] \intersect e.ip_mask[2])
    <3>1. CASE h.ip_risk_mask_evaluated
      BY <2>3, <3>1, Zenon DEF AddressExceptions
    <3>2. CASE ~h.ip_risk_mask_evaluated
      <4> DEFINE mask == (h.risk_mask \intersect h.ip_mask[1]) \intersect h.ip_mask[2]
      <4>1. e = [h EXCEPT !.risk_mask = mask, !.ip_risk_mask_evaluated = TRUE]
        BY <3>2, Zenon DEF AddressExceptions
      <4>2. mask \subseteq h.risk_mask /\ mask \subseteq h.ip_mask[1] \intersect h.ip_mask[2]
        BY Zenon
      <4> HIDE DEF mask
      <4> QED BY <2>3, <4>1, <4>2, Zenon DEF RiskShape
    <3> QED BY <3>1, <3>2, Zenon
  <2> HIDE DEF e
  <2>5. /\ RiskShape(u) /\ (u.infos = f.infos \/ u.infos = << >>)
        /\ u.risk = f.risk \intersect u.risk_mask /\ u.risk_mask = e.risk_mask
        /\ u.ip_risk_mask_evaluated
        /\ (u.host_risk_mask_evaluated <=> e.host_risk_mask_evaluated)
        /\ u.host_mask = f.host_mask /\ u.ip_mask = f.ip_mask
    BY Zenon, <2>1, <2>4 DEF RiskShape
  <2>6. f.ip_risk_mask_evaluated => u.risk_mask \subseteq f.risk_mask
    BY <2>2, <2>3, <2>4, <2>5, Zenon
  <2>7. Explains(u.infos, u)
    BY <1>0, <2>5, <2>6, MaskingExplains, Zenon
  <2>8. u.risk_mask \subseteq u.ip_mask[1] \intersect u.ip_mask[2]
    BY <1>0, <2>4, <2>5, <2>6, Zenon DEF Masked
  <2>9. u.host_risk_mask_evaluated => u.risk_mask \subseteq u.host_mask
    BY <1>0, <2>2, <2>3, <2>4, <2>5, Zenon DEF Masked
  <2>10. Masked(u)
    BY <2>5, <2>8, <2>9, Zenon DEF Masked
  <2> QED BY <2>5, <2>7, <2>10, Zenon DEF RiskInv
<1> QED BY <1>1, <1>2, Zenon

\* The invariant is about none of the other fields.
LEMMA OtherFields ==
    ASSUME NEW f, RiskInv(f), NEW u, RiskShape(u), u.infos = f.infos, u.risk = f.risk,
           u.risk_mask = f.risk_mask, u.ip_mask = f.ip_mask, u.host_mask = f.host_mask,
           u.host_risk_mask_evaluated = f.host_risk_mask_evaluated,
           u.ip_risk_mask_evaluated = f.ip_risk_mask_evaluated
    PROVE  RiskInv(u)
BY Zenon DEF RiskInv, Masked, Explains, HeldBack

\* ndpi_reconcile_protocols() keeps the invariant.
LEMMA ReconcileKeeps ==
    ASSUME NEW f, RiskInv(f), NEW remote \in RiskMessage \union {NoMessage},
           NEW unsafe \in BOOLEAN, NEW u, u = ndpi_reconcile_protocols(f, remote, unsafe)
    PROVE  RiskInv(u)
<1> DEFINE e == Evaluated(f)
           g == IF remote = NoMessage THEN e ELSE ndpi_set_risk(e, Desktop, remote)
<1>1. RiskInv(e)
  <2>1. CASE e = f
    BY <2>1, Zenon
  <2>2. CASE e # f
    <3> DEFINE x == ndpi_handle_risk_exceptions(f)
    <3>1. e = [x EXCEPT !.risk_shadow = x.risk]
      BY <2>2, Zenon DEF Evaluated
    <3>2. RiskInv(x)
      BY ExceptionsKeep, Zenon
    <3> HIDE DEF x, e
    <3>3. RiskShape(x)
      BY <3>2, Zenon DEF RiskInv
    <3>4. /\ RiskShape(e) /\ e.infos = x.infos /\ e.risk = x.risk
          /\ e.risk_mask = x.risk_mask /\ e.ip_mask = x.ip_mask /\ e.host_mask = x.host_mask
          /\ e.host_risk_mask_evaluated = x.host_risk_mask_evaluated
          /\ e.ip_risk_mask_evaluated = x.ip_risk_mask_evaluated
      BY <3>1, <3>3, Zenon DEF RiskShape
    <3> QED BY <3>2, <3>4, OtherFields, Zenon
  <2> QED BY <2>1, <2>2, Zenon
<1> HIDE DEF e
<1>2. RiskInv(g)
  BY <1>1, SetRiskKeeps, Zenon
<1>3. u = g \/ u = ndpi_set_risk(g, Unsafe, NoMessage)
  BY Zenon DEF ndpi_reconcile_protocols, e
<1> HIDE DEF g
<1>4. PICK m \in RiskMessage \union {NoMessage} : m = NoMessage
  BY Zenon
<1> QED BY <1>2, <1>3, <1>4, SetRiskKeeps, Zenon

\* A call counts itself.
LEMMA CallKeeps ==
    ASSUME NEW f, RiskInv(f), RiskCall(f)
    PROVE  RiskInv(k')
<1>1. k' = [f EXCEPT !.steps = @ + 1]
  BY Zenon DEF RiskCall
<1>2. RiskShape(f)
  BY Zenon DEF RiskInv
<1>3. /\ RiskShape(k') /\ k'.infos = f.infos /\ k'.risk = f.risk
      /\ k'.risk_mask = f.risk_mask /\ k'.ip_mask = f.ip_mask /\ k'.host_mask = f.host_mask
      /\ k'.host_risk_mask_evaluated = f.host_risk_mask_evaluated
      /\ k'.ip_risk_mask_evaluated = f.ip_risk_mask_evaluated
  BY <1>1, <1>2, Zenon DEF RiskShape
<1> QED BY <1>3, OtherFields, Zenon

\* A flow starts without risks.
LEMMA RiskInit_Inv ==
    ASSUME RiskInit
    PROVE  RiskInv(k)
BY DEF RiskInit, NewRisks, RiskInv, RiskShape, Masked, Explains

\* Every call on a flow keeps the invariant.
LEMMA RiskNext_Inv ==
    ASSUME RiskInv(k), [RiskNext]_k
    PROVE  RiskInv(k')
<1>1. CASE UNCHANGED k
  BY <1>1, Zenon
<1>2. CASE RiskSet
  BY <1>2, SetRiskKeeps, CallKeeps, Zenon DEF RiskSet
<1>3. CASE RiskUnset
  BY <1>3, UnsetRiskKeeps, CallKeeps, Zenon DEF RiskUnset
<1>4. CASE RiskName
  <2> DEFINE f == [k EXCEPT !.named = TRUE]
  <2>1. RiskInv(f)
    BY OtherFields DEF RiskInv, RiskShape
  <2> QED BY <1>4, <2>1, CallKeeps, Zenon DEF RiskName
<1>5. CASE RiskClassify
  BY <1>5, ReconcileKeeps, CallKeeps, Zenon DEF RiskClassify
<1>6. CASE RiskMonitor
  <2> DEFINE f == [k EXCEPT !.monitoring = TRUE]
  <2>1. RiskInv(f)
    BY OtherFields DEF RiskInv, RiskShape
  <2> QED BY <1>6, <2>1, CallKeeps, Zenon DEF RiskMonitor
<1> QED BY <1>1, <1>2, <1>3, <1>4, <1>5, <1>6, Zenon DEF RiskNext

\* However risks are raised, taken back and masked: no risk is reported that an exception of the
\* name or of an address holds back, and outside those every message belongs to a risk of the
\* flow that has no other (ndpi_set_risk, ndpi_unset_risk, ndpi_handle_risk_exceptions).
THEOREM MessagesExplainRisks == RiskSpec => []RisksExplained
<1>1. RiskInit => RiskInv(k)
  BY RiskInit_Inv, Zenon
<1>2. RiskInv(k) /\ [RiskNext]_k => RiskInv(k)'
  BY RiskNext_Inv, Zenon
<1>3. RiskInv(k) => RisksExplained
  BY Zenon DEF RiskInv, Masked, Explains, HeldBack, RisksExplained
<1> QED BY <1>1, <1>2, <1>3, PTL DEF RiskSpec
=============================================================================
