----------------------------- MODULE ReaderFlows -----------------------------
(***************************************************************************)
(* The flow table of one thread of ndpiReader (struct ndpi_workflow): it   *)
(* finds or makes the flow of each packet, hands the packet to the library *)
(* until the flow is decided, removes idle flows during a live capture,    *)
(* splits the report of a long capture, and reports at the end.            *)
(*                                                                         *)
(* A packet is its key (VLAN, protocol, two endpoints) and its time, or    *)
(* one that the decoding refuses.  Byte counts, inter-arrival times, bins  *)
(* and the metadata that are copied out of the library are left out, and   *)
(* so are the other threads, whose tables are their own.                   *)
(***************************************************************************)
EXTENDS Integers, FiniteSets

CONSTANTS ReaderKey,                 \* the keys of packets
          ReaderOptions,             \* the command lines
          num_roots,                 \* prefs.num_roots
          max_ndpi_flows,            \* prefs.max_ndpi_flows
          MAX_IDLE_TIME,
          IDLE_SCAN_PERIOD,
          IDLE_SCAN_BUDGET,
          max_num_packets_per_flow,  \* also the length of the arrays of struct ndpi_entropy
          max_num_dissected_pkts,    \* of a flow, by the library; 0: no limit
          ReaderU32,                 \* 2^32 in the code
          ReaderMaxTime,             \* bounds the times of packets
          ReaderMaxPackets           \* bounds the packets of a capture

ASSUME ReaderAssumption ==
    /\ ReaderKey \subseteq [vlan : Nat, proto : Nat, src : Nat, dst : Nat]
    /\ num_roots \in Nat \ {0} /\ max_num_packets_per_flow \in Nat \ {0}
    /\ MAX_IDLE_TIME \in Nat /\ IDLE_SCAN_BUDGET \in Nat
    /\ ReaderMaxTime \in Nat /\ ReaderMaxTime < ReaderU32

VARIABLE reader

IPPROTO_TCP == 6

IPPROTO_UDP == 17

\* The flow a call returns when it has none.
NoFlow == [proto |-> 0]

\* What ndpi_detection_process_packet() may answer to the next packet of a flow; a flow that
\* is monitored stays so.  INSPECTING stands for PARTIAL as well, which the reader does not
\* tell apart, and ndpi_flow is "freed" once the library's struct was released.
LibraryAnswers(state) ==
    IF state = "INSPECTING" THEN {"INSPECTING", "MONITORING", "CLASSIFIED"} ELSE {state}

\* A verdict may be a guess when the library closes the flow; one that is monitored has its verdict.
Guesses(state) == IF state = "MONITORING" THEN {FALSE} ELSE BOOLEAN

ZeroStats == [raw_packet_count |-> 0, ip_packet_count |-> 0, ndpi_flow_count |-> 0,
              protocol_counter |-> 0, protocol_flows |-> 0, guessed_flow_protocols |-> 0]

AddStats(a, b) == [n \in DOMAIN a |-> a[n] + b[n]]

NewReader(options) ==
    [options |-> options, pc |-> "wait", flows |-> {}, handed |-> NoFlow,
     last_time |-> 0, last_idle_scan_time |-> 0, idle_scan_idx |-> 0,
     pcap_start |-> 0, pcap_end |-> 0,
     stats |-> ZeroStats, cumulative_stats |-> ZeroStats, seen |-> 0]

ReaderInit == \E options \in ReaderOptions : reader = NewReader(options)

-----------------------------------------------------------------------------
\* The table.

Reversed(key) == [key EXCEPT !.src = key.dst, !.dst = key.src]

hashval(key) == key.proto + key.src + key.dst

Root(key) == hashval(key) % num_roots

\* The node that ndpi_workflow_node_cmp() finds equal to a key.
ndpi_tfind(flows, key) == {f \in flows : f.key = key}

ndpi_free_flow_info_half(f) == [f EXCEPT !.ndpi_flow = "freed"]

NewReaderFlow(key) ==
    [key |-> key, last_seen_ms |-> 0, packets |-> 0, detection_completed |-> 0,
     ndpi_flow |-> "INSPECTING", src2dst_pkt_count |-> 0, dst2src_pkt_count |-> 0]

\* One more packet in the arrays of one direction, while they have room.
CountEntropy(f, forward) ==
    LET n == IF forward THEN f.src2dst_pkt_count ELSE f.dst2src_pkt_count
        m == IF n < max_num_packets_per_flow THEN n + 1 ELSE n
    IN  IF forward THEN [f EXCEPT !.src2dst_pkt_count = m]
                   ELSE [f EXCEPT !.dst2src_pkt_count = m]

\* The node of a packet, in its own or in the other direction; a new one if there is none.
\* "failed" is the allocation that fails; the one of the statistics comes after the flow was counted.
get_ndpi_flow_info(w, key, failed) ==
    LET back    == ndpi_tfind(w.flows, key) = {}
        found   == IF back THEN ndpi_tfind(w.flows, Reversed(key)) ELSE ndpi_tfind(w.flows, key)
        with    == w.options.enable_flow_stats
        Entropy(f, forward) == IF with THEN CountEntropy(f, forward) ELSE f
        refused == [w |-> w, flow |-> NoFlow]
        counted == [w EXCEPT !.stats.ndpi_flow_count = @ + 1]
    IN  IF found # {}
        THEN [w |-> w, flow |-> Entropy(CHOOSE f \in found : TRUE, ~back)]
        ELSE IF w.stats.ndpi_flow_count = max_ndpi_flows \/ failed = "flow" THEN refused
        ELSE IF with /\ failed = "entropy" THEN [w |-> counted, flow |-> NoFlow]
        ELSE [w |-> counted, flow |-> Entropy(NewReaderFlow(key), TRUE)]

\* The flow's struct is given back once it is decided and reported; "exported" is FALSE when flow2json() fails.
process_ndpi_collected_info(f, exported) ==
    IF f.ndpi_flow # "freed" /\ exported /\ f.detection_completed # 0
    THEN ndpi_free_flow_info_half(f) ELSE f

ndpi_clear_entropy_stats(f) ==
    IF f.src2dst_pkt_count + f.dst2src_pkt_count = max_num_packets_per_flow
    THEN [f EXCEPT !.src2dst_pkt_count = 0, !.dst2src_pkt_count = 0] ELSE f

\* Wrong on purpose: the time of the first packet is kept.
CountReaderPacket_First(f, time) ==
    [f EXCEPT !.packets = @ + 1, !.last_seen_ms = IF f.packets = 0 THEN time ELSE @]

CountReaderPacket(f, time) == [f EXCEPT !.packets = @ + 1, !.last_seen_ms = time]

\* The library looks at the packet; "answer" is the state it returns.
Inspect(w, f, answer, guessed, exported) ==
    LET enough == /\ f.key.proto \in {IPPROTO_TCP, IPPROTO_UDP} /\ max_num_dissected_pkts > 0
                  /\ f.packets >= max_num_dissected_pkts
        ends   == answer = "CLASSIFIED" \/ enough
        \* ndpi_detection_giveup()
        given  == IF answer = "INSPECTING" THEN "CLASSIFIED" ELSE answer
        done   == process_ndpi_collected_info(
                      [f EXCEPT !.ndpi_flow = given, !.detection_completed = 1], exported)
    IN  IF ends
        THEN [w |-> [w EXCEPT !.stats.guessed_flow_protocols = @ + IF guessed THEN 1 ELSE 0],
              flow |-> done]
        ELSE [w |-> w, flow |-> [f EXCEPT !.ndpi_flow = answer]]

\* The table with one node changed or added.
Store(w, f) ==
    [w EXCEPT !.flows = {g \in @ : g.key # f.key} \union {f}, !.handed = f.key]

\* What follows once the flow of the packet is known.
Process(w, f, answer, guessed, exported) ==
    LET counted == [w EXCEPT !.stats.ip_packet_count = @ + 1]
        g       == ndpi_clear_entropy_stats(CountReaderPacket(f, w.last_time))
        r       == Inspect(counted, g, answer, guessed, exported)
    IN  IF f.detection_completed # 0 THEN Store(counted, g) ELSE Store(r.w, r.flow)

\* The answers of the library that a packet of this flow may get, and whether they are guesses.
Answers(f) ==
    IF f = NoFlow THEN {<<"none", FALSE>>}
    ELSE IF f.detection_completed # 0 THEN {<<"none", FALSE>>}
    ELSE {a \in LibraryAnswers(f.ndpi_flow) \X BOOLEAN : a[2] \in Guesses(a[1])}

\* The time of a packet never goes back.
PacketTime(w, time) == IF w.last_time > time THEN w.last_time ELSE time

\* What is done for every packet, before it is decoded.
Arrive(w, time) ==
    [w EXCEPT !.stats.raw_packet_count = @ + 1, !.last_time = PacketTime(w, time),
              !.handed = NoFlow, !.pc = "processed", !.seen = @ + 1,
              !.pcap_start = IF @ = 0 THEN time ELSE @, !.pcap_end = time]

\* A packet that is no IP, too short or a fragment.
SkipPacket(time) ==
    /\ reader.pc = "wait" /\ reader.seen < ReaderMaxPackets
    /\ reader' = Arrive(reader, time)

\* A packet with a key.
packet_processing(time, key, failed) ==
    /\ reader.pc = "wait" /\ reader.seen < ReaderMaxPackets
    /\ LET r == get_ndpi_flow_info(Arrive(reader, time), key, failed)
       IN  \E a \in Answers(r.flow), exported \in BOOLEAN :
               reader' = IF r.flow = NoFlow THEN r.w
                         ELSE Process(r.w, r.flow, a[1], a[2], exported)

-----------------------------------------------------------------------------
\* The report of a set of flows, of which "guessed" are guesses of ndpi_detection_giveup().
UndecidedFlow(f) == f.detection_completed = 0 /\ f.ndpi_flow # "freed"

Packets(flows) == Cardinality(UNION {{f} \X (1..f.packets) : f \in flows})

node_proto_guess_walker(w, visited, guessed) ==
    [w EXCEPT !.stats.guessed_flow_protocols = @ + Cardinality(guessed),
              !.stats.protocol_counter = @ + Packets(visited),
              !.stats.protocol_flows = @ + Cardinality(visited)]

\* Which of them may be guesses.
GuessedIn(visited) ==
    SUBSET {f \in visited : UndecidedFlow(f) /\ f.ndpi_flow # "MONITORING"}

\* The idle flows of the root whose turn it is.
IdleFlows(w) ==
    {f \in w.flows : /\ Root(f.key) = w.idle_scan_idx
                     /\ f.last_seen_ms + MAX_IDLE_TIME < w.last_time}

\* Those a walk with a budget takes.
TakenByScan(w) ==
    LET idle == IdleFlows(w)
    IN  IF Cardinality(idle) <= IDLE_SCAN_BUDGET THEN {idle}
        ELSE {taken \in SUBSET idle : Cardinality(taken) = IDLE_SCAN_BUDGET}

\* Wrong on purpose: the flows are removed without being counted.
node_idle_scan_walker_Silent(w, idle, guessed) == [w EXCEPT !.flows = @ \ idle]

\* They are reported, released and then deleted from the table.
node_idle_scan_walker(w, idle, guessed) ==
    [node_proto_guess_walker(w, idle, guessed) EXCEPT !.flows = @ \ idle]

ScanDue == /\ reader.options.live_capture
           /\ reader.last_idle_scan_time + IDLE_SCAN_PERIOD < reader.last_time

\* The part of ndpi_process_packet() between the packet and the use of its flow.
IdleScan ==
    /\ reader.pc = "processed" /\ ScanDue
    /\ \E idle \in TakenByScan(reader) : \E guessed \in GuessedIn(idle) :
           reader' = [node_idle_scan_walker(reader, idle, guessed) EXCEPT
                          !.pc = "scanned",
                          !.idle_scan_idx = (@ + 1) % num_roots,
                          !.last_idle_scan_time = reader.last_time]

NoScan == /\ reader.pc = "processed" /\ ~ScanDue
          /\ reader' = [reader EXCEPT !.pc = "scanned"]

\* The metadata of a decided flow are exported with one packet.
Exported(w) ==
    IF ~w.options.extcap THEN w
    ELSE [w EXCEPT !.flows = {IF f.key = w.handed /\ f.detection_completed = 1
                              THEN [f EXCEPT !.detection_completed = 2] ELSE f : f \in @}]

\* Every flow of the table is reported and the totals are added up.
printResults(w, guessed) ==
    LET r == node_proto_guess_walker(w, w.flows, guessed)
    IN  IF w.stats.raw_packet_count = 0 THEN w
        ELSE [r EXCEPT !.cumulative_stats = AddStats(@, r.stats)]

\* After an analysis of the given duration the table and the counters start again.
SplitDue(w) ==
    (w.pcap_end - w.pcap_start) % ReaderU32 > w.options.analysis_duration

\* The rest of ndpi_process_packet().
EndPacket ==
    /\ reader.pc = "scanned" /\ ~SplitDue(reader)
    /\ reader' = [Exported(reader) EXCEPT !.pc = "wait", !.handed = NoFlow]

Split ==
    /\ reader.pc = "scanned" /\ SplitDue(reader)
    /\ \E guessed \in GuessedIn(reader.flows) :
           reader' = [printResults(Exported(reader), guessed) EXCEPT
                          !.pc = "wait", !.handed = NoFlow, !.flows = {},
                          !.stats = ZeroStats, !.pcap_start = reader.pcap_end]

\* The end of the capture: the last report, and the workflow is freed.
Finish ==
    /\ reader.pc = "wait"
    /\ \E guessed \in GuessedIn(reader.flows) :
           reader' = [printResults(reader, guessed) EXCEPT
                          !.pc = "done", !.flows = {}, !.stats = ZeroStats]

ReaderNext ==
    \/ \E time \in 1..ReaderMaxTime :
           \/ SkipPacket(time)
           \/ \E key \in ReaderKey, failed \in {"nothing", "flow", "entropy"} :
                  packet_processing(time, key, failed)
    \/ IdleScan \/ NoScan
    \/ EndPacket \/ Split
    \/ Finish

ReaderSpec == ReaderInit /\ [][ReaderNext]_reader

-----------------------------------------------------------------------------
\* Every packet that found a flow is counted in exactly one report: in the one of the idle
\* scan, of the split or of the end that removed its flow; and no flow is counted as guessed
\* twice, on completion and again by the walk (node_proto_guess_walker, packet_processing).
ReportsAddUp ==
    /\ reader.stats.ip_packet_count = reader.stats.protocol_counter + Packets(reader.flows)
    /\ reader.cumulative_stats.ip_packet_count = reader.cumulative_stats.protocol_counter
    /\ reader.cumulative_stats.guessed_flow_protocols <= reader.cumulative_stats.protocol_flows

\* A conversation has one node, whichever side spoke first; the flow that ndpi_process_packet()
\* was handed is still in the table when its metadata are exported, after the idle scan; a flow
\* still inspected has its library struct; and the arrays of struct ndpi_entropy have room.
FlowsUsable ==
    /\ \A f, g \in reader.flows : g.key \in {f.key, Reversed(f.key)} => g = f
    /\ reader.handed # NoFlow => ndpi_tfind(reader.flows, reader.handed) # {}
    /\ \A f \in reader.flows :
           /\ f.detection_completed = 0 => f.ndpi_flow # "freed"
           /\ f.src2dst_pkt_count + f.dst2src_pkt_count < max_num_packets_per_flow
=============================================================================
