---------------------------- MODULE DissectorBase ----------------------------
(***************************************************************************)
(* What the dissectors under src/lib/protocols share: the part of a flow   *)
(* they read and write, a packet as they see it and the verdicts they can  *)
(* reach.  A dissector is an operator ndpi_search_X(f, p) on the flow f    *)
(* and the packet p that returns the flow after the call.                  *)
(*                                                                         *)
(* The bytes of a payload are abstracted to the test the dissector makes   *)
(* on them, p.sig:                                                         *)
(*   "short"    the payload fails the length test that comes first;        *)
(*   "request"  it is the form the dissector looks for, or the first of    *)
(*              two forms it expects one after the other;                  *)
(*   "reply"    it is the second form, the answer to the first;            *)
(*   "data"     it is well formed but settles nothing by itself (the       *)
(*              comment of a dissector that uses it says which form it is);*)
(*   "none"     it is none of these.                                       *)
(***************************************************************************)
EXTENDS Naturals, FiniteSets

CONSTANT MaxPackets   \* bound: where the packet counters of a flow stop

ASSUME MaxPacketsAssumption == MaxPackets \in Nat \ {0}

Direction == {0, 1}

Form == {"none", "short", "request", "reply", "data"}

\* A packet with payload: packet->packet_direction and what the payload is.
Packet == [dir : Direction, sig : Form]

\* A packet of a line protocol: two more forms (a line with credentials, one
\* that asks for TLS), and whether the payload ends in CR LF.
TextForm == Form \union {"login", "starttls"}

TextPacket == [dir : Direction, sig : TextForm, crlf : BOOLEAN]

Forms == {"request", "reply", "data", "login", "starttls"}

Other(dir) == 1 - dir

\* What a dialogue can have shown: the fields of ftp_imap_pop_smtp that are
\* conditions, and the operation codes OpenVPN gathers.
AuthItem == {"username", "password", "starttls", "auth_found", "auth_tls",
             "auth_done"} \union Form

Confidence == {"DPI", "DPI_PARTIAL", "DPI_CACHE", "DPI_AGGRESSIVE", "MATCH_BY_IP"}

\* detected_protocol_stack[0] before the call, as far as a dissector reads it.
Master == {"UNKNOWN", "HTTP", "DCERPC"}

Cache == {"mining", "ookla", "tinc", "bittorrent", "fpc_dns"}

\* A flow as its dissector sees it.  n, nd and processed are packet_counter,
\* packet_direction_counter and num_processed_pkts; st and aux are the fields
\* of the flow that belong to the dissector (its stage, a second counter),
\* side the ones it keeps for each direction, auth what the line protocols
\* note in ftp_imap_pop_smtp;
\* client is client_packet_direction.  port says that the flow has a port or
\* an address the dissector asks for, byip that guessed_protocol_id_by_ip is
\* the protocol of the dissector (or that the LRU cache it asks knows the
\* flow), begin is ndpi_seen_flow_beginning; opt is a condition from outside,
\* an option that is off by default or the state of another dissector.
\* fed is the set of shared LRU caches the dissector has added the flow to.
\* Three fields record the past for the properties: seen, some payload so far
\* had one of the dissector's forms; cut, a stage did not fit its bit field;
\* wrote, the union flow->protos was written.
NewFlow(l4, port, begin, byip, opt, master, client) ==
    [l4 |-> l4, port |-> port, begin |-> begin, byip |-> byip, opt |-> opt,
     stack |-> master, client |-> client, n |-> 0, nd |-> [d \in Direction |-> 0], processed |-> 0,
     st |-> 0, aux |-> 0, side |-> [d \in Direction |-> 0], auth |-> {},
     found |-> "no", excluded |-> FALSE, extra |-> FALSE,
     fed |-> {}, seen |-> FALSE, cut |-> FALSE, wrote |-> FALSE]

NewFlows ==
    {NewFlow(l4, port, begin, byip, opt, master, client) :
        l4 \in {"TCP", "UDP", "OTHER"}, port \in BOOLEAN, begin \in BOOLEAN,
        byip \in BOOLEAN, opt \in BOOLEAN, master \in Master, client \in Direction}

UpTo(k, max) == IF k < max THEN k + 1 ELSE k

\* ndpi_connection_tracking counts the packet before any dissector sees it.
Counted(f, p) ==
    [f EXCEPT !.n = UpTo(@, MaxPackets), !.nd[p.dir] = UpTo(@, MaxPackets),
              !.processed = UpTo(@, MaxPackets),
              !.seen = @ \/ p.sig \in Forms]

\* A packet without payload only counts as processed.
CountedBare(f) == [f EXCEPT !.processed = UpTo(@, MaxPackets)]
-----------------------------------------------------------------------------
(* Reading a packet.                                                       *)

Recognised(p) == p.sig = "request"

current_pkt_from_client_to_server(f, p) == p.dir = f.client

current_pkt_from_server_to_client(f, p) == p.dir # f.client

BothDirections(f) == \A d \in Direction : f.nd[d] > 0
-----------------------------------------------------------------------------
(* Ending a call.                                                          *)

\* ndpi_set_detected_protocol with the protocol of the dissector.
DetectedBy(f, confidence) == [f EXCEPT !.found = confidence]

Detect(f) == DetectedBy(f, "DPI")

\* extra_packets_func and max_extra_packets_to_check are set.
AskForExtra(f) == [f EXCEPT !.extra = TRUE]

DetectExtra(f) == AskForExtra(Detect(f))

\* NDPI_EXCLUDE_DISSECTOR.
Exclude(f) == [f EXCEPT !.excluded = TRUE]

\* A return that neither detects nor excludes: the next packet is awaited.
Wait(f) == f

\* A stage stored in a bit field of the given width.
SetStage(f, stage, bits) ==
    [f EXCEPT !.st = stage % (2^bits), !.cut = @ \/ stage >= 2^bits]

\* The same for the second field.
SetAux(f, value, bits) ==
    [f EXCEPT !.aux = value % (2^bits), !.cut = @ \/ value >= 2^bits]

\* A counter of one direction.
SetSide(f, dir, value) == [f EXCEPT !.side[dir] = value]

\* Something noted about the credentials or the encryption of the dialogue.
Note(f, item) == [f EXCEPT !.auth = @ \union {item}]

Forget(f, item) == [f EXCEPT !.auth = @ \ {item}]

\* The payload is the dissector's although p.sig has another use.
Saw(f) == [f EXCEPT !.seen = TRUE]

\* A write to the union flow->protos.
WriteProtos(f) == [f EXCEPT !.wrote = TRUE]

\* ndpi_lru_add_to_cache on a cache shared with other flows.
AddToCache(f, cache) == [f EXCEPT !.fed = @ \union {cache}]

\* The ending of most dissectors: the packet decides.
DetectOrExclude(f, match) == IF match THEN Detect(f) ELSE Exclude(f)

\* The ending of those that allow a few packets that do not match.
DetectOrGiveUp(f, match, late) ==
    IF match THEN Detect(f) ELSE IF late THEN Exclude(f) ELSE Wait(f)

ExcludeIf(f, late) == IF late THEN Exclude(f) ELSE Wait(f)

Undecided(f) == f.found = "no" /\ ~f.excluded
==============================================================================
