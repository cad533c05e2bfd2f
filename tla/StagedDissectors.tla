--------------------------- MODULE StagedDissectors ---------------------------
(***************************************************************************)
(* The dissectors that follow a dialogue: what they have seen is kept in a *)
(* stage of the flow, often as 1 + packet_direction, so that the answer is *)
(* accepted from the other side only (2 - packet_direction).  Each         *)
(* operator names the field of flow->l4 that f.st stands for.              *)
(***************************************************************************)
EXTENDS DissectorBase

(* Request and answer.                                                     *)

\* Wrong on purpose: the answer is accepted from either side of direction 0.
ndpi_search_vnc_tcp_OneSided(f, p) ==
    LET vnc_stage == f.st
    IN  IF vnc_stage = 0 /\ Recognised(p)
        THEN SetStage(f, 1 + p.dir, 2)
        ELSE DetectOrExclude(f, vnc_stage = 1 /\ Recognised(p))

ndpi_search_vnc_tcp(f, p) ==
    LET vnc_stage == f.st
    IN  IF vnc_stage = 0 /\ Recognised(p)
        THEN SetStage(f, 1 + p.dir, 2)
        ELSE DetectOrExclude(f, vnc_stage = 2 - p.dir /\ Recognised(p))

\* "request" is the greeting, "reply" AUTHINFO, which stores a stage that is
\* not read again, "data" MODE READER or HELP.
ndpi_search_usenet_tcp(f, p) ==
    LET usenet_stage == f.st
    IN  IF usenet_stage = 0 /\ p.sig = "request"
        THEN SetStage(f, 1 + p.dir, 2)
        ELSE IF usenet_stage # 2 - p.dir THEN Exclude(f)
        ELSE IF p.sig = "reply" THEN Detect(SetStage(f, 3 + p.dir, 2))
        ELSE DetectOrExclude(f, p.sig = "data")

\* The three openings: encryption ("request"), startup ("data"), GSS ("short").
ndpi_search_postgres_tcp(f, p) ==
    LET postgres_stage == f.st
        Opening == [s \in Form |-> IF s = "request" THEN 1
                                   ELSE IF s = "data" THEN 3
                                   ELSE IF s = "short" THEN 5
                                   ELSE 0]
    IN  IF postgres_stage = 0 /\ Opening[p.sig] # 0
        THEN SetStage(f, Opening[p.sig] + p.dir, 3)
        ELSE DetectOrExclude(f, /\ postgres_stage \in {2 - p.dir, 4 - p.dir, 6 - p.dir}
                                /\ p.sig = "reply")

\* "data" is the challenge that either side may send.
ndpi_search_radmin(f, p) ==
    LET radmin_stage == f.st
    IN  IF \/ p.sig = "request" /\ current_pkt_from_client_to_server(f, p) /\ radmin_stage = 0
           \/ p.sig = "data" /\ radmin_stage = 0
        THEN SetStage(f, 1, 1)
        ELSE DetectOrExclude(f, /\ radmin_stage = 1
                                /\ \/ p.sig = "data"
                                   \/ p.sig = "reply" /\ current_pkt_from_server_to_client(f, p))

\* "reply" is the answer with the identifier of the request.
ndpi_search_mumble(f, p) ==
    LET mumble_stage == f.st
    IN  IF current_pkt_from_client_to_server(f, p) /\ p.sig = "request"
        THEN SetStage(f, 1, 1)
        ELSE DetectOrExclude(f, mumble_stage = 1 /\ p.sig = "reply")

\* "data" is the form that decides alone.
ndpi_search_lolwildrift(f, p) ==
    LET lolwildrift_stage == f.st
    IN  IF p.sig = "request"
        THEN SetStage(f, 1, 1)
        ELSE DetectOrExclude(f, p.sig = "data" \/ (lolwildrift_stage = 1 /\ p.sig = "reply"))

\* The stage has a single bit: a first packet of direction 1 stores 0.
ndpi_search_epicgames(f, p) ==
    LET epicgames_stage == f.st
    IN  IF f.n = 1
        THEN IF p.sig = "request" THEN SetStage(f, 1 + p.dir, 1) ELSE Exclude(f)
        ELSE IF epicgames_stage = 2 - p.dir
        THEN DetectOrExclude(f, p.sig = "reply")
        ELSE ExcludeIf(f, f.n >= 4)

\* HI, HELLO on the port of the server; the address is remembered.
ndpi_search_ookla(f, p) ==
    LET ookla_stage == f.st
    IN  IF f.port /\ f.n = 1 /\ p.sig = "request" THEN SetStage(f, 1, 1)
        ELSE IF f.port /\ f.n = 2 /\ ookla_stage = 1 /\ p.sig = "reply"
        THEN AddToCache(Detect(f), "ookla")
        ELSE Exclude(f)

\* rtmp_client_buffer_len in f.aux: 0 below 1537 bytes, 1 exactly, 2 above.
\* From the side that began, "data" completes the 1537 bytes and "reply" goes
\* beyond them; from the other side "reply" starts with the version byte.
ndpi_search_rtmp(f, p) ==
    LET rtmp_stage == f.st
        Length == IF p.sig = "data" THEN 1 ELSE IF p.sig = "reply" THEN 2 ELSE 0
    IN  IF ~f.begin THEN Exclude(f)
        ELSE IF rtmp_stage = 0
        THEN IF p.sig \in {"request", "data", "reply"}
             THEN SetAux(SetStage(f, p.dir + 1, 2), Length, 16)
             ELSE Exclude(f)
        ELSE IF rtmp_stage = p.dir + 1
        THEN IF f.aux = 0 /\ Length < 2 THEN SetAux(f, Length, 16) ELSE Exclude(f)
        ELSE DetectOrExclude(f, p.sig = "reply" /\ f.aux = 1)

\* f.st and f.aux are socks4_stage and socks5_stage.  "request" and "reply"
\* belong to version 4, "data" (greeting) and "short" (answer) to version 5.
ndpi_check_socks4(f, p) ==
    IF f.st = 0 THEN IF p.sig = "request" THEN SetStage(f, p.dir + 1, 2) ELSE Wait(f)
    ELSE IF f.st = p.dir + 1 THEN Wait(f)
    ELSE IF p.sig = "reply" THEN Detect(f)
    ELSE SetStage(f, 0, 2)

ndpi_check_socks5(f, p) ==
    IF f.aux = 0 THEN IF p.sig = "data" THEN SetAux(f, p.dir + 1, 2) ELSE Wait(f)
    ELSE IF f.aux = p.dir + 1 THEN Wait(f)
    ELSE IF p.sig = "short" THEN Detect(f)
    ELSE SetAux(f, 0, 2)

ndpi_search_socks(f, p) ==
    LET g == ndpi_check_socks4(f, p)
    IN  IF f.n >= 10 THEN Exclude(f)
        ELSE IF g.found # "no" THEN g
        ELSE ndpi_check_socks5(g, p)
-----------------------------------------------------------------------------
(* A form that is counted.                                                 *)

\* hcl_notes_packet_id counts the calls.
ndpi_search_hcl_notes(f, p) ==
    LET g == SetStage(f, f.st + 1, 8)
    IN  IF g.st = 1 /\ f.begin
        THEN IF p.sig = "short" THEN Exclude(g)
             ELSE IF Recognised(p) THEN Detect(g)
             ELSE Wait(g)
        ELSE ExcludeIf(g, g.st > 3)

ndpi_search_nest_log_sink(f, p) ==
    LET g == IF Recognised(p) THEN SetStage(f, f.st + 1, 8) ELSE f
    IN  IF p.sig = "short" \/ ~f.port THEN Exclude(f)
        ELSE IF g.st = 3 THEN Detect(g)
        ELSE Wait(g)

ndpi_search_memcached(f, p) ==
    LET memcached_matches == IF Recognised(p) THEN f.st + 1 ELSE f.st
    IN  IF p.sig = "short"
        THEN Exclude(f)
        ELSE DetectOrGiveUp(SetStage(f, memcached_matches, 8), memcached_matches >= 2, f.n > 5)

\* "data" carries the number of the packet before it, or the next one.
ndpi_search_eaq(f, p) ==
    LET eaq_pkt_id == f.st
    IN  IF f.port /\ (p.sig = "data" \/ (eaq_pkt_id = 0 /\ p.sig = "request"))
        THEN IF eaq_pkt_id + 1 = 4 THEN Detect(SetStage(f, 4, 8)) ELSE SetStage(f, eaq_pkt_id + 1, 8)
        ELSE Exclude(f)

ndpi_search_xbox(f, p) ==
    LET xbox_stage == f.st
    IN  IF p.sig = "request" THEN Detect(f)
        ELSE IF f.port /\ p.sig = "data"
        THEN IF xbox_stage = 1 THEN Detect(f) ELSE SetStage(f, xbox_stage + 1, 1)
        ELSE ExcludeIf(f, f.n >= 5)

\* "reply" is the second form of TCP, counted after the first.
ndpi_search_teamview(f, p) ==
    LET Advance == SetStage(f, f.st + 1, 3)
    IN  IF p.sig = "request" THEN IF Advance.st = 4 \/ f.port THEN Detect(Advance) ELSE Advance
        ELSE IF f.l4 = "TCP" /\ p.sig # "short" /\ f.st > 0
        THEN IF p.sig # "reply" THEN Wait(f)
             ELSE IF Advance.st = 4 THEN Detect(Advance)
             ELSE Advance
        ELSE Exclude(f)

\* "data" has fewer sequences than expected.
ndpi_search_z3950(f, p) ==
    LET z3950_stage == f.st
    IN  IF f.n > 8 \/ p.sig \in {"short", "none"} THEN Exclude(f)
        ELSE IF p.sig = "data" THEN Wait(f)
        ELSE IF z3950_stage = 3 THEN DetectOrExclude(f, BothDirections(f))
        ELSE SetStage(f, z3950_stage + 1, 2)

\* "request" opens a transfer, "data" is the next block, acknowledgment or a
\* valid error, "short" one out of sequence, "reply" an acknowledged option.
ndpi_search_tftp(f, p) ==
    LET tftp_stage == f.st
        Step(g) == IF tftp_stage < 3 THEN SetStage(g, tftp_stage + 1, 2) ELSE Detect(g)
    IN  CASE p.sig = "none" -> Exclude(f)
          [] p.sig = "request" -> Detect(WriteProtos(f))
          [] p.sig = "short" -> Wait(f)
          [] p.sig = "reply" -> Step(Detect(f))
          [] p.sig = "data" -> Step(f)

\* TCP: four messages in order, after which the endpoints are remembered.  UDP:
\* the cache is asked ("request" for a hit) and the dissector ends either way.
ndpi_search_tinc(f, p) ==
    LET tinc_state == f.st
    IN  IF f.l4 = "UDP"
        THEN Exclude(IF Recognised(p) THEN DetectedBy(f, "DPI_CACHE") ELSE f)
        ELSE IF \/ tinc_state \in {0, 1} /\ p.sig = "request"
                \/ tinc_state = 2 /\ p.sig = "reply"
        THEN SetStage(f, tinc_state + 1, 8)
        ELSE IF tinc_state = 3 /\ p.sig = "reply"
        THEN Detect(AddToCache(SetStage(f, 4, 8), "tinc"))
        ELSE Exclude(f)

\* NEW and OLD may arrive in pieces: "data" is a piece, "request" the last one;
\* "reply" is the very old form, which only begins a flow.
ndpi_search_whatsapp(f, p) ==
    LET wa_matched_so_far == f.st
    IN  IF f.n > 3 THEN Exclude(f)
        ELSE IF p.sig = "data" THEN SetStage(f, 1, 8)
        ELSE DetectOrExclude(f, p.sig = "request" \/ (p.sig = "reply" /\ wa_matched_so_far = 0))

\* imo_last_one_byte_pkt; "data" is one byte equal to the last one kept,
\* "reply" one other byte.
ndpi_search_imo(f, p) ==
    IF p.sig \in {"data", "reply"}
    THEN IF f.st = 1 /\ p.sig = "data" THEN Detect(f) ELSE SetStage(f, 1, 1)
    ELSE IF p.sig = "request" THEN Detect(f)
    ELSE IF f.processed > 5 THEN Exclude(f)
    ELSE SetStage(f, 0, 1)

\* "data" is the XML declaration.  The verdict of the fourth packet does not
\* return, and the declaration is looked for after it.
ndpi_search_soap(f, p) ==
    LET soap_stage == f.st
        g == IF f.n <= 3 THEN f ELSE DetectOrExclude(f, soap_stage = 1)
    IN  IF p.sig = "request" THEN Detect(f)
        ELSE IF soap_stage = 0 /\ p.sig = "data" THEN SetStage(g, 1, 1)
        ELSE g

\* "request" has a line that starts with ice-, "data" is SOURCE without lines,
\* "reply" has the server line of Icecast.
ndpi_search_icecast_tcp(f, p) ==
    LET icecast_stage == f.st
    IN  IF p.sig = "request" THEN Detect(f)
        ELSE IF icecast_stage = 0 /\ p.sig = "data" THEN SetStage(f, 1, 1)
        ELSE IF current_pkt_from_client_to_server(f, p) /\ f.n < 10 THEN Wait(f)
        ELSE DetectOrExclude(f, current_pkt_from_server_to_client(f, p) /\ p.sig = "reply")
-----------------------------------------------------------------------------
(* Both sides are compared.                                                *)

\* line_pkts in f.side; f.aux says that the two first packets differ in the
\* byte compared ("data" for the second of them).  Later, "data" continues the
\* count of its side and "reply" is RTP or RTCP.
ndpi_search_line(f, p) ==
    LET line_pkts == f.side
        Continued == SetSide(f, p.dir, UpTo(line_pkts[p.dir], MaxPackets))
        First == IF line_pkts[Other(p.dir)] > 0 /\ p.sig = "data" THEN SetAux(Continued, 1, 8) ELSE Continued
    IN  IF f.byip /\ p.sig = "request" THEN Detect(f)
        ELSE IF p.sig = "short" THEN Exclude(f)
        ELSE IF line_pkts[p.dir] = 0 THEN First
        ELSE IF p.sig = "reply" THEN ExcludeIf(f, f.n >= 10)
        ELSE IF p.sig # "data" THEN Exclude(f)
        ELSE IF \A d \in Direction : Continued.side[d] >= 4
        THEN DetectOrExclude(Continued, f.aux = 1)
        ELSE Continued

\* "request" has the connection identifiers that were stored, "reply" others.
ndpi_search_rx(f, p) ==
    IF p.sig \notin {"request", "reply"} THEN Exclude(f)
    ELSE IF f.nd[Other(p.dir)] # 0 THEN DetectOrExclude(f, p.sig = "request")
    ELSE Wait(f)

\* UDP: "short" is the zero payload of the first packets, "request" carries the
\* values that are stored, "reply" different ones.
ndpi_search_hamachi(f, p) ==
    LET hamachi_stage == f.st
    IN  IF f.l4 = "TCP" THEN DetectOrExclude(f, Recognised(p))
        ELSE IF p.sig = "short" THEN ExcludeIf(f, f.n > 2)
        ELSE IF p.sig \notin {"request", "reply"} THEN Exclude(f)
        ELSE IF hamachi_stage = 0 THEN SetStage(f, 1 + p.dir, 2)
        ELSE IF hamachi_stage = 3 THEN DetectOrExclude(f, p.sig = "request")
        ELSE IF hamachi_stage = 1 + p.dir THEN ExcludeIf(f, p.sig = "reply")
        ELSE IF p.sig = "reply" THEN SetStage(f, 3, 2)
        ELSE Exclude(f)

\* TCP: "request" asks for the standard protocol, "data" for TLS, whose
\* handshake is then awaited; f.st is rdp_protocol_detected.
search_rdp_tcp(f, p) ==
    LET rdp_protocol_detected == f.st = 1
        fromClient == current_pkt_from_client_to_server(f, p)
    IN  IF fromClient /\ p.sig = "data" THEN DetectExtra(f)
        ELSE IF fromClient /\ p.sig = "request"
        THEN IF f.processed > 4 THEN Detect(f) ELSE SetStage(f, 1, 1)
        ELSE DetectOrExclude(f, rdp_protocol_detected \/ (~fromClient /\ p.sig = "reply"))

\* UDP: rdp_to_srv_pkts and rdp_from_srv_pkts in f.side, the end with the port
\* being the server.  "request" is the SYN, "reply" the SYN/ACK it announced;
\* "none" does not start like the first packet of its side.
search_rdp_udp(f, p) ==
    LET pkts == f.side
        Again == SetSide(f, p.dir, 2)
    IN  IF p.sig = "short" \/ ~f.port THEN Exclude(f)
        ELSE IF pkts[p.dir] = 0
        THEN IF current_pkt_from_server_to_client(f, p)
             THEN IF p.sig = "reply" THEN Detect(f) ELSE SetSide(f, p.dir, 1)
             ELSE IF p.sig = "request" THEN Wait(f) ELSE SetSide(f, p.dir, 1)
        ELSE IF p.sig = "none" THEN Exclude(f)
        ELSE IF pkts[Other(p.dir)] = 2 THEN Detect(Again)
        ELSE Again

ndpi_search_rdp(f, p) == IF f.l4 = "TCP" THEN search_rdp_tcp(f, p) ELSE search_rdp_udp(f, p)

\* "request" is an initiation, "reply" a response or cookie for its sender,
\* "data" transport data for the index of its direction.  An index that does
\* not agree is "none" where it is compared.
ndpi_search_wireguard(f, p) ==
    LET wireguard_stage == f.st
    IN  CASE p.sig \in {"short", "none"} -> Exclude(f)
          [] p.sig = "request" ->
                LET g == SetStage(f, 1 + p.dir, 8) IN IF f.processed > 1 THEN Detect(g) ELSE g
          [] p.sig = "reply" -> IF wireguard_stage = 2 - p.dir THEN Detect(f) ELSE Wait(f)
          [] p.sig = "data" ->
                IF wireguard_stage = 0 THEN SetStage(f, 3 + p.dir, 8)
                ELSE IF wireguard_stage = 4 - p.dir THEN SetStage(f, 5, 8)
                ELSE IF wireguard_stage = 5 THEN Detect(f)
                ELSE Wait(f)

\* TCP: "request" is a URL or agent that decides, "reply" the full header,
\* "short" its first two bytes only, "data" a long payload of zeros.
ndpi_search_zattoo(f, p) ==
    LET zattoo_stage == f.st
        header == p.sig \in {"reply", "short"}
    IN  IF f.l4 = "UDP"
        THEN IF ~(f.port /\ p.sig = "request") THEN Exclude(f)
             ELSE IF zattoo_stage + 1 = 2 THEN Detect(SetStage(f, 2, 3))
             ELSE SetStage(f, zattoo_stage + 1, 3)
        ELSE IF p.sig = "request" THEN Detect(f)
        ELSE IF zattoo_stage = 0
        THEN IF p.sig = "reply" THEN SetStage(f, 1 + p.dir, 3) ELSE Exclude(f)
        ELSE IF zattoo_stage = 1 + p.dir
        THEN IF p.sig = "data" THEN SetStage(f, 3 + p.dir, 3) ELSE Wait(f)
        ELSE DetectOrExclude(f, header /\ zattoo_stage \in {2 - p.dir, 4 - p.dir})
==============================================================================
