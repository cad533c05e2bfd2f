-------------------------- MODULE MediaDissectors --------------------------
(***************************************************************************)
(* The dissectors of names, media and overlays that keep more state than a *)
(* stage: what was seen in each direction, a reassembly buffer, an LRU     *)
(* cache, the state of a second algorithm.  Options have their defaults.   *)
(***************************************************************************)
EXTENDS DissectorBase

(* Names and tickets.                                                      *)

\* "request" is a query, "reply" a response with answers, "data" one without;
\* "none" is an invalid header.  f.port: one of the ports of DNS, mDNS and
\* LLMNR; f.opt: that of LLMNR, for which no response is awaited.
is_valid_dns(p) == p.sig \in {"request", "reply", "data"}

\* The addresses of an answer feed the cache that guesses the next flow.
process_answers(f) == AddToCache(f, "fpc_dns")

search_dns(f, p) ==
    LET written == Detect(WriteProtos(f))
    IN  IF ~is_valid_dns(p) THEN ExcludeIf(f, ~f.extra)
        ELSE IF p.sig = "reply" THEN process_answers(written)
        ELSE IF f.opt THEN written
        ELSE AskForExtra(written)

ndpi_search_dns(f, p) ==
    IF ~f.port \/ p.sig = "short" THEN Exclude(f) ELSE search_dns(f, p)

\* f.st = 1: kerberos_buf holds the beginning of a message.  "data" leaves the
\* message incomplete, "request" completes an AS-REQ or a TGS-REQ, "reply" an
\* AS-REP, a TGS-REP or an error; a datagram is always complete.
krb_parse(f, p) == IF p.sig = "request" THEN AskForExtra(f) ELSE f

ndpi_search_kerberos(f, p) ==
    IF ~f.port THEN Exclude(f)
    ELSE IF p.sig = "data" /\ f.l4 = "TCP" THEN SetStage(f, 1, 1)
    ELSE IF p.sig \in {"request", "reply"} THEN krb_parse(WriteProtos(Detect(f)), p)
    ELSE Exclude(f)

ndpi_search_in_non_tcp_udp(f, p) == Exclude(IF f.port THEN Detect(f) ELSE f)
-----------------------------------------------------------------------------
(* Conferences and media.                                                  *)

\* "request" is a magic or an encapsulated medium, "data" a first byte that
\* counts only from the fourth packet, "reply" the peer-to-peer form, which is
\* asked for on other ports and in payloads too short for the first two.
ndpi_search_zoom(f, p) ==
    IF f.port /\ p.sig # "short"
    THEN IF p.sig = "request" \/ (p.sig = "data" /\ f.n >= 4) THEN DetectExtra(f)
         ELSE ExcludeIf(f, p.sig # "data")
    ELSE IF p.sig = "reply" THEN DetectExtra(f) ELSE Exclude(f)

\* rtp_stage is f.st, rtcp_stage f.aux, rtp_seq_set f.side.  "request" is RTP
\* with a fresh sequence number, "reply" RTP with the one stored for its
\* direction, "data" RTCP, "short" STUN or DTLS.  f.opt: the line or the
\* epicgames dissector has evidence of its own.
rtp_same_seq(f, p) == p.sig = "reply" /\ f.side[p.dir] = 1

ndpi_rtp_search(f, p) ==
    LET rtp == p.sig \in {"request", "reply"}
        restart == Exclude(SetAux(SetStage(f, 0, 2), 0, 2))
    IN  IF f.n > 3 /\ f.st = 0 /\ f.aux = 0 THEN Exclude(f)
        ELSE IF rtp /\ f.st = 2
        THEN IF f.l4 = "UDP" /\ f.opt THEN Wait(f)
             ELSE IF rtp_same_seq(f, p) THEN restart ELSE DetectExtra(f)
        ELSE IF rtp
        THEN SetStage(IF f.st = 0 THEN SetSide(f, p.dir, 1) ELSE f, f.st + 1, 2)
        ELSE IF p.sig = "data"
        THEN IF f.st > 0 THEN Wait(f)
             ELSE IF f.aux = 3 THEN Detect(f) ELSE SetAux(f, f.aux + 1, 2)
        ELSE IF (f.st > 0 \/ f.aux > 0) /\ p.sig = "none" THEN restart
        ELSE Wait(f)

ndpi_search_rtp_tcp(f, p) == IF p.sig = "none" THEN Exclude(f) ELSE ndpi_rtp_search(f, p)

ndpi_search_rtp_udp(f, p) == IF f.port THEN Exclude(f) ELSE ndpi_rtp_search(f, p)

ndpi_search_rtp(f, p) ==
    IF f.l4 = "TCP" THEN ndpi_search_rtp_tcp(f, p) ELSE ndpi_search_rtp_udp(f, p)

\* raknet_custom is f.st, set by the first payload (f.byip: it carries the
\* magic at one of the offsets of a custom version).  "request" and "data" are
\* operations that settle the flow from the 3rd and the 6th packet (others, from
\* the 4th and the 8th), "reply" a complete list of frames or acknowledgements;
\* f.opt: the RTP dissector is at work on the flow.
raknet_exclude_proto(f) == IF f.st = 1 THEN Detect(Saw(f)) ELSE Exclude(f)

ndpi_search_raknet(f, p) ==
    LET g == IF f.n = 1 THEN SetStage(f, IF f.byip THEN 1 ELSE 0, 1) ELSE f
    IN  CASE p.sig \in {"short", "none"} -> raknet_exclude_proto(g)
          [] p.sig = "reply" -> IF f.opt THEN Wait(g) ELSE Detect(g)
          [] p.sig = "request" -> IF f.n < 3 THEN Wait(g) ELSE Detect(g)
          [] p.sig = "data" -> IF f.n < 6 THEN Wait(g) ELSE Detect(g)
-----------------------------------------------------------------------------
(* Overlays and peer to peer.                                              *)

\* "data" is the single byte of a keep-alive.
ndpi_search_softether(f, p) ==
    CASE p.sig \in {"request", "reply"} -> DetectExtra(WriteProtos(f))
      [] p.sig = "data" -> ExcludeIf(f, f.n > 2)
      [] OTHER -> Exclude(f)

\* The handshake: 0 not settled, 1 failed, 2 found.  "request" is a hard reset
\* of the client, "reply" one of the server that names the session of the other
\* side, "data" one that names another session, "short" any other operation;
\* all carry the session of their own direction, a payload that does not is
\* "none".
openvpn_search_standard(f, p) ==
    LET mine == f.nd[p.dir]
        theirs == f.nd[Other(p.dir)]
    IN  IF p.sig = "none" \/ (mine = 1 /\ p.sig = "short") THEN 1
        ELSE IF mine > 1 /\ (theirs >= 2 \/ (mine >= 4 /\ theirs = 0)) THEN 2
        ELSE IF theirs > 0 /\ p.sig = "reply" THEN 2
        ELSE IF (theirs > 0 /\ p.sig = "data") \/ f.n > 5 THEN 1
        ELSE 0

OpcodeOf(p) == CASE p.sig = "request" -> 1 [] p.sig = "reply" -> 2
                 [] p.sig = "data" -> 3 [] OTHER -> 4

\* cfg.openvpn_heuristics_num_msgs.
OPENVPN_HEUR_NUM_MSGS == 10

\* The heuristic of obfuscated sessions, over the operation codes alone: the
\* first of each direction is its reset code (f.side), the others are gathered
\* in f.auth.  A packet carries one message.  The four codes told apart here are
\* two resets and two others, never more others than the code can remember.
openvpn_search_heur_opcode(f, p) ==
    LET opcode == OpcodeOf(p)
        other == Other(p.dir)
        codes == f.auth \union {p.sig}
        first == f.nd[p.dir] = 1
        resets == IF first THEN [f.side EXCEPT ![p.dir] = opcode] ELSE f.side
        after(rc) == [rc |-> rc, side |-> resets, auth |-> f.auth]
    IN  IF f.byip \/ p.sig = "none" THEN [after(1) EXCEPT !.side = f.side]
        ELSE IF first
        THEN after(IF f.nd[other] > 0 /\ opcode = f.side[other] THEN 1 ELSE 0)
        ELSE IF opcode = f.side[p.dir] THEN after(IF f.auth # {} THEN 1 ELSE 0)
        ELSE IF f.nd[other] = 0 \/ opcode = f.side[other] THEN after(1)
        ELSE [after(IF f.n < OPENVPN_HEUR_NUM_MSGS THEN 0
                    ELSE IF Cardinality(codes) >= 2 THEN 2 ELSE 1)
                 EXCEPT !.auth = codes]

\* ovpn_alg_standard_state is f.st, ovpn_alg_heur_opcode_state f.aux; f.opt: the
\* heuristic is enabled, f.byip: the address says what the flow is.
ndpi_search_openvpn(f, p) ==
    LET standard == IF f.st = 0 THEN openvpn_search_standard(f, p) ELSE f.st
        heur == openvpn_search_heur_opcode(f, p)
        run == f.opt /\ f.aux = 0
        opcodes == IF ~f.opt THEN 1 ELSE IF run THEN heur.rc ELSE f.aux
        g == [SetAux(SetStage(f, standard, 2), opcodes, 2) EXCEPT
                 !.side = IF run THEN heur.side ELSE @,
                 !.auth = IF run THEN heur.auth ELSE @]
    IN  IF standard = 2 THEN Detect(g)
        ELSE IF opcodes = 2 THEN DetectedBy(g, "DPI_AGGRESSIVE")
        ELSE ExcludeIf(g, standard = 1 /\ opcodes = 1)

\* The flow and its endpoints go to the cache that later flows are looked up in.
ndpi_add_connection_as_bittorrent(f, confidence) ==
    AddToCache(AskForExtra(DetectedBy(f, confidence)), "bittorrent")

\* f.byip: one of the endpoints is in the cache.
ndpi_skip_bittorrent(f) ==
    IF f.byip THEN ndpi_add_connection_as_bittorrent(f, "DPI_CACHE") ELSE Exclude(f)

\* bittorrent_stage is f.st.  "request" is a handshake or a signature, "reply" a
\* uTP data packet, "data" a string of the distributed hash table.  f.port: an
\* address or a port that is never BitTorrent's; f.opt: a port below 1024.
ndpi_search_bittorrent_udp(f, p) ==
    LET g == SetStage(f, f.st + 1, 8)
    IN  IF f.opt THEN ndpi_skip_bittorrent(f)
        ELSE IF p.sig = "request" \/ (p.sig = "reply" /\ f.n > 2)
        THEN ndpi_add_connection_as_bittorrent(f, "DPI")
        ELSE IF p.sig = "reply" THEN Wait(f)
        ELSE IF g.st >= 5 THEN ndpi_skip_bittorrent(g)
        ELSE IF p.sig = "data" THEN ndpi_add_connection_as_bittorrent(g, "DPI")
        ELSE Wait(g)

ndpi_int_search_bittorrent_tcp(f, p) ==
    IF p.sig = "request" THEN ndpi_add_connection_as_bittorrent(WriteProtos(f), "DPI")
    ELSE IF f.n > 5 THEN ndpi_skip_bittorrent(f) ELSE Wait(f)

ndpi_search_bittorrent(f, p) ==
    IF f.port THEN Exclude(f)
    ELSE IF f.l4 = "TCP" THEN ndpi_int_search_bittorrent_tcp(f, p)
    ELSE ndpi_search_bittorrent_udp(f, p)
==============================================================================
