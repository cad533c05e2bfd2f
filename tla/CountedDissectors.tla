-------------------------- MODULE CountedDissectors --------------------------
(***************************************************************************)
(* The dissectors whose decision depends on how many packets the flow has  *)
(* had: they let a few packets pass before they exclude themselves, expect *)
(* a form in the first packets only, or ask for the form several times.    *)
(* They keep no stage of their own.                                        *)
(***************************************************************************)
EXTENDS DissectorBase

(* A form that is awaited for a number of packets.                         *)

\* Wrong on purpose: the counter is compared for equality.
ndpi_search_rsync_Exact(f, p) == DetectOrGiveUp(f, Recognised(p), f.n = 15)

ndpi_search_rsync(f, p) == DetectOrGiveUp(f, Recognised(p), f.n > 5)

ndpi_search_amqp(f, p) == DetectOrGiveUp(f, Recognised(p), f.n > 5)

ndpi_search_qq(f, p) == DetectOrGiveUp(f, Recognised(p), f.processed > 4)

ndpi_search_ciscovpn(f, p) ==
    IF f.port THEN DetectOrGiveUp(f, Recognised(p), f.processed > 5) ELSE Exclude(f)

ndpi_search_alicloud(f, p) ==
    IF p.sig = "short" THEN Exclude(f) ELSE DetectOrGiveUp(f, Recognised(p), f.n > 3)

ndpi_search_dnscrypt(f, p) ==
    DetectOrGiveUp(f, Recognised(p), BothDirections(f) \/ f.n >= 8)

\* "reply" is the second form, which needs no port.
ndpi_search_cod_mobile(f, p) ==
    DetectOrGiveUp(f, (f.port /\ p.sig = "request") \/ p.sig = "reply", f.n >= 4)

ndpi_search_radius(f, p) ==
    IF f.port /\ p.sig = "short"
    THEN Exclude(f)
    ELSE DetectOrGiveUp(f, f.port /\ Recognised(p), f.n > 3)

\* "data" is a payload of more than 128 bytes, which may precede the form.
ndpi_search_checkmk(f, p) ==
    IF p.sig = "data" THEN ExcludeIf(f, f.n > 6) ELSE DetectOrExclude(f, Recognised(p))

ndpi_search_afp(f, p) ==
    IF p.sig = "data" THEN ExcludeIf(f, f.n > 5) ELSE DetectOrExclude(f, Recognised(p))

ndpi_search_iso9506_1_mms(f, p) ==
    DetectOrGiveUp(f, Recognised(p) /\ current_pkt_from_client_to_server(f, p), f.nd[p.dir] > 2)

\* A match does not return, so a late one is also excluded.
ndpi_search_melsec(f, p) ==
    LET g == IF Recognised(p) THEN Detect(f) ELSE f IN ExcludeIf(g, f.n > 2)

\* "data" is a reply whose flags say nothing.
ndpi_search_mongodb(f, p) ==
    IF f.n > 6 THEN Exclude(f)
    ELSE IF p.sig = "data" THEN Wait(f)
    ELSE DetectOrExclude(f, Recognised(p))

ndpi_search_mqtt(f, p) == DetectOrExclude(f, f.n <= 10 /\ Recognised(p))

\* "reply" is the option string in a longer message.  The version test before
\* it accepts every byte: both validators answer 1 or -1, which are both true.
ndpi_search_cassandra(f, p) ==
    IF p.sig = "request" THEN Detect(f)
    ELSE IF p.sig = "short" \/ f.n >= 8 \/ f.nd[p.dir] > 2 THEN Exclude(f)
    ELSE IF p.sig = "reply" THEN Detect(f)
    ELSE Wait(f)

\* "short" is a payload of at most 4 bytes, "none" one that is not printable.
ndpi_search_sip(f, p) ==
    IF f.n >= 8 \/ p.sig = "none" THEN Exclude(f)
    ELSE IF Recognised(p) THEN WriteProtos(Detect(f))
    ELSE Wait(f)

\* "data" is a chain of messages whose lengths do not add up.
ndpi_search_smpp_tcp(f, p) ==
    IF f.n > 3 \/ p.sig = "short" THEN Exclude(f)
    ELSE IF p.sig = "data" THEN Wait(f)
    ELSE DetectOrExclude(f, Recognised(p))

\* TCP and longer UDP payloads decide at once ("reply": the form, but the RTP
\* dissector has a stage); a UDP payload of up to 5 bytes is "short".
ndpi_search_viber(f, p) ==
    IF f.l4 = "UDP" /\ p.sig = "short"
    THEN ExcludeIf(f, f.n > 3)
    ELSE DetectOrExclude(f, Recognised(p))
-----------------------------------------------------------------------------
(* A form that is expected early, or in a given packet.                    *)

ndpi_search_avast_securedns(f, p) == DetectOrExclude(f, f.n <= 1 /\ Recognised(p))

ndpi_search_hpvirtgrp(f, p) == DetectOrExclude(f, f.n = 1 /\ Recognised(p))

ndpi_search_genshin_impact(f, p) ==
    DetectOrExclude(f, Recognised(p) /\ (f.l4 = "TCP" \/ f.n = 1))

\* "reply" is the form of the first packet only.
ndpi_search_toca_boca(f, p) == DetectOrExclude(f, Recognised(p) \/ (f.n = 1 /\ p.sig = "reply"))

\* "data" is the keep-alive; the discovery is request, then reply.
ndpi_search_discord(f, p) ==
    CASE p.sig = "data" -> Detect(f)
      [] f.n = 1 /\ p.sig = "request" -> Wait(f)
      [] f.n = 2 /\ p.sig = "reply" -> Detect(WriteProtos(f))
      [] OTHER -> ExcludeIf(f, f.n >= 5)

\* Only the lengths of the first three packets are compared ("data" is any
\* payload of the expected length).
ndpi_search_threema(f, p) ==
    IF ~f.port THEN Exclude(f)
    ELSE IF f.n <= 3 THEN ExcludeIf(f, p.sig # "data")
    ELSE IF f.n = 4 THEN Wait(f)
    ELSE DetectOrExclude(f, p.sig = "data")

\* The port of the first packet is that of the server; direction 0 is taken
\* for the client's.
ndpi_search_gearup_booster(f, p) ==
    IF ~f.port \/ (f.n = 1 /\ p.dir # 0)
    THEN Exclude(f)
    ELSE DetectOrExclude(f, Recognised(p))

\* The first packet of each direction has its magic ("request" for direction
\* 0, "reply" for 1) and may settle the matter ("data" stands for the magic of
\* its own direction and the known body); later ones have a byte of their own.
ndpi_search_activision(f, p) ==
    LET ofDirection == p.sig = (IF p.dir = 0 THEN "request" ELSE "reply")
    IN  CASE f.nd[p.dir] = 1 /\ p.sig = "data" -> Detect(f)
          [] ofDirection /\ f.n > 4 -> Detect(f)
          [] ofDirection /\ f.n <= 4 -> Wait(f)
          [] OTHER -> Exclude(f)

\* On the port, lines are let pass until enough of them ended in a newline
\* ("data"); otherwise a port number is followed by the names.
ndpi_search_rsh(f, p) ==
    CASE f.port /\ p.sig = "data" -> IF f.n > 5 THEN WriteProtos(Detect(f)) ELSE Wait(f)
      [] f.n = 1 /\ p.sig = "request" -> Wait(f)
      [] f.n = 2 /\ p.sig = "reply" -> WriteProtos(Detect(f))
      [] OTHER -> Exclude(f)
-----------------------------------------------------------------------------
(* A form that must be seen again.                                         *)

ndpi_search_sflow(f, p) ==
    IF ~Recognised(p) THEN Exclude(f)
    ELSE IF f.n >= 2 THEN Detect(f)
    ELSE Wait(f)

ndpi_search_mudfish(f, p) ==
    IF f.l4 = "TCP" THEN DetectOrExclude(f, Recognised(p))
    ELSE IF ~(f.port /\ Recognised(p)) THEN Exclude(f)
    ELSE IF f.n >= 2 THEN Detect(f)
    ELSE Wait(f)

\* "data" is a known type with another length.
ndpi_search_raft(f, p) ==
    IF p.sig = "data" /\ f.n < 3 THEN Wait(f)
    ELSE DetectOrExclude(f, p.sig \in {"request", "data"})

\* "short" is a payload of up to 4 digits; the first one is compared with the
\* port of the server.
ndpi_search_crynet(f, p) ==
    IF p.sig = "short" /\ f.n = 1 /\ ~f.port THEN Exclude(f)
    ELSE IF p.sig = "short" /\ f.n >= 10 THEN Detect(Saw(f))
    ELSE IF p.sig = "short" /\ f.n < 10 THEN Wait(f)
    ELSE DetectOrExclude(f, Recognised(p))

\* "data" is the pattern seen before a TLS upgrade.
ndpi_search_jabber_tcp(f, p) ==
    CASE p.sig = "data" -> IF f.n > 3 THEN Detect(f) ELSE Wait(f)
      [] p.sig = "reply" -> Wait(f)     \* XML without the namespace
      [] OTHER -> DetectOrExclude(f, Recognised(p))

\* "data" is a licence form: it is accepted in the third packet only.
ndpi_search_teamspeak(f, p) ==
    IF f.l4 = "UDP" /\ p.sig = "data"
    THEN (IF f.n = 3 THEN Detect(f) ELSE Wait(f))
    ELSE DetectOrExclude(f, Recognised(p))

\* "request" is eight or more fields (as "reply", with an RTP stage on the
\* flow), "data" two or more, "short" one complete field.
ndpi_search_protobuf(f, p) ==
    IF \/ p.sig = "request"
       \/ p.sig = "reply" /\ (f.n > 1 \/ f.l4 = "TCP")
       \/ p.sig \in {"reply", "data"} /\ f.n >= 4
    THEN Detect(f)
    ELSE IF p.sig # "none" /\ f.n <= 8 THEN Wait(f)
    ELSE Exclude(f)

\* "request" is a message with tagged objects, "reply" a complete one without,
\* which needs a second packet, "data" a doubtful one.  A match goes on to the
\* test of the counter, so that a late one is also excluded.
ndpi_search_msgpack(f, p) ==
    IF p.sig \in {"none", "short"} THEN Exclude(f)
    ELSE LET match == p.sig = "request" \/ (p.sig = "reply" /\ f.n > 1)
         IN  ExcludeIf(IF match THEN Detect(f) ELSE f, f.n >= 4)

\* "request" asks for the address, "reply" is another valid message.
ndpi_search_natpmp(f, p) ==
    IF p.sig \notin {"request", "reply"} THEN Exclude(f)
    ELSE IF f.port \/ (f.n > 2 /\ p.sig = "reply") THEN WriteProtos(DetectExtra(f))
    ELSE Wait(f)
-----------------------------------------------------------------------------
(* No counter, but not every packet decides.                               *)

\* "data" is a header without a plausible time.
ndpi_search_netflow(f, p) ==
    IF p.sig = "data" THEN Wait(f) ELSE DetectOrExclude(f, Recognised(p))

\* "short" is a payload of one byte.
ndpi_search_dcerpc(f, p) ==
    IF p.sig = "short" THEN Wait(f) ELSE DetectOrExclude(f, Recognised(p))

\* "data" is a negotiation of version 1, which may end in version 2.
ndpi_search_smb_tcp(f, p) ==
    CASE f.port /\ p.sig = "data" -> Wait(f)
      [] OTHER -> DetectOrExclude(f, f.port /\ Recognised(p))

\* port is the broadcast address; "data" goes to another port.
ndpi_search_mikrotik(f, p) ==
    CASE ~f.port \/ p.sig = "short" -> Exclude(f)
      [] f.port /\ p.sig = "data" -> Wait(f)
      [] OTHER -> Detect(WriteProtos(f))

\* "data" is a header on the ISO-TSAP port that belongs to another protocol.
ndpi_search_s7comm(f, p) ==
    IF ~f.port \/ p.sig \in {"none", "short"} THEN Exclude(f)
    ELSE IF p.sig = "data" THEN Wait(f)
    ELSE IF p.sig = "request" THEN WriteProtos(DetectExtra(f))
    ELSE Detect(f)             \* version 2, S7comm Plus

\* TCP: on the server's port of a known address the reply of the server
\* decides, and the first packet of each direction is let pass.  "reply" is
\* that reply, "data" a UDP form that needs a known address.
ndpi_search_blizzard(f, p) ==
    CASE /\ f.l4 = "TCP" /\ f.byip /\ f.port /\ p.sig = "reply"
         /\ current_pkt_from_server_to_client(f, p) -> Detect(f)
      [] /\ f.l4 = "TCP" /\ f.byip /\ f.port /\ f.nd[p.dir] = 1
         /\ ~(p.sig = "reply" /\ current_pkt_from_server_to_client(f, p)) -> Wait(f)
      [] OTHER -> DetectOrExclude(f, \/ Recognised(p)
                                     \/ f.l4 = "UDP" /\ f.byip /\ p.sig = "data")

\* Not over HTTP: two packets are let pass.
ndpi_search_mpegdash_http(f, p) ==
    IF f.stack # "HTTP" THEN ExcludeIf(f, f.n > 2) ELSE DetectOrExclude(f, Recognised(p))

\* The frame test ("request") comes first, also over HTTP, where it excludes
\* the dissector while the header lines ("reply") detect it.
ndpi_check_websocket(f, p) ==
    IF p.sig # "request" THEN Exclude(f)
    ELSE IF f.stack = "UNKNOWN" THEN Detect(f)
    ELSE Wait(f)

ndpi_search_websocket(f, p) ==
    LET g == ndpi_check_websocket(f, p)
    IN  CASE f.n > 10 -> Exclude(f)
          [] f.n <= 10 /\ f.stack = "HTTP" -> Exclude(IF p.sig = "reply" THEN Detect(g) ELSE g)
          [] OTHER -> g
==============================================================================
