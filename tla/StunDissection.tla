---------------------------- MODULE StunDissection -----------------------------
(***************************************************************************)
(* STUN and what is multiplexed with it on one UDP flow: DTLS, (S)RTP,     *)
(* TURN channels (src/lib/protocols/stun.c).  The dissector classifies the *)
(* flow, stays on it as the extra dissection, refines the classification,  *)
(* learns from and fills the cache of applications it shares with the      *)
(* other flows, and may end in the monitoring state.                       *)
(*                                                                         *)
(* A packet is [kind, ...]; a payload that carries another one has it in   *)
(* the field inner.  The LRU cache is a map that other flows may write to  *)
(* and that may forget (module LossyMap).                                  *)
(***************************************************************************)
EXTENDS TlsHandshake

CONSTANTS StunConfig,       \* configurations of the dissector
          StunPacket,       \* packets of the flow
          StunOtherApp,     \* applications the other flows put in the cache
          StunRoom,         \* extra packets granted to a DTLS handshake (10)
          StunMaxU8,        \* largest value of a packet counter (255)
          StunSignalAfter,  \* packets before the weak Signal rule (4)
          StunGiveUp,       \* packets before STUN is excluded (5)
          StunMaxPackets

VARIABLE stun

Endpoint == {"client", "server", "peer"}

NewStun(cfg) ==
  [f |-> NewTls(TRUE, "DTLS", Unknown, 0), cfg |-> cfg, is_turn |-> FALSE,
   named |-> FALSE, addrs |-> {}, cache |-> [e \in Endpoint |-> Unknown],
   message |-> [d \in 0..1 |-> NoReassembly], pkts |-> 0, excluded |-> FALSE,
   extra |-> 0]
-----------------------------------------------------------------------------
(* Classification                                                          *)

\* Not the name of a transport: an application.
is_subclassification_real_by_proto(p) ==
  p \notin {Unknown, "STUN", "RTP", "RTCP", "SRTP", "DTLS", "TELEGRAM"}

is_subclassification_real(s) ==
  s.f.master # Unknown /\ is_subclassification_real_by_proto(s.f.app)

is_new_subclassification_better(s, app) ==
  /\ ~(is_subclassification_real(s) /\ app = Unknown)
  /\ app # s.f.app

\* The client's endpoint first, then the server's.
search_into_cache(s) ==
  IF s.cache["client"] # Unknown THEN s.cache["client"] ELSE s.cache["server"]

add_to_cache(s, app) ==
  [s EXCEPT !.cache["client"] = app, !.cache["server"] = app]

\* The master for a new application.
get_master(s) ==
  IF s.f.master # Unknown THEN s.f.master
  ELSE IF s.f.app \notin {Unknown, "TELEGRAM"} THEN s.f.app
  ELSE "STUN"

\* ndpi_set_detected_protocol with its reconciliation: STUN to the ports of Microsoft's
\* relays in Azure is a Teams call.
SetStun(s, upper, lower, conf) ==
  LET f == SetDetected(s.f, upper, lower, conf)
  IN IF f.app = "STUN" /\ s.cfg.azure /\ f.state # "monitoring"
       THEN [s EXCEPT !.f = [f EXCEPT !.app = "MSTEAMS_CALL", !.master = "STUN"]]
     ELSE [s EXCEPT !.f = f]

Monitored(s) == [go |-> TRUE, s |-> [s EXCEPT !.f.state = "monitoring"]]

\* All the addresses of the set that the configuration wants are known.
Have(s, which) == (which \cap s.cfg.wanted) \subseteq s.addrs

\* keep_extra_dissection: whether to go on, and the change to the monitoring state.
keep_extra_dissection(s) ==
  LET last == (s.f.checked + 1) = s.f.max
      done == IF s.cfg.monitoring THEN Monitored(s) ELSE [go |-> FALSE, s |-> s]
      more == [go |-> TRUE, s |-> s]
  IN IF s.f.state = "monitoring" THEN more
     ELSE IF last /\ s.cfg.monitoring THEN Monitored(s)
     ELSE IF ~is_subclassification_real(s) THEN more
     ELSE IF s.cfg.monitoring /\ s.f.master \notin {"SRTP", "DTLS"} THEN more
     ELSE IF s.f.app = "TELEGRAM_VOIP" /\ "peer" \in s.cfg.wanted THEN more
     ELSE IF \/ Have(s, s.cfg.wanted)
             \/ /\ s.f.app = "WHATSAPP_CALL" /\ s.f.master = "SRTP"
                /\ Have(s, {"mapped", "relayed"})
             \/ s.f.app = "ZOOM"
       THEN done
     ELSE more

\* The extra dissection starts unless another one goes on already.
switch_extra_dissection_to_stun(s, func) ==
  LET k == keep_extra_dissection(s)
  IN IF s.f.func # "none" THEN s
     ELSE IF k.go THEN [k.s EXCEPT !.f.max = s.cfg.max, !.f.func = func]
     ELSE k.s

\* Only real applications are shared with the other flows.
Shared(app) == is_subclassification_real_by_proto(app)

\* ndpi_int_stun_add_connection
ndpi_int_stun_add_connection(s, app0, master0) ==
  LET app1 == IF app0 = Unknown /\ s.cfg.google THEN "GOOGLE_CALL" ELSE app0
      found == IF is_subclassification_real_by_proto(app1) THEN Unknown ELSE search_into_cache(s)
      hit == found # Unknown
      conf == IF hit THEN "cache" ELSE "dpi"
      rtp == {"RTP", "RTCP"}
      master1 == IF hit /\ (app1 = "RTP" \/ master0 \in rtp) THEN "SRTP" ELSE master0
      app2 == IF hit THEN found ELSE app1
      app3 == IF master1 \in rtp /\ app2 = Unknown THEN "RTP" ELSE app2
      master2 == IF master1 \notin rtp THEN master1
                 ELSE IF app2 = Unknown THEN "STUN" ELSE "SRTP"
      a == IF Shared(app3) THEN add_to_cache(s, app3) ELSE s
      b == IF s.f.app = Unknown \/ app3 # Unknown THEN SetStun(a, app3, master2, conf) ELSE a
  IN IF s.f.state = "monitoring" THEN s ELSE switch_extra_dissection_to_stun(b, "stun")
-----------------------------------------------------------------------------
(* DTLS                                                                    *)

\* One record of a datagram: "bad" has no header of a record, "broken" has lengths that
\* do not fit.  A fragment counts its header as one cell; the message
\* is dissected when its last cell is there.
DtlsRecord(acc, d, r) ==
  LET s == acc.s
      m == ndpi_search_tls_memory(s.message[d],
             [i \in 1..(IF r.off = 0 THEN r.len + 1 ELSE r.len) |-> r.msg],
             IF r.off = 0 THEN 0 ELSE r.off + 1, r.off + r.len + 1)
      stop(t) == [acc EXCEPT !.stop = TRUE, !.s = t]
  IN IF acc.stop THEN acc
     ELSE IF r.type \in {"bad", "broken"} THEN [acc EXCEPT !.stop = TRUE, !.no_dtls = TRUE]
     ELSE IF r.type = "cipher" THEN stop([s EXCEPT !.f.cert = TRUE])
     ELSE IF r.type = "data"
       THEN stop([s EXCEPT !.f = [SetDetected(s.f, "DTLS", Unknown, "dpi") EXCEPT !.cert = TRUE]])
     ELSE IF r.type = "alert" THEN [acc EXCEPT !.s.f = AddRisk(@, "fatal_alert")]
     ELSE IF r.len = r.total THEN [acc EXCEPT !.s.f = processHandshakeTLSBlock(@, d, r.msg)]
     ELSE IF Len(m.buffer) = r.total + 1
       THEN [acc EXCEPT !.s = [s EXCEPT !.message[d] = NoReassembly,
                                        !.f = processHandshakeTLSBlock(@, d, Head(m.buffer))]]
     ELSE [acc EXCEPT !.s.message[d] = m]

DtlsEnd(acc) == [go |-> ~acc.no_dtls /\ ~acc.s.f.cert, s |-> acc.s]

\* All records of a datagram: whether to go on, and the state.
ndpi_search_dtls(s, p) ==
  DtlsEnd(FoldLeft(LAMBDA acc, x : DtlsRecord(acc, p.dir, x),
                   [s |-> s, stop |-> FALSE, no_dtls |-> FALSE], p.records))

reset_detected_protocol(s) ==
  [s EXCEPT !.f.app = Unknown, !.f.master = Unknown, !.f.conf = "none"]

MinU8(n) == IF n > StunMaxU8 THEN StunMaxU8 ELSE n

\* The first DTLS packet: the classification is forgotten, the handshake gets room.
FirstDtls(s) ==
  LET a == reset_detected_protocol(s)
  IN [a EXCEPT !.f.max = MinU8(@ + StunRoom), !.f.maybe_dtls = TRUE,
               !.message = [d \in 0..1 |-> NoReassembly]]

\* Wrong on purpose: the transports found before are kept as if they were applications.
CarryOver_Plain(s, old) ==
  IF s.f.app = "DTLS" /\ s.f.master = Unknown /\ old.app \notin {Unknown, "STUN"}
    THEN ndpi_int_stun_add_connection(s, old.app, get_master(s))
    ELSE s

\* DTLS without an application of its own keeps the one known before.
CarryOver(s, old) ==
  IF s.f.app = "DTLS" /\ s.f.master = Unknown /\ old.app \notin {Unknown, "STUN"}
    THEN ndpi_int_stun_add_connection(s, IF old.app = "RTP" THEN "SRTP" ELSE old.app, get_master(s))
    ELSE s

\* Wrong on purpose: the packets granted to the handshake are not taken back.
RollBack_Room(s, old) ==
  [SetStun(s, old.app, old.master, "dpi") EXCEPT !.f.maybe_dtls = FALSE]

\* It was not DTLS after all: the old classification is set again.
RollBack(s, old) ==
  [SetStun(s, old.app, old.master, "dpi")
     EXCEPT !.f.maybe_dtls = FALSE, !.f.max = @ - StunRoom]

\* Wrong on purpose: DTLS is looked at while monitoring too.
MayDtls_Monitored(s) == s.cfg.opportunistic /\ ~s.f.cert

\* DTLS is looked at until its certificate is known, and not while monitoring.
MayDtls(s) == s.cfg.opportunistic /\ ~s.f.cert /\ s.f.state # "monitoring"

\* What the first DTLS packet leaves of the classification before it.
FirstDtlsEnd(s, old) == IF s.f.app = Unknown THEN RollBack(s, old) ELSE s

\* A packet that starts like DTLS.
DtlsPacket(s, p) ==
  IF ~MayDtls(s) \/ p.records[1].type = "bad" THEN s
  ELSE IF s.f.maybe_dtls THEN ndpi_search_dtls(s, p).s
  ELSE FirstDtlsEnd(CarryOver(ndpi_search_dtls(FirstDtls(s), p).s, s.f), s.f)

\* A packet of real-time media.
RtpPacket(s) ==
  LET m == get_master(s)
  IN IF s.f.app \notin {"RTP", "RTCP"} /\ s.f.master # "SRTP"
       THEN IF s.f.master = "DTLS" THEN s
            ELSE IF s.f.master # Unknown THEN ndpi_int_stun_add_connection(s, s.f.app, "SRTP")
            ELSE ndpi_int_stun_add_connection(s, IF m = "STUN" THEN "RTP" ELSE "SRTP", m)
     ELSE IF s.f.app = "RTCP" /\ s.f.master = Unknown /\ s.f.state # "monitoring"
       THEN SetStun(s, Unknown, "RTP", "dpi")
     ELSE s
-----------------------------------------------------------------------------
(* Packets                                                                 *)

\* The application a realm names; Signal behind a relay of Cloudflare is known from
\* the client's earlier flows.
RealmApp(s, realm) ==
  IF realm \in {"GOOGLE_CALL", "SIGNAL_VOIP", "FACEBOOK_VOIP", "TELEGRAM_VOIP", "VIBER_VOIP"} THEN realm
  ELSE IF realm = "cloudflare" /\ s.cfg.signal THEN "SIGNAL_VOIP"
  ELSE Unknown

RECURSIVE stun_search_again(_, _)

\* One attribute of a message.  Only the first address of each kind is kept; the peers
\* of a known application are put in the cache; a realm counts once.
Attribute(acc, a) ==
  LET s == acc.s
      wanted == a.which \in s.cfg.wanted
      known == [s EXCEPT !.addrs = @ \cup {a.which}]
      realm == RealmApp(s, a.realm)
  IN IF acc.stop THEN acc
     ELSE IF a.id = "address" /\ wanted
       THEN [acc EXCEPT !.s = IF a.which = "peer" /\ is_subclassification_real(s)
                                THEN [known EXCEPT !.cache["peer"] = s.f.app] ELSE known]
     ELSE IF a.id = "app" THEN [acc EXCEPT !.app = a.app, !.stop = a.app = "ZOOM"]
     ELSE IF a.id = "realm" /\ ~s.named /\ a.realm # "junk"
       THEN [acc EXCEPT !.s = [s EXCEPT !.named = TRUE],
                        !.app = IF realm = Unknown THEN @ ELSE realm]
     ELSE IF a.id = "data" THEN [acc EXCEPT !.s = stun_search_again(s, a.inner).s]
     ELSE acc

\* is_stun: the application a message tells, in the order of its attributes.
is_stun(s, p) ==
  LET t == [s EXCEPT !.is_turn = @ \/ p.turn]
      weak == /\ s.pkts > StunSignalAfter /\ ~t.is_turn /\ s.cfg.port10000
              /\ ~is_subclassification_real(s)
      app == IF s.f.app = "TELEGRAM" THEN "TELEGRAM_VOIP"
             ELSE IF weak THEN "SIGNAL_VOIP" ELSE Unknown
      r == FoldLeft(Attribute, [s |-> t, app |-> app, stop |-> FALSE], p.attrs)
  IN IF p.form = "bad" THEN [ok |-> FALSE, app |-> Unknown, s |-> s]
     ELSE IF p.form = "legacy" THEN [ok |-> TRUE, app |-> Unknown, s |-> s]
     ELSE IF p.form = "whatsapp" THEN [ok |-> TRUE, app |-> "WHATSAPP_CALL", s |-> s]
     ELSE [ok |-> TRUE, app |-> r.app, s |-> r.s]

\* A message inside the extra dissection, with what is_stun told of it.
StunTold(r) ==
  IF r.ok /\ is_new_subclassification_better(r.s, r.app)
    THEN ndpi_int_stun_add_connection(r.s, r.app, get_master(r.s)) ELSE r.s

StunMessage(s, p) == StunTold(is_stun(s, p))

\* stun_search_again: by the first byte of the packet.  WhatsApp's own messages are
\* looked at in its calls only, channels after TURN, framed ones in Teams' calls.
stun_search_again(s, p) ==
  keep_extra_dissection(
    IF p.kind = "stun" /\ (p.form # "whatsapp" \/ s.f.app = "WHATSAPP_CALL") THEN StunMessage(s, p)
    ELSE IF p.kind = "dtls" THEN DtlsPacket(s, p)
    ELSE IF \/ p.kind = "channel" /\ s.is_turn
            \/ p.kind = "msturn" /\ s.f.app = "MSTEAMS_CALL"
      THEN stun_search_again(s, p.inner).s
    ELSE IF p.kind = "rtp" THEN RtpPacket(s)
    ELSE s)

\* Telegram's own framing, in some packets.
stun_telegram_search_again(s, p) ==
  keep_extra_dissection(IF p.kind = "framed" THEN stun_search_again(s, p.inner).s ELSE s)

\* The budget of the extra dissection; in the monitoring state there is none.
ExtraCounted(r) ==
  LET n == (r.s.f.checked + 1) % (StunMaxU8 + 1)
      counted == r.s.f.state # "monitoring"
      t == [r.s EXCEPT !.f.checked = IF counted THEN n ELSE @,
                       !.extra = IF counted THEN @ + 1 ELSE @]
  IN IF ~r.go THEN [r.s EXCEPT !.f.func = "none"]
     ELSE IF counted /\ n = r.s.f.max THEN [t EXCEPT !.f.func = "none"]
     ELSE t

\* process_extra_packet: the dissection goes on until it says so, or until its budget
\* is spent.
process_extra_packet(s, p) ==
  ExtraCounted(IF s.f.func = "stun" THEN stun_search_again(s, p)
               ELSE IF s.f.func = "telegram" THEN stun_telegram_search_again(s, p)
               ELSE IF p.kind = "dtls" THEN ndpi_search_dtls(s, p)
               ELSE [go |-> FALSE, s |-> s])

\* ndpi_search_stun, in the detection.  Teams' framing is seen through.
ndpi_search_stun(s, p) ==
  LET q == IF p.kind = "msturn" THEN p.inner ELSE p
      r == is_stun(s, q)
      late == [s EXCEPT !.excluded = s.pkts > StunGiveUp]
  IN IF q.kind # "stun" THEN late
     ELSE IF r.ok THEN ndpi_int_stun_add_connection(r.s, r.app, get_master(r.s))
     ELSE [late EXCEPT !.f = r.s.f]
-----------------------------------------------------------------------------
StunInit == \E c \in StunConfig : stun = NewStun(c)

OnePacketMore(s) == [s EXCEPT !.pkts = @ + 1]

MayArrive == stun.pkts < StunMaxPackets

Detecting == MayArrive /\ stun.f.state = "inspecting" /\ stun.f.func = "none"

\* A packet no dissector has classified the flow by yet.
SearchStun(p) ==
  /\ Detecting /\ ~stun.excluded
  /\ stun' = ndpi_search_stun(OnePacketMore(stun), p)

\* ndpi_int_rtp_add_connection, with the search for STUN in RTP flows on.
SearchRtp(proto) ==
  /\ Detecting
  /\ stun' = switch_extra_dissection_to_stun(SetStun(OnePacketMore(stun), Unknown, proto, "dpi"), "stun")

\* The Telegram dissector found the padding of its own framing.
SearchTelegram ==
  /\ Detecting
  /\ stun' = switch_extra_dissection_to_stun(SetStun(OnePacketMore(stun), Unknown, "TELEGRAM", "dpi"), "telegram")

\* A packet of the extra dissection.
StunExtra(p) ==
  /\ MayArrive /\ stun.f.func # "none"
  /\ stun' = process_extra_packet(OnePacketMore(stun), p)

\* Another flow of an endpoint was classified, or the cache dropped an entry.
OtherFlow(e, app) ==
  /\ MayArrive /\ stun.cache[e] # app
  /\ stun' = [stun EXCEPT !.cache[e] = app]

StunNext ==
  \/ \E p \in StunPacket : SearchStun(p) \/ StunExtra(p)
  \/ \E proto \in {"RTP", "RTCP"} : SearchRtp(proto)
  \/ SearchTelegram
  \/ \E e \in Endpoint, app \in StunOtherApp \cup {Unknown} : OtherFlow(e, app)

StunSpec == StunInit /\ [][StunNext]_stun
-----------------------------------------------------------------------------
StunTypeOK ==
  /\ stun.f.state \in {"inspecting", "partial", "monitoring"}
  /\ stun.f.func \in {"none", "stun", "telegram", "dtls"}
  /\ stun.f.conf \in {"none", "dpi", "cache"}
  /\ stun.f.max \in 0..StunMaxU8 /\ stun.f.checked \in 0..StunMaxU8
  /\ stun.addrs \subseteq stun.cfg.wanted
  /\ stun.f.app = Unknown => stun.f.master = Unknown

\* "classification doesn't change while in monitoring!": the DTLS branch, which forgets
\* the classification before it looks at the packet, included.
MonitoringIsFinal ==
  [][stun.f.state = "monitoring" =>
       /\ stun'.f.state = "monitoring"
       /\ <<stun'.f.app, stun'.f.master, stun'.f.conf>> = <<stun.f.app, stun.f.master, stun.f.conf>>]_stun

\* The classifications listed at the head of stun.c, read as master/application.
ListedClassification(app, master) ==
  \/ master = Unknown /\ app \in {Unknown, "STUN", "DTLS", "RTP", "RTCP", "TELEGRAM"}
  \/ master = "STUN" /\ app = "RTP"
  \/ master = "DTLS" /\ app = "SRTP"
  \/ master \in {"STUN", "DTLS", "SRTP"} /\ is_subclassification_real_by_proto(app)

\* After every packet the classification is a listed one, or that of a flow of RTCP or
\* Telegram in which DTLS was found; and what the flow puts in the cache are
\* applications, since a transport found there would become the application of other
\* flows.
ListedOrCarried ==
  /\ \/ ListedClassification(stun.f.app, stun.f.master)
     \/ stun.f.master = "DTLS" /\ stun.f.app \in {"RTCP", "TELEGRAM"}
  /\ \A e \in Endpoint :
       stun.cache[e] = Unknown \/ is_subclassification_real_by_proto(stun.cache[e])

\* Outside the monitoring state the extra dissection is over after the packets it was
\* configured for and those granted to one DTLS handshake, however many packets look
\* like the start of DTLS.
ExtraBounded ==
  stun.extra <= (IF stun.cfg.max > TlsMaxUdp THEN stun.cfg.max ELSE TlsMaxUdp) + StunRoom
=============================================================================
