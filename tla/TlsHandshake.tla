----------------------------- MODULE TlsHandshake -----------------------------
(***************************************************************************)
(* What the (D)TLS dissector learns from one handshake message             *)
(* (src/lib/protocols/tls.c), on a record that holds the flow's fields.    *)
(* The operators are used by the TLS dissector, which reads records from   *)
(* TCP, and by the STUN dissector, which finds DTLS among its packets.     *)
(* Names, algorithms and fingerprints are marks of a message; versions are *)
(* 1 (before TLS 1.1), 2 (1.1), 3 (1.2, DTLS 1.0 and 1.2), 4 (1.3), 0 when *)
(* not known yet.  Every feature of the configuration is on.               *)
(***************************************************************************)
EXTENDS Integers, Sequences, SequencesExt, FiniteSets

CONSTANTS TlsMaxTcp,       \* extra packets of a TLS flow (12)
          TlsMaxUdp,       \* extra packets of a DTLS flow (20)
          TlsCounter       \* values of the one-byte packet counters

Unknown == "Unknown"

\* The TLS part of a flow: UDP or TCP, the protocol the mail ports give, what the
\* cache of certificates knows of the server, tls_max_num_blocks_to_analyze.
NewTls(udp, port_proto, cached, blocks) ==
  [udp |-> udp, port_proto |-> port_proto, app |-> Unknown, master |-> Unknown,
   conf |-> "none", state |-> "inspecting", func |-> "none", max |-> 0, checked |-> 0,
   maybe_dtls |-> FALSE, from_rdp |-> FALSE, opportunistic |-> FALSE,
   ch |-> FALSE, sh |-> FALSE, ch_dir |-> 0, cert |-> FALSE,
   version |-> 0, host |-> "none", sub |-> FALSE, alpn |-> "none",
   negotiated |-> "none", versions |-> FALSE, webrtc |-> FALSE, ech |-> FALSE,
   browser |-> {}, ja4 |-> "none", risks |-> {}, issuer |-> "none",
   subject |-> "none", names |-> {}, num_blocks |-> 0, cert_cache |-> cached,
   signal_cache |-> FALSE, blocks |-> blocks]

\* A reassembly buffer; 0 means that no number is expected yet.
NoReassembly == [buffer |-> << >>, next_seq |-> 0]

\* Cells with number seq, followed by number next: the expected ones are appended, any
\* when no number is expected.
ndpi_search_tls_memory(m, cells, seq, next) ==
  IF m.next_seq # 0 /\ seq # m.next_seq THEN m
  ELSE [buffer |-> m.buffer \o cells, next_seq |-> next]

AddRisk(t, r) == [t EXCEPT !.risks = @ \cup {r}]

\* ndpi_set_detected_protocol: refused while the flow is only monitored; the pair is
\* normalised so that the application comes first.
SetDetected(t, upper, lower, conf) ==
  LET a == IF upper = Unknown THEN lower ELSE upper
      b == IF lower = a THEN Unknown ELSE lower
  IN IF t.state = "monitoring" THEN t
     ELSE [t EXCEPT !.app = a, !.master = b, !.conf = conf, !.state = "partial"]

\* The protocol of the transport when nothing is known yet.
ndpi_tls_refine_master_protocol(t) ==
  IF t.udp \/ t.maybe_dtls THEN "DTLS" ELSE t.port_proto

ndpi_get_master_proto(t) ==
  IF t.master # Unknown THEN t.master
  ELSE IF t.app # Unknown THEN t.app
  ELSE ndpi_tls_refine_master_protocol(t)

tlsInitExtraPacketProcessing(t) ==
  [t EXCEPT !.max = ((IF t.udp THEN TlsMaxUdp ELSE TlsMaxTcp) + t.blocks * 4) % TlsCounter,
            !.func = IF t.udp THEN "dtls" ELSE "tls"]

\* The flow is TLS; a dissection that already goes on, STUN's for instance, is kept.
ndpi_int_tls_add_connection(t) ==
  LET p == ndpi_get_master_proto(t)
      s == IF t.app = Unknown /\ t.master = Unknown THEN SetDetected(t, p, p, "dpi") ELSE t
  IN IF t.app = "RDP" THEN SetDetected(t, "RDP", "TLS", "dpi")
     ELSE IF s.func = "none" THEN tlsInitExtraPacketProcessing(s) ELSE s

\* A server whose certificate named an application before.
checkTLSSubprotocol(t) ==
  IF t.master # Unknown \/ t.cert_cache = Unknown THEN t
  ELSE LET s == SetDetected(t, t.cert_cache, ndpi_get_master_proto(t), "cache")
       IN [s EXCEPT !.risks = @ \ {"numeric_host"}]

\* The fingerprint of the client against the custom rules and the malicious list; a
\* rule on the first records only counts when all of them were seen.
tls_match_ja4(t) ==
  LET rule == \/ t.ja4 = "rule"
              \/ t.ja4 = "rule_blocks" /\ t.blocks > 0 /\ t.blocks <= 8
                                       /\ ~t.udp /\ t.num_blocks = t.blocks
      s == IF rule THEN SetDetected(t, "Custom", ndpi_get_master_proto(t), "custom") ELSE t
  IN IF t.ja4 = "malicious" THEN AddRisk(s, "malicious_fingerprint") ELSE s

\* Extensions outside the registry, of DTLS in TLS, or cut short.
checkExtensions(t, x) ==
  IF x = "cut" \/ x = "unregistered" \/ (x = "dtls_only" /\ ~t.udp /\ ~t.maybe_dtls)
    THEN AddRisk(t, "suspicious_extension") ELSE t

tlsCheckUncommonALPN(t, alpn) == IF alpn = "odd" THEN AddRisk(t, "uncommon_alpn") ELSE t

tls_subclassify_by_alpn(t) ==
  IF t.alpn # "anydesk" THEN t
  ELSE [SetDetected(t, "AnyDesk", ndpi_get_master_proto(t), "dpi") EXCEPT !.sub = TRUE]

\* The name matches a known application.
NameMatch(t, app) ==
  [SetDetected(t, app, ndpi_get_master_proto(t), "dpi") EXCEPT !.sub = TRUE]

\* Wrong on purpose: a name is matched after an application was found.
MayMatch_Again(t) == ~t.from_rdp

\* A name may be matched only once, and not in RDP.
MayMatch(t) == ~t.sub /\ ~t.from_rdp

\* A name that was kept: matched once, checked for odd characters, addresses and
\* generated names.
NameKept(t, name) ==
  IF name = "bad_chars" THEN [t EXCEPT !.risks = @ \cup {"invalid_characters", "exploit"}]
  ELSE IF name = "known" /\ MayMatch(t) THEN NameMatch(t, "App1")
  ELSE IF name = "numeric" /\ ~t.sub THEN AddRisk(t, "numeric_host")
  ELSE IF name = "signal" THEN [t EXCEPT !.signal_cache = TRUE]
  ELSE IF name = "www_generated"
    THEN SetDetected(AddRisk(t, "dga"), "Tor", ndpi_get_master_proto(t), "dpi")
  ELSE IF name = "unresolved" THEN AddRisk(t, "unresolved_hostname") ELSE t

\* server_name.
ServerName(t, name) == NameKept([t EXCEPT !.host = name], name)

\* ALPN of the client: the first one is kept and checked.
AdvertisedAlpn(t, alpn) ==
  IF t.alpn # "none" THEN t
  ELSE LET s == tlsCheckUncommonALPN([t EXCEPT !.alpn = alpn], alpn)
       IN IF s.sub THEN s ELSE tls_subclassify_by_alpn(s)

\* Cipher suites: GREASE excludes Safari; both lists may match.
CipherSuites(t, ciphers) ==
  LET a == IF "grease" \in ciphers THEN t.browser \ {"safari"}
           ELSE IF "safari" \in ciphers THEN t.browser \cup {"safari"} ELSE t.browser
  IN [t EXCEPT !.browser = a \cup (ciphers \cap {"chrome"})]

\* signature_algorithms: refines the guess of the browser.
SignatureAlgorithms(t, algs) ==
  LET a == t.browser \cup (algs \cap {"firefox"})
      b == IF "firefox" \in a THEN a \ {"safari", "chrome"} ELSE a
      c == IF "eight" \in algs THEN b ELSE b \ {"safari", "chrome"}
      d == IF "duplicate" \in algs THEN c \ {"chrome"} ELSE c
      e == IF "safari" \in d THEN d \ {"chrome"} ELSE d
  IN [t EXCEPT !.browser = IF "chrome" \notin e /\ "duplicate" \in algs THEN e \cup {"safari"} ELSE e]

\* encrypt_then_mac without ALPN and with a generated-looking name.
EncryptThenMac(t) ==
  IF t.alpn = "none" /\ t.host = "www_digits"
    THEN SetDetected(t, "Tor", ndpi_get_master_proto(t), "dpi") ELSE t

\* use_srtp: DTLS found by STUN, or a flow already known as DTLS.
UseSrtp(t) == IF t.maybe_dtls \/ t.app = "DTLS" THEN [t EXCEPT !.webrtc = TRUE] ELSE t

\* One extension of a client hello: [id, val].
ClientExtension(t, x) ==
  LET s == checkExtensions(t, x.id)
  IN IF x.id = "server_name" THEN ServerName(s, x.val)
     ELSE IF x.id = "alpn" THEN AdvertisedAlpn(s, x.val)
     ELSE IF x.id = "signature_algorithms" THEN SignatureAlgorithms(s, x.algs)
     ELSE IF x.id = "use_srtp" THEN UseSrtp(s)
     ELSE IF x.id = "supported_versions" THEN [s EXCEPT !.versions = TRUE]
     ELSE IF x.id = "ech" THEN [s EXCEPT !.ech = TRUE]
     ELSE IF x.id = "long_padding" THEN AddRisk(s, "obfuscated")
     ELSE IF x.id = "encrypt_then_mac" THEN EncryptThenMac(s)
     ELSE s

\* Place of the first extension that is cut short, 0 when there is none.
FirstCut(exts) == SelectInSeq(exts, LAMBDA x : x.id \in {"cut", "alpn_overrun"})

\* The extensions in their order; one that is cut is reported and ends the list.
ClientExtensions(t, exts) ==
  LET n == FirstCut(exts)
  IN FoldLeft(ClientExtension, t, IF n = 0 THEN exts ELSE SubSeq(exts, 1, n))

\* The fingerprint of the hello, over the ciphers and the extensions.
ndpi_compute_ja4(t, m) == [t EXCEPT !.ja4 = m.ja4]

\* What is missing in a hello is a risk, except in WebRTC.
FinalChecks(t) ==
  LET a == IF t.version >= 3 /\ ~t.webrtc /\ t.alpn = "none" THEN AddRisk(t, "not_https") ELSE t
      nosni == t.host = "none" /\ t.version >= 2 /\ ~t.webrtc
  IN IF ~nosni THEN a
     ELSE [a EXCEPT !.risks = @ \cup {"missing_sni"}
                              \cup (IF t.alpn = "h2" THEN {"alpn_sni_mismatch"} ELSE {})]

\* The fingerprint, when there is one, and the checks that end a hello.
HelloEnd(t, m) ==
  FinalChecks(IF m.ja4 = "invalid" THEN t ELSE tls_match_ja4(ndpi_compute_ja4(t, m)))

\* processClientServerHello, client side; "short" hellos end where they are cut.
ClientHello(t, m) ==
  LET a == [t EXCEPT !.version = m.version]
      b == IF m.version < 3 THEN AddRisk(a, "obsolete_version") ELSE a
      c == CipherSuites(b, m.ciphers)
  IN IF m.short = "body" THEN t
     ELSE IF m.short = "session" THEN b
     ELSE IF m.short = "extensions" THEN c
     ELSE HelloEnd(ClientExtensions(c, m.exts), m)

\* One extension of a server hello.
ServerExtension(t, x) ==
  LET s == checkExtensions(t, x.id)
      a == [s EXCEPT !.negotiated = IF @ = "none" THEN x.val ELSE @]
  IN IF x.id = "supported_versions" THEN [s EXCEPT !.version = x.version]
     ELSE IF x.id = "alpn"
       THEN IF a.alpn = "none" THEN tlsCheckUncommonALPN(a, a.negotiated) ELSE a
     ELSE s

\* processClientServerHello, server side: the server decides the version when its
\* extension says so, or when no client hello was seen.
ServerHello(t, m) ==
  LET a == IF "weak" \in m.ciphers THEN AddRisk(t, "weak_cipher") ELSE t
      n == FirstCut(m.exts)
      b == FoldLeft(ServerExtension, a, IF n = 0 THEN m.exts ELSE SubSeq(m.exts, 1, n - 1))
  IN IF m.short # "no" THEN t
     ELSE IF n # 0 /\ m.exts[n].id = "alpn_overrun" THEN b
     ELSE [b EXCEPT !.version = IF @ = 0 THEN m.version ELSE @]

\* Names of the certificate: matched against the requested one, kept, and used for
\* the sub-classification.
SubjectAltName(t, names) ==
  LET match(s, n) == IF n = "known" /\ MayMatch(s)
                       THEN [NameMatch(s, "App2") EXCEPT !.risks = @ \ {"numeric_host"}] ELSE s
      order == SetToSeq(names)
      odd == IF "bad_chars" \in names THEN {"invalid_characters", "exploit"} ELSE {}
      a == FoldLeft(match, [t EXCEPT !.names = @ \cup names, !.risks = @ \cup odd], order)
  IN IF t.host = "none" \/ t.host \in names THEN a ELSE AddRisk(a, "certificate_mismatch")

\* Validity: too long, over, or about to be.
Validity(t, marks) ==
  [t EXCEPT !.risks = @ \cup (marks \cap {"too_long", "expired", "about_to_expire"})]

\* Subject: the first one is kept; without a sub-classification it may give one,
\* which other flows to this server then find in the cache.
Subject(t, name) ==
  LET a == [t EXCEPT !.subject = name]
      b == SetDetected(a, "App3", ndpi_get_master_proto(a), "dpi")
  IN IF name = "none" \/ t.subject # "none" THEN t
     ELSE IF name = "subject_known" /\ t.master = Unknown
       THEN [b EXCEPT !.cert_cache = "App3", !.risks = @ \ {"numeric_host"}]
     ELSE a

\* Subject and issuer are the same, and it is not a trusted one.
SelfSigned(t, m) ==
  IF t.subject # "none" /\ t.subject = t.issuer /\ "trusted" \notin m.marks /\ ~t.webrtc
    THEN AddRisk(t, "self_signed") ELSE t

processCertificateElements(t, m) ==
  LET bad == IF t.issuer = "none" THEN m.marks \cap {"invalid_characters"} ELSE {}
      a == Validity([t EXCEPT !.issuer = IF @ = "none" THEN m.issuer ELSE @,
                              !.risks = @ \cup bad], m.marks)
      b == IF m.names = {} THEN a ELSE SubjectAltName(a, m.names)
  IN SelfSigned(Subject(b, m.subject), m)

\* With all the wanted records seen the extra dissection is over.
CertificateEnd(t) ==
  IF t.blocks # 0 /\ t.num_blocks >= t.blocks THEN [tls_match_ja4(t) EXCEPT !.func = "none"]
  ELSE t

\* Only the first certificate of the chain.
processCertificate(t, m) ==
  LET a == IF "malicious" \in m.marks THEN AddRisk(t, "malicious_certificate") ELSE t
  IN IF "bad_length" \in m.marks THEN AddRisk(t, "malformed")
     ELSE CertificateEnd(processCertificateElements(a, m))

\* A hello tells which side is the client.
ClientHelloSeen(t, dir) == [t EXCEPT !.ch = TRUE, !.ch_dir = dir]

ServerHelloSeen(t, dir) == [t EXCEPT !.sh = TRUE, !.ch_dir = 1 - dir]

\* The certificate counts when it comes from the server's side.
FromServer(t, dir) == t.ch_dir # dir

\* A client hello long after the handshake of TCP.
SlowHello(t, m) == IF m.late THEN AddRisk(t, "slow") ELSE t

\* With TLS 1.3 the certificate is encrypted: none will be seen.
NoCertificate(t) == [t EXCEPT !.cert = @ \/ t.version = 4]

\* One handshake message of direction dir.
processHandshakeTLSBlock(t, dir, m) ==
  IF m.type = "client_hello"
    THEN checkTLSSubprotocol(SlowHello(ndpi_int_tls_add_connection(
           ClientHello(ClientHelloSeen(t, dir), m)), m))
  ELSE IF m.type = "server_hello"
    THEN checkTLSSubprotocol(NoCertificate(ndpi_int_tls_add_connection(
           ServerHello(ServerHelloSeen(t, dir), m))))
  ELSE IF m.type = "certificate" /\ (t.ch \/ t.sh)
    THEN [(IF FromServer(t, dir) THEN processCertificate(t, m) ELSE t) EXCEPT !.cert = TRUE]
  ELSE t
=============================================================================
