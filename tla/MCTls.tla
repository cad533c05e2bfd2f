-------------------------------- MODULE MCTls --------------------------------
(***************************************************************************)
(* The TLS sessions, the STUN and DTLS packets and the known handshakes    *)
(* that TLC tries.                                                         *)
(***************************************************************************)
EXTENDS TlsDissection, TlsObfuscation, StunDissection

Ext(id) == [id |-> id]

NameExt(name) == [id |-> "server_name", val |-> name]

Alpn(name) == [id |-> "alpn", val |-> name]

ClientHi(exts, version, ciphers, ja4) ==
  [type |-> "client_hello", version |-> version, short |-> "no", exts |-> exts,
   ciphers |-> ciphers, ja4 |-> ja4, late |-> FALSE]

ServerHi(version, exts) ==
  [type |-> "server_hello", version |-> version, short |-> "no", exts |-> exts,
   ciphers |-> {}]

Cert(issuer, subject, names, marks) ==
  [type |-> "certificate", issuer |-> issuer, subject |-> subject, names |-> names,
   marks |-> marks]

OtherMessage == [type |-> "other"]

HandshakeRecord(blocks, size, enc) ==
  [type |-> "handshake", blocks |-> blocks, size |-> size, enc |-> enc, bad |-> FALSE]

PlainRecord(type) == [type |-> type, size |-> 1]

AlertRecord(level) == [type |-> "alert", size |-> 1, level |-> level]

Session(client, server, port, cached, blocks, ookla, heuristics, to) ==
  [send |-> [side \in Dir |-> IF side = 0 THEN client ELSE server], port_proto |-> port,
   cached |-> cached, blocks |-> blocks, ookla |-> ookla, heuristics |-> heuristics, to |-> to]

\* Both sides send a certificate, and both change the cipher.
MutualClient ==
  <<HandshakeRecord(<<ClientHi(<<Ext("unregistered"), NameExt("known"), Alpn("h2"),
                                 [id |-> "signature_algorithms", algs |-> {"eight"}]>>,
                               3, {"chrome", "safari"}, "plain")>>, 2, FALSE),
    HandshakeRecord(<<Cert("client", "client", {}, {}), OtherMessage>>, 1, FALSE),
    PlainRecord("cipher"), HandshakeRecord(<<OtherMessage>>, 1, TRUE), PlainRecord("data")>>

MutualServer ==
  <<HandshakeRecord(<<ServerHi(3, <<Alpn("h2")>>),
                      Cert("ca", "subject_known", {"known"}, {"expired"})>>, 2, FALSE),
    PlainRecord("cipher"), HandshakeRecord(<<OtherMessage>>, 1, TRUE), PlainRecord("data")>>

OldClient ==
  <<HandshakeRecord(<<ClientHi(<<NameExt("numeric"), Ext("encrypt_then_mac"),
                                 Ext("long_padding")>>, 1, {"grease"}, "rule_blocks")>>, 1, FALSE),
    PlainRecord("cipher"), PlainRecord("data")>>

NewServer ==
  <<HandshakeRecord(<<ServerHi(3, <<[id |-> "supported_versions", version |-> 4]>>)>>, 1, FALSE),
    PlainRecord("cipher"), PlainRecord("data")>>

WarningServer ==
  <<AlertRecord("warning"), HandshakeRecord(<<ServerHi(3, <<Alpn("odd")>>)>>, 1, FALSE),
    HandshakeRecord(<<Cert("ca", "ca", {"known", "bad_chars"}, {"too_long"})>>, 1, FALSE),
    AlertRecord("fatal")>>

BadServer ==
  <<[HandshakeRecord(<<OtherMessage>>, 1, FALSE) EXCEPT !.bad = TRUE], AlertRecord("fatal")>>

MCScripts ==
  {Session(MutualClient, MutualServer, "TLS", Unknown, 0, FALSE, FALSE, 0),
   Session(MutualClient, MutualServer, "TLS", "App4", 9, FALSE, FALSE, 2),
   Session(OldClient, NewServer, "TLS", Unknown, 0, TRUE, TRUE, 2),
   Session(OldClient, WarningServer, "IMAPS", Unknown, 4, FALSE, TRUE, 0),
   Session(<<PlainRecord("junk"), PlainRecord("data")>>, WarningServer, "TLS", "App4", 0,
           FALSE, TRUE, 2),
   Session(OldClient, BadServer, "TLS", Unknown, 0, FALSE, FALSE, 2)}

\* The bursts the heuristic for obfuscated TLS takes for a handshake.
MCNear == {<<3, 3, 1, 1>>, <<2, 1, 1, 1>>}
-----------------------------------------------------------------------------
Message(form, turn, attrs) ==
  [kind |-> "stun", form |-> form, turn |-> turn, attrs |-> attrs]

AppAttr(app) == [id |-> "app", app |-> app]

AddressAttr(which) == [id |-> "address", which |-> which]

RealmAttr(realm) == [id |-> "realm", realm |-> realm]

DataAttr(inner) == [id |-> "data", inner |-> inner]

Dtls(dir, records) == [kind |-> "dtls", dir |-> dir, records |-> records]

Whole(msg) == [type |-> "handshake", off |-> 0, len |-> 2, total |-> 2, msg |-> msg]

Half(msg, off) == [type |-> "handshake", off |-> off, len |-> 1, total |-> 2, msg |-> msg]

DtlsHi(ext) == ClientHi(<<ext>>, 3, {}, "plain")

MCStunPackets ==
  LET named == DtlsHi(NameExt("known"))
      media == DtlsHi(Ext("use_srtp"))
  IN  {Message("plain", FALSE, << >>), Message("bad", FALSE, << >>),
       Message("whatsapp", FALSE, << >>),
       Message("plain", TRUE, <<AddressAttr("mapped"), AppAttr("WHATSAPP_CALL"),
                                AddressAttr("relayed")>>),
       Message("plain", FALSE, <<AppAttr("ZOOM"), AppAttr("GOOGLE_CALL")>>),
       Message("plain", TRUE, <<RealmAttr("cloudflare"), AddressAttr("peer"),
                                AddressAttr("mapped")>>),
       Message("plain", TRUE, <<DataAttr(Dtls(0, <<Whole(media)>>))>>),
       Message("plain", FALSE, <<AppAttr("MSTEAMS_CALL"), RealmAttr("junk")>>),
       [kind |-> "channel", inner |-> [kind |-> "rtp"]],
       [kind |-> "msturn", inner |-> Message("plain", FALSE, <<AppAttr("MSTEAMS_CALL")>>)],
       [kind |-> "framed", inner |-> Message("plain", FALSE, <<AddressAttr("peer")>>)],
       [kind |-> "framed", inner |-> Dtls(0, <<Whole(named), [type |-> "cipher"]>>)],
       [kind |-> "rtp"], [kind |-> "other"],
       Dtls(0, <<Whole(media), [type |-> "alert"]>>),
       Dtls(0, <<Half(named, 0)>>), Dtls(0, <<Half(named, 1)>>),
       Dtls(1, <<Whole(Cert("ca", "none", {}, {})), [type |-> "cipher"]>>),
       Dtls(1, <<[type |-> "data"]>>), Dtls(1, <<[type |-> "broken"]>>),
       Dtls(1, <<[type |-> "bad"]>>)}

Config(monitoring, wanted, opportunistic, azure, google, port10000, signal, max) ==
  [monitoring |-> monitoring, wanted |-> wanted, opportunistic |-> opportunistic,
   azure |-> azure, google |-> google, port10000 |-> port10000, signal |-> signal,
   max |-> max]

MCStunConfigs ==
  {Config(FALSE, {"mapped"}, TRUE, FALSE, FALSE, FALSE, TRUE, 2),
   Config(TRUE, {"mapped", "peer", "relayed"}, TRUE, FALSE, FALSE, TRUE, FALSE, 4),
   Config(TRUE, {}, TRUE, TRUE, FALSE, FALSE, FALSE, 3),
   Config(FALSE, {"peer"}, FALSE, FALSE, TRUE, FALSE, FALSE, 2)}
=============================================================================
