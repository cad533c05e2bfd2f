--------------------------- MODULE MCFlowDetection ---------------------------
(***************************************************************************)
(* A small set of registered dissectors for TLC: a TLS dissector that      *)
(* needs several packets, an HTTP dissector with a subprotocol, a STUN     *)
(* dissector that ends in monitoring, an S7 one that starts there and a    *)
(* Telegram one that repeats the guess by IP address.                      *)
(***************************************************************************)
EXTENDS FlowDetection

MCProtocol == NamedProtocol \union
    {"HTTP", "SOAP", "S7COMM", "CUSTOM", "MICROSOFT", "MICROSOFT_AZURE", "MS_OUTLOOK", "MINING"}

MCDissector == {"tls", "http", "soap", "stun", "s7", "telegram"}

MCCallbackBuffer ==
    [b \in BufferName |->
        CASE b = "tcp_payload"    -> <<"http", "tls", "s7", "telegram">>
          [] b = "tcp_no_payload" -> <<>>
          [] b = "udp"            -> <<"stun">>
          [] b = "non_tcp_udp"    -> <<>>]

MCSelection ==
    [d \in MCDissector |->
        CASE d \in {"http", "soap", "tls", "s7", "telegram"} -> {"TCP", "HAS_PAYLOAD", "NO_TCP_RETRANSMISSION"}
          [] d = "stun" -> {"UDP", "HAS_PAYLOAD"}]

MCDissectorOf ==
    [p \in MCProtocol |->
        CASE p = "TLS" -> "tls" [] p = "HTTP" -> "http" [] p = "SOAP" -> "soap"
          [] p = "STUN" -> "stun" [] p = "S7COMM" -> "s7" [] p = "TELEGRAM" -> "telegram"
          [] OTHER -> NULL]

MCSubprotocols == [p \in MCProtocol |-> IF p = "HTTP" THEN <<"SOAP">> ELSE <<>>]

MCVerdict ==
    [d \in MCDissector |->
        CASE d = "tls"  -> {<<"TLS", UNKNOWN, "DPI">>}
          [] d = "http" -> {<<"HTTP", UNKNOWN, "DPI">>, <<"MICROSOFT", "HTTP", "DPI">>}
          [] d = "soap" -> {<<"SOAP", "HTTP", "DPI">>}
          [] d = "stun" -> {<<"STUN", UNKNOWN, "DPI">>}
          [] d = "s7"   -> {<<"S7COMM", UNKNOWN, "DPI">>}
          [] d = "telegram" -> {<<"TELEGRAM", UNKNOWN, "MATCH_BY_IP">>}]

MCPartialVerdict == [d \in MCDissector |-> IF d = "tls" THEN {"TLS"} ELSE {}]

MCExtraMax ==
    [d \in MCDissector |->
        CASE d = "tls" -> {2} [] d = "stun" -> {0, 1} [] OTHER -> {}]

P(valid, l4hdr, payload, retransmission) ==
    [valid |-> valid, l4hdr |-> l4hdr, payload |-> payload, retransmission |-> retransmission]

MCPacketKind == {P(FALSE, FALSE, FALSE, FALSE), P(TRUE, TRUE, TRUE, FALSE),
                 P(TRUE, TRUE, TRUE, TRUE), P(TRUE, TRUE, FALSE, FALSE),
                 P(TRUE, FALSE, TRUE, FALSE)}

\* Packets that an extra dissection counts.
MCFullPackets == {P(TRUE, TRUE, TRUE, FALSE)}

MCHitSets == {{}, {"teams_port", "msteams_cache", "bittorrent_cache", "fpc_dns_cache"},
              {"mining_cache"}, {"ookla_cache", "fingerprint_rule"}}
=============================================================================
