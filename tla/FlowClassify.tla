----------------------------- MODULE FlowClassify -----------------------------
(***************************************************************************)
(* How the library changes the classification of one flow: the functions   *)
(* of ndpi_main.c every dissector and every API call goes through.         *)
(*                                                                         *)
(* A classification c is the part of struct ndpi_flow_struct they write:   *)
(*   upper, lower          detected_protocol_stack[0] and [1]              *)
(*   confidence            ndpi_confidence_t                               *)
(*   protocol_stack        struct ndpi_proto_stack                         *)
(*   state                 ndpi_classification_state                       *)
(*   already_gaveup, protocol_was_guessed                                  *)
(*   errors                the NDPI_LOG_ERR branches taken so far          *)
(*                                                                         *)
(* An environment e is what they read: the flow's l4_proto, the guesses of *)
(* do_guess(), the partial classification fast_callback_protocol_id, and   *)
(* hits, the set of lookups in tables shared with other flows that succeed *)
(* during this call.                                                       *)
(***************************************************************************)
EXTENDS ProtoStack

CONSTANTS Protocol,          \* protocol ids, without NDPI_PROTOCOL_UNKNOWN
          CustomProtocol,    \* the ids ndpi_is_custom_protocol() accepts
          MiningProtocol,    \* what the mining cache returns on a hit
          FingerprintProtocol, \* what the custom fingerprint table returns
          GuessOnGiveup,     \* cfg.guess_on_giveup
          GuessIpBeforePort  \* cfg.guess_ip_before_port

\* Protocols the code names itself.
NamedProtocol == {"TLS", "DTLS", "STUN", "SRTP", "MSTEAMS", "MSTEAMS_CALL",
                  "TELEGRAM", "BITTORRENT", "OOKLA"}

MicrosoftService == {"MICROSOFT_365", "MS_ONE_DRIVE", "MS_OUTLOOK", "MSTEAMS"}

ASSUME ProtocolAssumption ==
    /\ NamedProtocol \subseteq Protocol
    /\ UNKNOWN \notin Protocol
    /\ CustomProtocol \subseteq Protocol
    /\ MiningProtocol \in Protocol
    /\ FingerprintProtocol \in Protocol
    /\ GuessOnGiveup \subseteq {"BY_PORT", "BY_IP"}
    /\ GuessIpBeforePort \in BOOLEAN

ProtocolOrUnknown == Protocol \union {UNKNOWN}

FlowState == {"INSPECTING", "PARTIAL", "MONITORING", "CLASSIFIED"}

Confidence == {"UNKNOWN", "MATCH_BY_PORT", "NBPF", "DPI_PARTIAL", "DPI_PARTIAL_CACHE",
               "DPI_CACHE", "DPI", "MATCH_BY_IP", "DPI_AGGRESSIVE", "CUSTOM_RULE"}

\* Where NDPI_LOG_ERR reports something that should not have happened.
ErrorBranch == {"update_while_monitoring", "already_called", "already_classified"}

Hit == {"teams_port", "msteams_cache", "bittorrent_cache", "mining_cache",
        "ookla_cache", "fingerprint_rule", "fpc_dns_cache"}

Classification ==
    [upper : ProtocolOrUnknown, lower : ProtocolOrUnknown, confidence : Confidence,
     protocol_stack : Seq(Protocol), state : FlowState,
     already_gaveup : BOOLEAN, protocol_was_guessed : BOOLEAN,
     errors : SUBSET ErrorBranch]

Environment ==
    [l4 : {"TCP", "UDP", "OTHER"}, by_port : ProtocolOrUnknown, by_ip : ProtocolOrUnknown,
     fast : ProtocolOrUnknown, hits : SUBSET Hit]

NewClassification ==
    [upper |-> UNKNOWN, lower |-> UNKNOWN, confidence |-> "UNKNOWN",
     protocol_stack |-> proto_stack_reset, state |-> "INSPECTING",
     already_gaveup |-> FALSE, protocol_was_guessed |-> FALSE, errors |-> {}]

-----------------------------------------------------------------------------

ndpi_int_change_protocol(c, upper, lower, confidence) ==
    LET up == IF upper = UNKNOWN THEN lower ELSE upper
    IN  [c EXCEPT !.upper = up,
                  !.lower = IF lower = up THEN UNKNOWN ELSE lower,
                  !.confidence = confidence]

ndpi_reconcile_msteams_udp(c, master, e) ==
    IF e.l4 = "UDP" /\ "teams_port" \in e.hits
    THEN ndpi_int_change_protocol(c, "MSTEAMS_CALL", master, c.confidence)
    ELSE c

\* A classification by port or by IP is left alone.  The additions to the
\* MS Teams cache are the business of LruCache; the risks set here are not
\* part of the classification.
ndpi_reconcile_protocols(c, e) ==
    IF c.confidence \in {"MATCH_BY_PORT", "MATCH_BY_IP"} THEN c
    ELSE IF c.upper = "MICROSOFT_AZURE" THEN ndpi_reconcile_msteams_udp(c, c.lower, e)
    ELSE IF c.upper = "STUN" /\ e.by_ip = "MICROSOFT_AZURE" THEN
        ndpi_reconcile_msteams_udp(c, "STUN", e)
    ELSE IF /\ c.upper = "TLS" /\ c.lower = UNKNOWN
            /\ e.by_ip = "MICROSOFT_AZURE" /\ "msteams_cache" \in e.hits THEN
        ndpi_int_change_protocol(c, "MSTEAMS", "TLS", "DPI_PARTIAL")
    ELSE IF c.upper = "TLS" /\ e.by_ip = "TELEGRAM" THEN
        ndpi_int_change_protocol(c, e.by_ip, c.upper, "DPI_PARTIAL")
    ELSE IF c.upper = "MICROSOFT" /\ e.by_ip \in MicrosoftService THEN
        ndpi_int_change_protocol(c, e.by_ip, c.lower, "DPI_PARTIAL")
    ELSE c

\* Wrong on purpose: the state is not advanced.
Detected_KeepsState(c, upper, lower, confidence, e) ==
    LET r == ndpi_reconcile_protocols(
                 ndpi_int_change_protocol(c, upper, lower, confidence), e)
    IN  [r EXCEPT !.protocol_stack = proto_stack_update(r.protocol_stack, r.lower, r.upper)]

\* The part of ndpi_set_detected_protocol() after the check of the state.
Detected(c, upper, lower, confidence, e) ==
    LET r == ndpi_reconcile_protocols(
                 ndpi_int_change_protocol(c, upper, lower, confidence), e)
    IN  [r EXCEPT !.protocol_stack = proto_stack_update(r.protocol_stack, r.lower, r.upper),
                  !.state = "PARTIAL"]

\* Wrong on purpose: a flow in MONITORING is updated.
ndpi_set_detected_protocol_Always(c, upper, lower, confidence, e) ==
    Detected(c, upper, lower, confidence, e)

ndpi_set_detected_protocol(c, upper, lower, confidence, e) ==
    IF c.state = "MONITORING"
    THEN [c EXCEPT !.errors = @ \union {"update_while_monitoring"}]
    ELSE Detected(c, upper, lower, confidence, e)

ndpi_set_detected_protocol_keeping_master(c, proto, confidence, e) ==
    LET master == IF c.lower # UNKNOWN THEN c.lower ELSE c.upper
    IN  IF master # UNKNOWN
        THEN ndpi_set_detected_protocol(c, proto, master, confidence, e)
        ELSE ndpi_set_detected_protocol(c, UNKNOWN, proto, confidence, e)

reset_detected_protocol(c) ==
    [c EXCEPT !.upper = UNKNOWN, !.lower = UNKNOWN, !.confidence = "UNKNOWN"]

ndpi_tls_refine_master_protocol(e) == IF e.l4 = "TCP" THEN "TLS" ELSE "DTLS"

ndpi_get_master_proto(c, e) ==
    IF c.lower # UNKNOWN THEN c.lower
    ELSE IF c.upper # UNKNOWN THEN c.upper
    ELSE ndpi_tls_refine_master_protocol(e)

-----------------------------------------------------------------------------

\* The custom rule on a TLS fingerprint, which internal_giveup() looks up last
\* and which may still replace the classification.
ndpi_compute_ndpi_flow_fingerprint(c, e) ==
    IF "fingerprint_rule" \in e.hits /\ ndpi_stack_is_tls_like(c.protocol_stack)
    THEN ndpi_set_detected_protocol(c, FingerprintProtocol,
                                    ndpi_get_master_proto(c, e), "CUSTOM_RULE", e)
    ELSE c

FingerprintStep(c, e) ==
    IF c.confidence \in {"MATCH_BY_PORT", "MATCH_BY_IP"}
    THEN c
    ELSE ndpi_compute_ndpi_flow_fingerprint(c, e)

CloseState(c) ==
    IF c.state = "CLASSIFIED" THEN [c EXCEPT !.errors = @ \union {"already_classified"}]
    ELSE IF c.state = "MONITORING" THEN c
    ELSE [c EXCEPT !.state = "CLASSIFIED"]

internal_giveup(c, e) ==
    IF c.already_gaveup
    THEN [c EXCEPT !.errors = @ \union {"already_called"}]
    ELSE CloseState(FingerprintStep([c EXCEPT !.already_gaveup = TRUE], e))

\* The sources of a guess in the order giveup tries them; each is used only
\* when the ones before it left detected_protocol_stack[0] unknown, that is,
\* did not apply: a guess always names a protocol.
Source(applies, upper, lower, confidence) ==
    [applies |-> applies, upper |-> upper, lower |-> lower, confidence |-> confidence]

ByIp(c, e) ==
    Source("BY_IP" \in GuessOnGiveup /\ e.by_ip # UNKNOWN, e.by_ip, c.lower, "MATCH_BY_IP")

ByPort(e) ==
    Source("BY_PORT" \in GuessOnGiveup /\ e.by_port # UNKNOWN, e.by_port, UNKNOWN,
           "MATCH_BY_PORT")

\* Wrong on purpose: the sense of guess_ip_before_port is swapped.
GuessSources_Swapped(c, e) ==
    <<Source(e.fast # UNKNOWN, e.fast, UNKNOWN, "DPI_PARTIAL"),
      Source("bittorrent_cache" \in e.hits, "BITTORRENT", UNKNOWN, "DPI_PARTIAL_CACHE"),
      Source("mining_cache" \in e.hits, MiningProtocol, UNKNOWN, "DPI_PARTIAL_CACHE"),
      Source("ookla_cache" \in e.hits, "OOKLA", UNKNOWN, "DPI_PARTIAL_CACHE"),
      IF GuessIpBeforePort THEN ByPort(e) ELSE ByIp(c, e),
      IF GuessIpBeforePort THEN ByIp(c, e) ELSE ByPort(e)>>

GuessSources(c, e) ==
    <<Source(e.fast # UNKNOWN, e.fast, UNKNOWN, "DPI_PARTIAL"),
      Source("bittorrent_cache" \in e.hits, "BITTORRENT", UNKNOWN, "DPI_PARTIAL_CACHE"),
      Source("mining_cache" \in e.hits, MiningProtocol, UNKNOWN, "DPI_PARTIAL_CACHE"),
      Source("ookla_cache" \in e.hits, "OOKLA", UNKNOWN, "DPI_PARTIAL_CACHE"),
      IF GuessIpBeforePort THEN ByIp(c, e) ELSE ByPort(e),
      IF GuessIpBeforePort THEN ByPort(e) ELSE ByIp(c, e)>>

Applicable(c, e) == {i \in 1..6 : GuessSources(c, e)[i].applies}

\* The classification from the first source that applies.
Guessed(c, e) ==
    IF Applicable(c, e) = {} THEN c
    ELSE LET i   == CHOOSE i \in Applicable(c, e) : \A j \in Applicable(c, e) : i <= j
             src == GuessSources(c, e)[i]
         IN  [ndpi_set_detected_protocol(c, src.upper, src.lower, src.confidence, e)
                EXCEPT !.protocol_was_guessed = TRUE]

\* Wrong on purpose: a classified flow is given up again.
ndpi_internal_detection_giveup_Again(c, e) ==
    IF c.upper # UNKNOWN THEN internal_giveup(c, e)
    ELSE internal_giveup(Guessed(c, e), e)

ndpi_internal_detection_giveup(c, e) ==
    IF c.state = "CLASSIFIED" THEN c
    ELSE IF c.upper # UNKNOWN THEN internal_giveup(c, e)
    ELSE internal_giveup(Guessed(c, e), e)
=============================================================================
