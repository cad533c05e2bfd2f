------------------------------ MODULE ProtoStack ------------------------------
(***************************************************************************)
(* struct ndpi_proto_stack: the list of protocols a flow has been           *)
(* classified as, lowest layer first, and the functions of ndpi_main.c      *)
(* that maintain and read it.  protos[0 .. protos_num-1] is the sequence s; *)
(* protocol ids are strings, "UNKNOWN" is NDPI_PROTOCOL_UNKNOWN (0).        *)
(***************************************************************************)
EXTENDS Naturals, Sequences

CONSTANT NDPI_PROTOCOL_STACK_SIZE

ASSUME StackSizeAssumption == NDPI_PROTOCOL_STACK_SIZE \in Nat \ {0}

UNKNOWN == "UNKNOWN"

\* The encrypted transports that ndpi_stack_is_tls_like() and
\* ndpi_stack_get_lower_proto() single out.
TlsLike == {"TLS", "DTLS", "QUIC", "MAIL_POPS", "MAIL_IMAPS", "MAIL_SMTPS", "FTPS"}

HttpLike == {"HTTP", "HTTP_CONNECT", "HTTP_PROXY"}

Top(s) == s[Len(s)]

Pop(s) == SubSeq(s, 1, Len(s) - 1)

Contains(s, p) == \E i \in DOMAIN s : s[i] = p

-----------------------------------------------------------------------------

\* Wrong on purpose: the top of the stack is not compared.
proto_stack_push_Repeats(s, proto) ==
    IF Len(s) < NDPI_PROTOCOL_STACK_SIZE - 1 THEN Append(s, proto) ELSE s

proto_stack_push(s, proto) ==
    IF Len(s) < NDPI_PROTOCOL_STACK_SIZE - 1 /\ ~(Len(s) > 0 /\ Top(s) = proto)
    THEN Append(s, proto)
    ELSE s

proto_stack_reset == <<>>

\* Wrong on purpose: NDPI_PROTOCOL_UNKNOWN is pushed like any other.
PushPair_PushesUnknown(s, lower, upper) ==
    proto_stack_push(proto_stack_push(s, lower), upper)

\* The last lines of proto_stack_update(): the lower protocol is pushed unless
\* it is already the bottom of the stack.
PushPair(s, lower, upper) ==
    IF lower = UNKNOWN \/ (Len(s) > 0 /\ s[1] = lower)
    THEN proto_stack_push(s, upper)
    ELSE proto_stack_push(proto_stack_push(s, lower), upper)

\* RDP + TLS/RDP -> RDP/TLS
AddToShort(s, lower, upper) ==
    IF Len(s) = 1 /\ Top(s) = upper /\ lower = "TLS"
    THEN PushPair(s, UNKNOWN, "TLS")
    ELSE PushPair(s, lower, upper)

\* RTCP + STUN/RTP -> STUN/RTP, and STUN/APP + DTLS/APP -> STUN/DTLS/APP: what
\* the new pair replaces is popped first.
AddReplacing(s, lower, upper) ==
    CASE Len(s) = 1 /\ Top(s) \in {"RTP", "RTCP"} /\ lower = "STUN" ->
            AddToShort(Pop(s), lower, upper)
      [] Len(s) >= 2 /\ Top(s) = upper -> AddToShort(Pop(s), lower, upper)
      [] OTHER -> AddToShort(s, lower, upper)

\* SRTP/APP is kept as APP/SRTP; STUN/APP + DTLS -> STUN/DTLS/APP.
proto_stack_update(s, lower, upper) ==
    CASE lower = "SRTP" -> AddReplacing(s, upper, "SRTP")
      [] lower = UNKNOWN /\ upper \in {"TLS", "DTLS"} /\ Len(s) >= 2 ->
            AddReplacing(s, upper, Top(s))
      [] OTHER -> AddReplacing(s, lower, upper)

-----------------------------------------------------------------------------

ndpi_stack_get_upper_proto(s) ==
    CASE Len(s) = 0 -> UNKNOWN
      [] Len(s) = 1 -> s[1]
      [] Len(s) > 1 ->
            IF \/ Top(s) = "TLS"
               \/ Top(s) = "SRTP" /\ s[Len(s) - 1] # "DTLS"
            THEN s[Len(s) - 1]
            ELSE Top(s)

\* The first element of s that is in P; s has one.
FirstIn(s, P) ==
    s[CHOOSE i \in DOMAIN s : s[i] \in P /\ \A j \in 1..(i - 1) : s[j] \notin P]

ndpi_stack_is_tls_like(s) == \E p \in TlsLike : Contains(s, p)

ndpi_stack_is_http_like(s) == \E p \in HttpLike : Contains(s, p)

ndpi_stack_get_lower_proto(s) ==
    CASE Len(s) = 0 -> UNKNOWN
      [] Len(s) = 1 -> s[1]
      [] Len(s) > 1 ->
            IF ndpi_stack_is_tls_like(s) THEN FirstIn(s, TlsLike)
            ELSE IF Contains(s, "SRTP") THEN "SRTP"
            ELSE IF Contains(s, "STUN") THEN "STUN"
            ELSE s[1]

-----------------------------------------------------------------------------

\* A stack the code may hold: bounded, without NDPI_PROTOCOL_UNKNOWN (what the
\* DEBUG_STACK build asserts) and without an entry repeated next to itself.
WellFormedStack(s) ==
    /\ Len(s) < NDPI_PROTOCOL_STACK_SIZE
    /\ \A i \in DOMAIN s : s[i] # UNKNOWN
    /\ \A i \in 1..(Len(s) - 1) : s[i] # s[i + 1]
=============================================================================
