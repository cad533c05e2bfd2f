------------------------------ MODULE MCSessions ------------------------------
(***************************************************************************)
(* The dissectors that follow a session over many packets, for TLC: HTTP,  *)
(* TLS, the search for obfuscated TLS, STUN and QUIC.  They share no       *)
(* state: a behaviour is one of the part it chose at its start.            *)
(***************************************************************************)
EXTENDS HttpDissection, MCTls, QuicDissection

VARIABLE part

sessionsVars == <<part, h, o, tls, stun, quic>>

P(dir, kind, whole, code, lines, marks) ==
  [dir |-> dir, kind |-> kind, whole |-> whole, code |-> code, lines |-> lines,
   marks |-> marks]

\* Requests, responses and fragments that between them carry every line and mark.
MCPackets ==
  {P(0, "request", TRUE, "none", {"Host", "User-Agent"}, {"odd_agent", "numeric"}),
   P(0, "request", TRUE, "none", {"User-Agent"}, {"bot", "exploit", "mozilla"}),
   P(0, "request", TRUE, "none", {"Host", "Authorization", "Referer", "Content-Type"},
     {"form", "odd_url", "unresolved", "odd_host", "dga", "proxy", "known_host", "other_ip"}),
   P(0, "request", FALSE, "none", {}, {}),
   P(0, "request", TRUE, "none", {"Host", "Origin"}, {"connect", "rule", "known_host", "rpc"}),
   P(0, "data", FALSE, "none", {"User-Agent", "Host", "X-Forwarded-For"},
     {"known_host", "odd_header"}),
   P(0, "data", FALSE, "none", {}, {"login", "sub"}),
   P(1, "response", TRUE, "ok", {"Server", "Content-Type", "Content-Disposition"},
     {"old_server", "binary", "ocsp", "text"}),
   P(1, "response", TRUE, "none", {"Server"}, {"ntop", "executable"}),
   P(1, "response", TRUE, "error", {}, {}),
   P(1, "response", TRUE, "switching", {"Upgrade"}, {"sub"}),
   P(1, "data", FALSE, "none", {"Content-Type"}, {"data"}),
   P(1, "data", FALSE, "none", {}, {})}

-----------------------------------------------------------------------------
(* QUIC: every fragment of one hello, alone and in pairs, whole hellos,    *)
(* the other versions, and the packets of a flow whose start was not       *)
(* captured.                                                               *)

MCHellos ==
  [split |-> [size |-> 5, app |-> "App", host |-> "known", doq |-> FALSE],
   whole |-> [size |-> 3, app |-> "SNAPCHAT", host |-> "addlive", doq |-> FALSE],
   doq |-> [size |-> 3, app |-> "Unknown", host |-> "dns", doq |-> TRUE],
   named |-> [size |-> 3, app |-> "App", host |-> "known", doq |-> FALSE],
   nameless |-> [size |-> 3, app |-> "Unknown", host |-> "", doq |-> FALSE]]

QuicFrame(t) == [t |-> t]

Crypto(hello, off, len) == [t |-> "crypto", m |-> hello, off |-> off, len |-> len]

Stream(hello) == [t |-> "stream", m |-> hello]

\* A datagram of a client to port 443 that is not an Initial.
PlainQuic ==
  [size |-> "small", long |-> FALSE, fixed |-> TRUE, type |-> 0, bit5 |-> FALSE,
   bit7 |-> FALSE, bit8 |-> FALSE, version |-> "none", dcid |-> 1, cids_fit |-> TRUE,
   key |-> <<"none", 0>>, frames |-> << >>, port |-> "to_443", last |-> 1, rej |-> FALSE,
   rtp |-> FALSE]

\* An Initial of the client whose first connection id was 1.
Initial(version, dcid, frames) ==
  [PlainQuic EXCEPT !.size = "full", !.long = TRUE, !.version = version, !.dcid = dcid,
     !.type = InitialType(version), !.bit5 = TRUE, !.bit7 = TRUE, !.bit8 = TRUE,
     !.key = quic_derive_initial_secrets(version, 1), !.frames = frames]

\* A hello in fragments, and the start of the one that follows it in the stream, within
\* the buffer and past its end.
SplitSession ==
  {Initial("v1", 1, <<Crypto("split", x[1], x[2])>>) : x \in {y \in (0..4) \X (1..5) : y[1] + y[2] <= 5}}
  \cup
  {Initial("v1", 2, <<Crypto("split", 4, 1), QuicFrame("ping"), Crypto("split", 0, 2)>>),
   Initial("v1", 2, <<Crypto("split", 1, 2), Crypto("split", 1, 4), Crypto("split", 0, 1)>>),
   Initial("v1", 1, <<QuicFrame("padding"), Crypto("split", 0, 2), QuicFrame("ack"),
                      Crypto("split", 2, 3)>>),
   Initial("v1", 1, <<Crypto("split", 5, 1)>>), Initial("v1", 1, <<Crypto("split", 5, 2)>>),
   Initial("v1", 0, << >>), PlainQuic, [PlainQuic EXCEPT !.size = "empty"]}

\* A negotiation of the version before a hello in two fragments.
NegotiatedSession ==
  {Initial("force_vn", 1, << >>), Initial("v1", 1, <<Crypto("split", 0, 3)>>),
   Initial("v1", 1, <<Crypto("split", 3, 2)>>), [PlainQuic EXCEPT !.size = "empty"],
   [PlainQuic EXCEPT !.long = TRUE, !.version = "zero", !.port = "from_443"], PlainQuic}

\* One packet of each version, a call among the packets of the application, and packets of
\* a flow whose start was not captured.
OtherSession ==
  {Initial("v1", 3, <<Crypto("whole", 0, 3)>>), Initial("v1", 0, << >>),
   Initial("v2", 1, <<Crypto("doq", 0, 3)>>), Initial("draft22", 1, << >>),
   Initial("mvfst22", 1, <<QuicFrame("ping")>>), Initial("draft29", 1, <<Crypto("named", 0, 3)>>),
   Initial("Q043", 1, <<Stream("named")>>), Initial("Q046", 1, <<Stream("nameless")>>),
   Initial("Q050", 1, <<QuicFrame("gquic_ack"), Stream("nameless")>>),
   Initial("T051", 1, <<Stream("doq")>>), Initial("Q028", 1, << >>),
   PlainQuic, [PlainQuic EXCEPT !.last = 2], [PlainQuic EXCEPT !.dcid = 2],
   [PlainQuic EXCEPT !.port = "from_443"],
   [PlainQuic EXCEPT !.fixed = FALSE, !.rtp = TRUE, !.port = "other"],
   [PlainQuic EXCEPT !.fixed = FALSE, !.rej = TRUE, !.port = "from_443"],
   [PlainQuic EXCEPT !.long = TRUE, !.version = "v1", !.type = 1]}

MCQuicSessions ==
  [split |-> SplitSession, negotiated |-> NegotiatedSession, other |-> OtherSession]

-----------------------------------------------------------------------------
(* A part that was not chosen stays at one of its initial states.          *)

IdleHttp == h = NewHttp(FALSE, FALSE)

IdleTls ==
  tls = NewTlsFlow(Session(<< >>, << >>, "TLS", Unknown, 0, FALSE, FALSE, 0),
                   CHOOSE n \in TlsIsn : TRUE, FALSE)

IdleObf == o = switch_to_obfuscated("Unknown", FALSE, FALSE)

IdleStun == stun = NewStun(CHOOSE c \in StunConfig : TRUE)

IdleQuic == quic = NewQuic("other")

SessionsInit ==
  /\ part \in {"http", "tls", "obfuscated", "stun", "quic"}
  /\ IF part = "http" THEN HttpInit ELSE IdleHttp
  /\ IF part = "tls" THEN TlsInit ELSE IdleTls
  /\ IF part = "obfuscated" THEN ObfInit ELSE IdleObf
  /\ IF part = "stun" THEN StunInit ELSE IdleStun
  /\ IF part = "quic" THEN QuicInit ELSE IdleQuic

SessionsNext ==
  \/ part = "http" /\ HttpNext /\ UNCHANGED <<part, o, tls, stun, quic>>
  \/ part = "tls" /\ TlsNext /\ UNCHANGED <<part, h, o, stun, quic>>
  \/ part = "obfuscated" /\ ObfNext /\ UNCHANGED <<part, h, tls, stun, quic>>
  \/ part = "stun" /\ StunNext /\ UNCHANGED <<part, h, o, tls, quic>>
  \/ part = "quic" /\ QuicNext /\ UNCHANGED <<part, h, o, tls, stun>>

SessionsSpec == SessionsInit /\ [][SessionsNext]_sessionsVars
=============================================================================
