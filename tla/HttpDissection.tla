---------------------------- MODULE HttpDissection ----------------------------
(***************************************************************************)
(* protocols/http.c: one flow of HTTP requests and responses.              *)
(*                                                                         *)
(* A message is a request or a response; messages are numbered in the      *)
(* order in which their first packets come.  A field of flow->http is      *)
(* modelled by the number of the message it was taken from, 0 when it is   *)
(* NULL, and a risk by the number of the message that raised it: the text  *)
(* of the headers matters only through what the code finds in it, which is *)
(* p.marks.  Memory never runs out; the options that switch single fields  *)
(* off are on, as they are by default.  The category and the breed, which  *)
(* are functions of the protocols and of the content type, are left out.   *)
(***************************************************************************)
EXTENDS Naturals

CONSTANTS HttpPacket,     \* the packets the two hosts may send
          HttpMaxPackets, \* bound: packets of the flow
          HttpMaxMessages \* bound: requests and responses of the flow

VARIABLE h   \* the flow

RequestField == {"method", "url", "user_agent", "host", "referer", "nat_ip",
                 "detected_os", "request_content_type", "username", "password"}

ResponseField == {"status", "content_type", "server", "filename"}

\* What reset() does not clear.
StickyField == {"host_server_name", "is_form", "websocket"}

Field == RequestField \union ResponseField \union StickyField

\* The risks that reset() takes back, and the ones it leaves.
HttpResetRisk == {"BINARY_APPLICATION_TRANSFER", "HTTP_SUSPICIOUS_CONTENT",
                  "POSSIBLE_EXPLOIT", "HTTP_SUSPICIOUS_USER_AGENT",
                  "HTTP_CRAWLER_BOT", "NUMERIC_IP_HOST",
                  "URL_POSSIBLE_RCE_INJECTION", "HTTP_OBSOLETE_SERVER",
                  "CLEAR_TEXT_CREDENTIALS", "INVALID_CHARACTERS",
                  "HTTP_SUSPICIOUS_HEADER", "ERROR_CODE_DETECTED"}

HttpKeptRisk == {"UNRESOLVED_HOSTNAME", "BINARY_DATA_TRANSFER",
                 "URL_POSSIBLE_SQL_INJECTION", "SUSPICIOUS_DGA_DOMAIN"}

HttpRisk == HttpResetRisk \union HttpKeptRisk

\* The header lines that ndpi_parse_packet_line_info looks for.
Line == {"Host", "User-Agent", "Server", "Content-Type", "Content-Disposition",
         "Referer", "X-Forwarded-For", "Authorization", "Upgrade", "Origin"}

\* What the code finds in the first line, the headers and the content.
Mark == {"connect", "proxy", "rpc", "numeric", "odd_url", "odd_query",
         "odd_agent", "exploit", "bot", "mozilla", "old_server", "odd_header",
         "form", "login", "binary", "data", "text", "known_host", "unresolved",
         "odd_host", "other_ip", "dga", "rule", "sub", "ntop", "ocsp", "executable"}

HttpCode == {"none", "ok", "switching", "error"}

\* whole says that the first line is complete, code is the status of a response
\* ("none" is one below 100 or above 509).
HttpPacketType == [dir : {0, 1}, kind : {"request", "response", "data"},
                   whole : BOOLEAN, lines : SUBSET Line, marks : SUBSET Mark,
                   code : HttpCode]

ASSUME HttpAssumption == /\ HttpPacket \subseteq HttpPacketType
                         /\ HttpMaxPackets \in Nat /\ HttpMaxMessages \in Nat

\* A side of an HTTP connection asks or answers, never both.
ASSUME HttpSidesAssumption ==
    \A p, q \in HttpPacket : p.kind = "request" /\ q.kind = "response" => p.dir # q.dir

HttpProtocol == {"UNKNOWN", "HTTP", "HTTP_PROXY", "HTTP_CONNECT", "by_content",
                 "by_method", "by_name", "custom", "subprotocol"}

\* stage and asym are http_stage and http_asymmetric_stage; lower and upper are
\* detected_protocol_stack[0] and [1]; checked is num_extra_packets_checked and
\* dirs the directions with a packet; rpc says that method is one of RPC over
\* HTTP or WebDAV, shown that the binary bytes at the start of the content are
\* an executable's.  The last fields record the past for the properties:
\* messages counts the messages, of the message each side is sending,
\* answered whether a response has followed a request.
NewHttp(parse_response, subclassification) ==
    [parse_response |-> parse_response, subclassification |-> subclassification,
     stage |-> 0, asym |-> 0, lower |-> "UNKNOWN", upper |-> "UNKNOWN",
     extra |-> FALSE, checked |-> 0, excluded |-> FALSE, n |-> 0, dirs |-> {},
     meta |-> [x \in Field |-> 0], code |-> "none", rpc |-> FALSE, shown |-> FALSE,
     header_observed |-> FALSE, first_payload |-> FALSE,
     risk |-> [x \in HttpRisk |-> 0], messages |-> 0, of |-> [d \in {0, 1} |-> 0],
     answered |-> FALSE]
-----------------------------------------------------------------------------
(* Writing to the flow.  m is the number of the message a packet is of.    *)

SetRisk(f, x, m) == [f EXCEPT !.risk[x] = m]

SetRiskIf(f, cond, x, m) == IF cond THEN SetRisk(f, x, m) ELSE f

\* A field that is only written while it is NULL.
SetOnce(f, cond, x, m) ==
    IF cond /\ f.meta[x] = 0 THEN [f EXCEPT !.meta[x] = m] ELSE f

Has(p, line) == line \in p.lines

Shows(p, mark) == mark \in p.marks

\* ndpi_set_detected_protocol: the upper protocol is the application.
SetProtocol(f, app, master) == [f EXCEPT !.lower = app, !.upper = master]

ndpi_int_http_add_connection(f, master) ==
    [f EXCEPT !.lower = IF f.upper = "UNKNOWN" THEN master ELSE @, !.extra = TRUE]

\* The request line and the headers of a packet end lines.
ndpi_parse_packet_line_info(f, p) ==
    [f EXCEPT !.header_observed = @ \/ p.whole \/ p.lines # {},
              !.shown = (@ \/ Shows(p, "executable")) /\ ~Shows(p, "text")]
-----------------------------------------------------------------------------
(* What one packet's headers change.                                       *)

ndpi_check_http_url(f, p, m) ==
    IF Shows(p, "odd_url") THEN SetRisk(f, "URL_POSSIBLE_RCE_INJECTION", m)
    ELSE SetRiskIf(f, Shows(p, "odd_query"), "URL_POSSIBLE_SQL_INJECTION", m)

ndpi_check_http_url_subprotocol(f, p) ==
    IF Shows(p, "rule")
    THEN SetProtocol(f, "custom", IF f.upper # "UNKNOWN" THEN f.upper ELSE f.lower)
    ELSE f

UrlSet(f, p, m) ==
    LET numeric == SetRiskIf(f, Shows(p, "numeric"), "NUMERIC_IP_HOST", m)
    IN  IF f.meta["url"] = 0 /\ p.kind = "request" /\ p.whole /\ Has(p, "Host")
        THEN ndpi_check_http_url_subprotocol(
                 ndpi_check_http_url([numeric EXCEPT !.meta["url"] = m], p, m), p)
        ELSE f

MethodSet(f, p, m) ==
    IF p.kind = "request" /\ p.whole
    THEN [f EXCEPT !.meta["method"] = m, !.rpc = Shows(p, "rpc")] ELSE f

ndpi_check_http_server(f, p, m) ==
    SetRiskIf(f, Has(p, "Server") /\ Shows(p, "old_server"), "HTTP_OBSOLETE_SERVER", m)

ndpi_check_user_agent(f, p, m) ==
    LET odd == SetRiskIf(f, Shows(p, "odd_agent"), "HTTP_SUSPICIOUS_USER_AGENT", m)
        exploit == SetRiskIf(odd, Shows(p, "exploit"), "POSSIBLE_EXPLOIT", m)
    IN  SetRiskIf(exploit, Shows(p, "bot"), "HTTP_CRAWLER_BOT", m)

http_process_user_agent(f, p, m) ==
    LET os  == SetOnce(f, Shows(p, "mozilla"), "detected_os", m)
        set == [os EXCEPT !.meta["user_agent"] = m,
                          !.risk["HTTP_SUSPICIOUS_USER_AGENT"] = 0]
    IN  IF ~Has(p, "User-Agent") THEN f
        ELSE IF f.meta["user_agent"] # 0 THEN os
        ELSE ndpi_check_user_agent(set, p, m)

WebsocketSeen(f, p, m) ==
    IF Has(p, "Upgrade") /\ f.code = "switching"
    THEN [f EXCEPT !.meta["websocket"] = m] ELSE f

AuthorizationSet(f, p, m) ==
    IF Has(p, "Authorization") /\ f.meta["username"] = 0 /\ f.meta["password"] = 0
    THEN SetRisk([f EXCEPT !.meta["username"] = m, !.meta["password"] = m],
                       "CLEAR_TEXT_CREDENTIALS", m)
    ELSE f

HostSet(f, p, m) ==
    IF Has(p, "Host") /\ f.meta["host"] = 0
    THEN SetRiskIf([f EXCEPT !.meta["host"] = m], Shows(p, "unresolved"),
                   "UNRESOLVED_HOSTNAME", m)
    ELSE f

\* ndpi_http_check_content with the MIME type and the attached file.
ndpi_http_check_content(f, p, m) ==
    LET mime == SetRiskIf(SetRiskIf(f, Shows(p, "data"), "BINARY_DATA_TRANSFER", m),
                          Shows(p, "binary"), "BINARY_APPLICATION_TRANSFER", m)
    IN  IF Has(p, "Content-Disposition") /\ f.meta["filename"] = 0
        THEN [mime EXCEPT !.meta["filename"] = m] ELSE mime

\* The type of the content belongs to a response once a status is known.
ContentTypeSet(f, p, m) ==
    IF ~Has(p, "Content-Type") THEN f
    ELSE IF f.code = "none"
    THEN IF f.meta["request_content_type"] # 0 THEN f
         ELSE [f EXCEPT !.meta["request_content_type"] = m,
                        !.meta["is_form"] = IF Shows(p, "form") THEN m ELSE @]
    ELSE IF f.meta["content_type"] # 0 THEN f
    ELSE ndpi_http_check_content([f EXCEPT !.meta["content_type"] = m], p, m)

NameJustSet(f, p) == Has(p, "Host") /\ f.meta["host_server_name"] = 0

\* host_server_name is written once in the life of the flow; an address in it
\* should be the one the packet goes to.
NameSet(f, p, m) ==
    IF ~NameJustSet(f, p) THEN f
    ELSE LET set == SetRiskIf([f EXCEPT !.meta["host_server_name"] = m],
                              Shows(p, "other_ip"), "HTTP_SUSPICIOUS_HEADER", m)
         IN  IF Shows(p, "odd_host")
             THEN SetRisk(SetRisk(set, "INVALID_CHARACTERS", m),
                                "POSSIBLE_EXPLOIT", m)
             ELSE set

\* The user and the password in the body of a form.
FormLogin(f, p, m) ==
    IF f.header_observed /\ f.first_payload /\ f.meta["is_form"] # 0 /\ Shows(p, "login")
       /\ (f.meta["username"] = 0 \/ f.meta["password"] = 0)
    THEN SetRisk(SetOnce(SetOnce(f, TRUE, "username", m), TRUE, "password", m),
                       "CLEAR_TEXT_CREDENTIALS", m)
    ELSE f

MasterOf(f) ==
    IF f.upper # "UNKNOWN" THEN f.upper
    ELSE IF f.lower \in {"HTTP_CONNECT", "HTTP_PROXY"} THEN f.lower ELSE "HTTP"

\* The server, the content type and the method overwrite an earlier
\* sub-classification; the host name, the origin, the URL, the referer and the
\* user agent only count while there is none.
ndpi_http_parse_subprotocol(f, p, m, just_set) ==
    LET master  == MasterOf(f)
        content == IF (Has(p, "Server") /\ Shows(p, "ntop"))
                      \/ (Has(p, "Content-Type") /\ Shows(p, "ocsp"))
                   THEN SetProtocol(f, "by_content", master) ELSE f
        method  == IF f.rpc THEN SetProtocol(content, "by_method", master) ELSE content
        name    == IF method.upper = "UNKNOWN" /\ Shows(p, "known_host")
                      /\ (just_set \/ Has(p, "Origin") \/ Has(p, "Referer")
                          \/ Has(p, "User-Agent"))
                   THEN SetProtocol(method, "by_name", master) ELSE method
    IN  IF ~f.subclassification THEN f
        ELSE [FormLogin(name, p, m) EXCEPT !.first_payload = @ \/ f.header_observed]

ndpi_check_http_header(f, p, m) ==
    SetRiskIf(f, Shows(p, "odd_header"), "HTTP_SUSPICIOUS_HEADER", m)

check_content_type_and_change_protocol(f, p, m) ==
    LET just == NameJustSet(f, p)
        a == ndpi_check_http_server(MethodSet(UrlSet(f, p, m), p, m), p, m)
        b == SetOnce(http_process_user_agent(a, p, m), Has(p, "X-Forwarded-For"), "nat_ip", m)
        c == SetOnce(WebsocketSeen(b, p, m), Has(p, "Server"), "server", m)
        e == SetOnce(AuthorizationSet(c, p, m), Has(p, "Referer"), "referer", m)
        g == NameSet(ContentTypeSet(HostSet(e, p, m), p, m), p, m)
        i == ndpi_http_parse_subprotocol(g, p, m, just)
        j == SetRiskIf(i, just /\ Shows(p, "dga"), "SUSPICIOUS_DGA_DOMAIN", m)
    IN  ndpi_check_http_header(j, p, m)
-----------------------------------------------------------------------------
(* Requests and responses.                                                 *)

NoAgent(f, m) ==
    SetRiskIf(f, f.meta["user_agent"] = 0, "HTTP_SUSPICIOUS_USER_AGENT", m)

process_request(f, p, m) ==
    LET master == IF Shows(p, "connect") THEN "HTTP_CONNECT"
                  ELSE IF p.whole /\ Shows(p, "proxy") THEN "HTTP_PROXY" ELSE "HTTP"
    IN  NoAgent(check_content_type_and_change_protocol(
                    ndpi_int_http_add_connection(ndpi_parse_packet_line_info(f, p), master),
                    p, m), m)

parse_response_code(f, p, m) ==
    LET set == [f EXCEPT !.code = p.code,
                         !.meta["status"] = IF p.code = "none" THEN 0 ELSE m]
    IN  SetRiskIf(set, p.code = "error", "ERROR_CODE_DETECTED", m)

ndpi_validate_http_content(f, p, m) ==
    NoAgent(SetRiskIf(f, /\ f.meta["is_form"] # 0 \/ Has(p, "Content-Type")
                         /\ Shows(p, "text"), "HTTP_SUSPICIOUS_CONTENT", m), m)

process_response(f, p, m) ==
    ndpi_validate_http_content(
        check_content_type_and_change_protocol(
            parse_response_code(ndpi_parse_packet_line_info(f, p), p, m), p, m), p, m)

\* Wrong on purpose: the user agent is forgotten in the list.
reset_Agent(f) ==
    [f EXCEPT !.meta = [x \in Field |-> IF x \in StickyField \union {"user_agent"}
                                        THEN @[x] ELSE 0],
              !.code = "none", !.rpc = FALSE,
              !.risk = [x \in HttpRisk |-> IF x \in HttpKeptRisk THEN @[x] ELSE 0]]

reset(f) ==
    [f EXCEPT !.meta = [x \in Field |-> IF x \in StickyField THEN @[x] ELSE 0],
              !.code = "none", !.rpc = FALSE,
              !.risk = [x \in HttpRisk |-> IF x \in HttpKeptRisk THEN @[x] ELSE 0]]

is_request(p) == p.kind = "request"

is_response(p) == p.kind = "response"

\* http_stage 0: the beginning of a request is awaited.
FirstMessage(f, p, m) ==
    IF is_request(p) THEN [process_request(f, p, m) EXCEPT !.stage = p.dir + 1]
    ELSE IF is_response(p)
    THEN [process_response(ndpi_int_http_add_connection(f, "HTTP"), p, m)
             EXCEPT !.stage = p.dir + 3]
    ELSE [f EXCEPT !.excluded = TRUE]

\* Wrong on purpose: the counter stays where it is.
OneMore_Never(f) == f

\* One more message from the side that sent the last one.
OneMore(f) == [f EXCEPT !.asym = IF @ < 2 THEN @ + 1 ELSE @]

MoreHeaders(f, p, m) ==
    check_content_type_and_change_protocol(ndpi_parse_packet_line_info(f, p), p, m)

ndpi_check_http_tcp(f, p, m) ==
    IF f.stage = 0 THEN FirstMessage(f, p, m)
    ELSE IF f.stage \in {1, 2}
    THEN IF f.stage - p.dir = 1
         THEN IF is_request(p) THEN process_request(reset(OneMore(f)), p, m)
              ELSE MoreHeaders(f, p, m)
         ELSE IF is_response(p)
         THEN [process_response(f, p, m) EXCEPT !.stage = 0, !.answered = TRUE]
         ELSE f
    ELSE IF f.stage - p.dir = 3
         THEN IF is_response(p) THEN process_response(reset(OneMore(f)), p, m)
              ELSE MoreHeaders(f, p, m)
         ELSE FirstMessage([reset(f) EXCEPT !.stage = 0], p, m)

HttpOneSided(f) == 0 \notin f.dirs \/ 1 \notin f.dirs

\* Everything that is looked for has been found, or never will be.
HttpComplete(f) ==
    \/ f.parse_response /\ f.meta["host_server_name"] # 0 /\ f.code # "none"
    \/ ~f.parse_response /\ (f.meta["host_server_name"] # 0 \/ f.code # "none")
    \/ f.asym = 2 /\ HttpOneSided(f)

HttpEnded(f, m) ==
    IF HttpComplete(f)
    THEN [SetRiskIf(f, f.shown, "BINARY_APPLICATION_TRANSFER", m) EXCEPT !.extra = FALSE]
    ELSE f

ndpi_search_http_tcp(f, p, m) ==
    IF f.n > 20 THEN [f EXCEPT !.excluded = TRUE]
    ELSE HttpEnded(ndpi_check_http_tcp(f, p, m), m)

\* Subprotocols are searched under a flow of HTTP that has none.
HttpSubprotocol(f, p) ==
    IF f.lower # "UNKNOWN" /\ f.upper = "UNKNOWN" /\ Shows(p, "sub")
    THEN SetProtocol(f, "subprotocol", f.lower) ELSE f

http_max_extra == 8

\* process_extra_packet counts what the extra function did not end.
HttpCounted(f) ==
    [f EXCEPT !.checked = @ + 1, !.extra = @ /\ f.checked + 1 # http_max_extra]

\* ndpi_search_http_tcp_again searches JSON and MsgPack, while the extra dissection
\* goes on.
HttpAgain(f, p) == IF f.extra THEN HttpCounted(HttpSubprotocol(f, p)) ELSE f
-----------------------------------------------------------------------------
(* The flow.                                                               *)

HttpInit == h \in {NewHttp(a, b) : a \in BOOLEAN, b \in BOOLEAN}

HttpNumber(f, p) == IF p.kind = "data" THEN f.of[p.dir] ELSE f.messages + 1

HttpReceived(f, p) ==
    [f EXCEPT !.n = @ + 1, !.dirs = @ \union {p.dir},
              !.messages = IF p.kind = "data" THEN @ ELSE @ + 1,
              !.of[p.dir] = HttpNumber(f, p)]

HttpRoom(p) ==
    /\ h.n < HttpMaxPackets
    /\ p.kind # "data" => h.messages < HttpMaxMessages

\* The dissector scan, then the sub-dissectors registered under HTTP.
HttpFirst ==
    /\ h.lower = "UNKNOWN" /\ ~h.excluded
    /\ \E p \in HttpPacket :
        /\ HttpRoom(p)
        /\ h' = HttpSubprotocol(
                    ndpi_search_http_tcp(HttpReceived(h, p), p, HttpNumber(h, p)), p)

HttpExtra ==
    /\ h.extra
    /\ \E p \in HttpPacket :
        /\ HttpRoom(p)
        /\ h' = HttpAgain(ndpi_search_http_tcp(HttpReceived(h, p), p, HttpNumber(h, p)), p)

\* A packet without payload or a retransmission during the extra dissection.
HttpBare ==
    /\ h.extra /\ h.n < HttpMaxPackets
    /\ \E d \in {0, 1} :
        h' = HttpCounted([h EXCEPT !.n = @ + 1, !.dirs = @ \union {d}])

HttpNext == HttpFirst \/ HttpExtra \/ HttpBare

HttpSpec == HttpInit /\ [][HttpNext]_h
-----------------------------------------------------------------------------
(* Properties.                                                             *)

HttpTypeOK ==
    /\ h.stage \in 0..4 /\ h.asym \in 0..2 /\ h.checked \in 0..http_max_extra
    /\ h.lower \in HttpProtocol /\ h.upper \in HttpProtocol
    /\ h.meta \in [Field -> 0..HttpMaxMessages] /\ h.risk \in [HttpRisk -> 0..HttpMaxMessages]
    /\ h.code \in HttpCode

\* The fields that reset() clears.
ResetField == RequestField \union ResponseField

\* "We definitely don't want to mix data from different requests": as long as no
\* response has followed a request, the fields that a reset clears, and the risks that
\* it clears with them, are those of the last message of the side that is heard.
LastMessageKept ==
    ~h.answered =>
        /\ \A x, y \in ResetField : h.meta[x] # 0 /\ h.meta[y] # 0 => h.meta[x] = h.meta[y]
        /\ \A x \in HttpResetRisk, y \in ResetField :
               h.risk[x] # 0 /\ h.meta[y] # 0 => h.risk[x] = h.meta[y]

\* The traffic of one side only: three messages end the extra dissection, fewer
\* do not as long as the host or the status is missing, so that a lost packet is
\* not taken for an asymmetric capture.
ThreeEndOneSided ==
    /\ HttpOneSided(h) /\ h.parse_response /\ h.lower # "UNKNOWN" /\ h.checked < http_max_extra
    /\ h.meta["host_server_name"] = 0 \/ h.code = "none"
    => (h.extra <=> h.messages < 3)
==============================================================================
