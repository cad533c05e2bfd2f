--------------------------- MODULE TextDissectors ---------------------------
(***************************************************************************)
(* The dissectors of the line protocols.  They gather evidence over        *)
(* several lines (a stage, a set of commands seen), note credentials and   *)
(* requests for encryption, and hand the flow to the TLS dissector when an *)
(* upgrade is accepted (the *_opportunistic_tls_enabled options are on, as *)
(* they are by default).                                                   *)
(***************************************************************************)
EXTENDS DissectorBase

(* Shells and transfer.                                                    *)

ndpi_search_telnet_tcp(f, p) == IF Recognised(p) THEN DetectExtra(f) ELSE Exclude(f)

ndpi_search_ftp_data(f, p) == DetectOrExclude(f, f.begin /\ (f.port \/ Recognised(p)))

\* "request" is a command, "login" PASS, "starttls" AUTH.
ndpi_ftp_control_check_request(f, p) ==
    CASE p.sig = "login" -> Note(f, "password")
      [] p.sig = "starttls" -> Note(f, "auth_found")
      [] OTHER -> f

\* "reply" is a response that accepts, "data" one that refuses.
ndpi_ftp_control_check_response(f, p) ==
    CASE p.sig = "reply" /\ "auth_found" \in f.auth -> Note(f, "auth_tls")
      [] p.sig = "data" -> Note(f, "auth_done")
      [] OTHER -> f

\* f.port is the SMTP port, where the same commands occur.
ndpi_search_ftp_control(f, p) ==
    LET ftp_control_stage == f.st
        response == ndpi_ftp_control_check_response(f, p)
    IN  IF f.port \/ f.n > 8 THEN Exclude(f)
        ELSE IF ftp_control_stage = 0
        THEN IF p.sig \in {"request", "login", "starttls"}
             THEN SetStage(ndpi_ftp_control_check_request(f, p), p.dir + 1, 2)
             ELSE Wait(f)
        ELSE IF ftp_control_stage = p.dir + 1 THEN Wait(f)
        ELSE IF p.sig \notin {"reply", "data"} \/ response.auth \subseteq {"auth_found"}
        THEN SetStage(response, 0, 2)
        ELSE IF "auth_tls" \in response.auth THEN DetectExtra(response)
        ELSE Detect(response)

\* "request" is the banner, "data" the key exchange, "short" a payload of up
\* to 5 bytes.  The banner of either side is written before a verdict.
ndpi_search_ssh_tcp(f, p) ==
    LET ssh_stage == f.st
        banner == SetStage(WriteProtos(f), ssh_stage + 1, 3)
    IN  IF ssh_stage <= 1
        THEN IF p.sig # "request" THEN Exclude(f)
             ELSE IF current_pkt_from_client_to_server(f, p) THEN DetectExtra(banner)
             ELSE banner
        ELSE IF p.sig = "short" THEN Exclude(f)
        ELSE IF p.sig = "data" THEN DetectExtra(WriteProtos(f))
        ELSE Wait(f)

\* PARAMS: "request" well formed, "reply" malformed, "short" empty, which ends
\* the extra dissection; "data" is any other record.
fcgi_parse_params(f, p) == IF p.sig = "request" THEN WriteProtos(f) ELSE f

ndpi_search_fastcgi(f, p) ==
    CASE p.sig = "none" -> Exclude(f)
      [] p.sig = "short" -> [f EXCEPT !.extra = FALSE]
      [] p.sig \in {"request", "reply"} -> DetectExtra(fcgi_parse_params(f, p))
      [] p.sig = "data" -> IF f.n > 2 THEN DetectExtra(f) ELSE Wait(f)

\* f.st and f.aux are irc_stage and irc_3a_counter.  "request" is a command,
\* "reply" a command followed by NICK or USER, "data" a line that begins with
\* a colon, "short" the form of the web chat.
ndpi_search_irc_tcp(f, p) ==
    LET irc_stage == f.st
        colons == SetAux(f, f.aux + 1, 3)
    IN  IF f.n >= 10 THEN Exclude(f)
        ELSE IF p.sig = "data" THEN IF colons.aux = 7 THEN Detect(colons) ELSE colons
        ELSE IF p.sig = "reply" \/ (p.sig = "request" /\ irc_stage = 2)
        THEN Detect(SetStage(f, 3, 8))
        ELSE IF p.sig = "request" THEN SetStage(f, irc_stage + 1, 8)
        ELSE IF p.sig = "short" /\ irc_stage = 1 THEN Detect(f)
        ELSE Wait(f)
-----------------------------------------------------------------------------
(* Mail.                                                                   *)

\* mail_pop_stage counts the answers ("reply" +OK, "data" -ERR) in two bits,
\* f.aux the commands that set a bit of pop_command_bitmask ("request",
\* "login" for PASS, "starttls" for STLS).
ndpi_search_mail_pop_tcp(f, p) ==
    LET answer == p.sig \in {"reply", "data"}
        command == p.sig \in {"request", "login", "starttls"}
        answered == SetStage(IF p.sig = "data" THEN Forget(f, "starttls") ELSE f, f.st + 1, 2)
        commanded == CASE p.sig = "login" -> Note(f, "password")
                       [] p.sig = "starttls" -> Note(f, "starttls")
                       [] OTHER -> f
        g == IF answer THEN answered ELSE SetAux(commanded, UpTo(f.aux, 11), 16)
    IN  IF p.sig = "reply" /\ "starttls" \in f.auth THEN DetectExtra(answered)
        ELSE IF answer \/ command
        THEN IF /\ p.crlf /\ g.aux + g.st >= 3 /\ g.st > 0
                /\ "password" \in g.auth \/ g.st >= 3
             THEN IF "password" \in g.auth THEN Detect(g) ELSE DetectExtra(g)
             ELSE Wait(g)
        ELSE ExcludeIf(f, ~((p.crlf \/ f.aux # 0 \/ f.st # 0) /\ f.n < 12))

\* mail_imap_stage counts the lines understood, up to 7.  "reply" is OK, "data"
\* NO, "short" AUTHENTICATE, "login" LOGIN, "request" any other command; not
\* ended, "request" is a payload that ends in a space.
ndpi_search_mail_imap_tcp(f, p) ==
    LET counted == SetStage(f, UpTo(f.st, 7), 3)
        g == CASE p.sig = "data" -> Forget(counted, "starttls")
               [] p.sig = "starttls" -> Note(counted, "starttls")
               [] p.sig = "login" -> Note(counted, "username")
               [] p.sig = "short" -> Detect(Saw(counted))
               [] OTHER -> counted
        split(h) == ExcludeIf(h, ~(p.crlf /\ f.n < 8 /\ h.st >= 1))
    IN  IF ~p.crlf /\ p.sig = "request" THEN SetStage(f, 4, 3)
        ELSE IF ~p.crlf \/ p.sig = "none" THEN split(f)
        ELSE IF p.sig = "reply" /\ "starttls" \in f.auth THEN DetectExtra(g)
        ELSE IF g.st \notin {3, 5, 7} THEN split(g)
        ELSE IF "username" \in g.auth \/ g.st = 7 THEN Detect(g)
        ELSE Wait(g)

\* f.aux counts the bits of smtp_command_bitmask.  "data" is a 220 greeting
\* whose host name is known, "login" AUTH LOGIN, "short" a line that is no
\* command: the user name, then the password, of AUTH LOGIN.
ndpi_search_mail_smtp_tcp(f, p) ==
    LET known == SetAux(f, UpTo(f.aux, 15), 16)
        credential == "auth_found" \in f.auth /\ p.sig = "short"
        g == CASE p.sig = "data" -> DetectExtra(known)
               [] p.sig = "login" -> Note(known, "auth_found")
               [] p.sig \in {"request", "reply", "starttls"} -> Forget(known, "auth_found")
               [] credential /\ "username" \notin f.auth -> Note(f, "username")
               [] credential /\ "username" \in f.auth -> Note(f, "password")
               [] OTHER -> f
        tail(h) == IF f.n <= 4 /\ (p.crlf \/ p.sig \in {"request", "reply"})
                   THEN Wait(h)
                   ELSE ExcludeIf(h, ~h.extra \/ f.n > 12)
    IN  IF ~p.crlf THEN tail(f)
        ELSE IF credential /\ "password" \in f.auth THEN Exclude(f)
        ELSE IF g.aux >= 3 THEN IF g.found = "no" THEN DetectExtra(g) ELSE g
        ELSE IF g.aux >= 1 /\ f.n < 12 THEN Wait(g)
        ELSE tail(g)
==============================================================================
