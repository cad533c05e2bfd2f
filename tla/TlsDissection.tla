---------------------------- MODULE TlsDissection -----------------------------
(***************************************************************************)
(* TLS over TCP (src/lib/protocols/tls.c): segments of a connection pass   *)
(* the TCP tracking, are joined per direction, cut into records, and the   *)
(* handshake messages found in them are dissected, first by the detection  *)
(* and then by the extra dissection of the classified flow.                *)
(*                                                                         *)
(* What the two sides send is a script of records.  A record takes one or  *)
(* more cells of the sequence space; a segment carries consecutive cells.  *)
(* Segments are captured in order, twice, with a hole or with an overlap.  *)
(***************************************************************************)
EXTENDS TlsHandshake, TcpTracking

CONSTANTS TlsScript,        \* what both sides send, and the configuration
          TlsIsn,           \* initial sequence numbers
          TlsMaxSegment,    \* cells of a segment
          TlsMaxFaults,     \* repeated, missing or overlapping segments
          TlsMaxPackets

VARIABLE tls

Sent(x, d) == x.script.send[d]

\* The cells of direction d: <<record, place in the record>>.
Cells(x, d) ==
  FlattenSeq([i \in 1..Len(Sent(x, d)) |->
               [k \in 1..Sent(x, d)[i].size |-> <<i, k>>]])

SeqAt(x, d, pos) == (x.isn + 1 + pos) % SeqSpace

NewTlsFlow(script, isn, syn) ==
  [script |-> script, isn |-> isn, f |-> NewTls(FALSE, script.port_proto, script.cached, script.blocks),
   c |-> NewConnection, message |-> [d \in Dir |-> NoReassembly],
   app_data_seen |-> [d \in Dir |-> FALSE], change_cipher |-> [client |-> FALSE, server |-> FALSE],
   alert |-> FALSE, excluded |-> FALSE, step |-> IF syn THEN 0 ELSE 3, begun |-> syn,
   pos |-> [d \in Dir |-> 0], gap |-> [d \in Dir |-> FALSE], wrapped |-> FALSE,
   mixed |-> FALSE, deciphered |-> FALSE, owner |-> 2, faults |-> 0, packets |-> 0]

\* current_pkt_from_client_to_server, as the key of the cipher flags.
Side(x, d) == IF d = x.c.client_packet_direction THEN "client" ELSE "server"
-----------------------------------------------------------------------------
(* Records                                                                 *)

\* One more record in the statistics of the first f.blocks records.
handleTLSBlockStat(f) ==
  IF f.num_blocks < f.blocks THEN [f EXCEPT !.num_blocks = @ + 1] ELSE f

\* Wrong on purpose: the side that changed the cipher is not remembered.
ChangeCipher_Unmarked(x, d) ==
  [x EXCEPT !.f = ndpi_int_tls_add_connection(x.f), !.app_data_seen[d] = TRUE]

\* Change cipher spec: what follows on this side is encrypted.
ChangeCipher(x, d) ==
  [x EXCEPT !.change_cipher[Side(x, d)] = TRUE, !.f = ndpi_int_tls_add_connection(x.f),
            !.app_data_seen[d] = TRUE]

\* Alert: a plaintext warning is not the end of the session.
Alert(x, r, all) ==
  LET warning == r.level = "warning"
      f == IF r.level = "fatal" THEN AddRisk(x.f, "fatal_alert") ELSE x.f
  IN [x EXCEPT !.alert = ~warning, !.f = IF all THEN ndpi_int_tls_add_connection(f) ELSE f]

\* Application data: in both directions it is past the handshake.
ApplicationData(x, d, all) ==
  [x EXCEPT !.f = [(IF all THEN ndpi_int_tls_add_connection(x.f) ELSE x.f)
                     EXCEPT !.cert = @ \/ x.app_data_seen[1 - d]],
            !.app_data_seen[d] = TRUE]

\* The cipher of this side was changed: its handshake messages cannot be read.
Encrypted(x, d) == x.change_cipher[Side(x, d)]

\* The messages of a record were read, with f the flow after them; the ghosts remember
\* a message that was encrypted, and whose certificate was read.
HandshakeRead(x, d, r, f) ==
  [x EXCEPT !.f = f, !.deciphered = @ \/ (r.enc /\ x.begun /\ ~x.gap[d]),
            !.owner = IF x.f.issuer = "none" /\ f.issuer # "none" THEN d ELSE @]

\* Handshake: each message in turn.
Handshake(x, d, r) ==
  LET one(f, m) == processHandshakeTLSBlock(handleTLSBlockStat(f), d, m)
  IN IF Encrypted(x, d) THEN [x EXCEPT !.f = handleTLSBlockStat(@)]
     ELSE HandshakeRead(x, d, r, FoldLeft(one, x.f, r.blocks))

\* A whole record at the head of the buffer.
TlsRecord(x, d, r, all) ==
  LET y == IF r.type = "handshake" THEN x ELSE [x EXCEPT !.f = handleTLSBlockStat(@)]
  IN IF r.type = "cipher" THEN ChangeCipher(y, d)
     ELSE IF r.type = "alert" THEN Alert(y, r, all)
     ELSE IF r.type = "handshake" THEN Handshake(y, d, r)
     ELSE ApplicationData(y, d, all)

\* The buffer starts inside a record, or with something else than one.
check_tls_type_and_version(x, d) ==
  LET head == Head(x.message[d].buffer)
  IN head[2] = 1 /\ Sent(x, d)[head[1]].type # "junk"

\* The record at the head of the buffer is complete.
Complete(x, d) ==
  LET r == Sent(x, d)[Head(x.message[d].buffer)[1]] IN Len(x.message[d].buffer) >= r.size

\* The record at the head of the buffer, read; the ghost remembers one that holds
\* cells of others.
RecordRead(x, d) ==
  LET buf == x.message[d].buffer
      i == Head(buf)[1]
      r == Sent(x, d)[i]
  IN [TlsRecord(x, d, r, Len(buf) = r.size)
        EXCEPT !.mixed = @ \/ \E k \in 1..r.size : buf[k] # <<i, k>>]

\* The loop over the records; a change of the cipher ends it, with its record left in
\* the buffer, unless records are counted.
RECURSIVE Records(_, _), AfterRecord(_, _, _, _)
AfterRecord(x, y, d, r) ==
  LET rest == [y EXCEPT !.message[d].buffer = SubSeq(@, r.size + 1, Len(@))]
  IN IF r.type = "cipher" /\ x.f.blocks = 0 THEN [wrong |-> FALSE, x |-> y]
     ELSE IF r.type = "handshake" /\ r.bad /\ ~Encrypted(x, d) THEN [wrong |-> TRUE, x |-> rest]
     ELSE Records(rest, d)
Records(x, d) ==
  IF x.message[d].buffer = << >> THEN [wrong |-> FALSE, x |-> x]
  ELSE IF ~check_tls_type_and_version(x, d) THEN [wrong |-> TRUE, x |-> x]
  ELSE IF ~Complete(x, d) THEN [wrong |-> FALSE, x |-> x]
  ELSE AfterRecord(x, RecordRead(x, d), d, Sent(x, d)[Head(x.message[d].buffer)[1]])

\* keep_extra_dissection_tcp: the handshake is not over.
keep_extra_dissection_tcp(x) ==
  LET f == x.f
      over == \/ f.cert /\ f.ch
              \/ x.app_data_seen[0] /\ x.app_data_seen[1]
              \/ f.ch /\ x.app_data_seen[1 - f.ch_dir]
              \/ f.sh /\ x.app_data_seen[f.ch_dir]
  IN f.blocks > 0 \/ (~over /\ ~x.alert)

\* The end of the dissection: Ookla by its cache, the search for an obfuscated
\* handshake inside the session, or nothing more.
TlsEnd(x, wrong) ==
  LET f == x.f
      whole == ~wrong /\ f.cert /\ f.ch /\ f.sh
      ookla == [SetDetected(f, "Ookla", "TLS", "aggressive") EXCEPT !.risks = @ \ {"known_port"}]
  IN IF whole /\ f.app = "TLS" /\ f.master = Unknown /\ x.script.ookla
       THEN [rc |-> 0, x |-> [x EXCEPT !.f = [tls_match_ja4(ookla) EXCEPT !.func = "none"]]]
     ELSE IF x.script.heuristics /\ whole /\ ~f.opportunistic
       THEN [rc |-> 1, x |-> [x EXCEPT !.f.func = "obfuscated"]]
     ELSE [rc |-> 0, x |-> [x EXCEPT !.f = [tls_match_ja4(f) EXCEPT !.func = "none"]]]

\* The records were read: r tells whether one was wrong, and the flow after them.
Searched(x, r) ==
  IF r.wrong \/ (x.f.blocks > 0 /\ r.x.f.num_blocks = x.f.blocks)
             \/ (x.f.blocks = 0 /\ ~keep_extra_dissection_tcp(r.x))
    THEN TlsEnd(r.x, r.wrong)
  ELSE [rc |-> 1, x |-> r.x]

\* The segment is in the buffer of its direction.
Buffered(x, d, m) == [x EXCEPT !.message[d] = m, !.wrapped = @ \/ m.next_seq = 0]

\* ndpi_search_tls_tcp: 0 ends the dissection, 1 goes on.
ndpi_search_tls_tcp(x, d, cells, seq) ==
  IF cells = << >> \/ x.c.tcp_retransmission THEN [rc |-> 1, x |-> x]
  ELSE Searched(x, Records(Buffered(x, d,
         ndpi_search_tls_memory(x.message[d], cells, seq, (seq + Len(cells)) % SeqSpace)), d))

\* ndpi_search_tls_wrapper: a flow that is not TLS may hide a handshake.
ndpi_search_tls_wrapper(x, r) ==
  IF r.rc = 1 THEN r.x
  ELSE IF x.script.heuristics /\ ~r.x.f.opportunistic /\ ndpi_seen_flow_beginning(x.c)
    THEN [r.x EXCEPT !.f.func = "obfuscated"]
  ELSE [r.x EXCEPT !.excluded = TRUE]

\* process_extra_packet.
TlsExtra(r) ==
  LET n == (r.x.f.checked + 1) % TlsCounter
  IN IF r.rc = 0 THEN [r.x EXCEPT !.f.func = "none"]
     ELSE IF n = r.x.f.max THEN [r.x EXCEPT !.f.checked = n, !.f.func = "none"]
     ELSE [r.x EXCEPT !.f.checked = n]
-----------------------------------------------------------------------------
(* Packets                                                                 *)

\* The dissector still looks at the packets of the flow.
Looking(x) == x.f.func = "tls" \/ (x.f.state = "inspecting" /\ ~x.excluded /\ x.f.func = "none")

\* A segment that was tracked, dissected: r is the search of TLS in it.
Dissected(x, cells, r) ==
  IF x.f.func = "tls" THEN TlsExtra(r)
  ELSE IF ~Looking(x) \/ cells = << >> \/ x.c.tcp_retransmission THEN x
  ELSE ndpi_search_tls_wrapper(x, r)

TlsDissected(x, d, cells, seq) == Dissected(x, cells, ndpi_search_tls_tcp(x, d, cells, seq))

\* One captured segment: tracked, then dissected.  The padding of an acknowledgment is
\* a payload that is none of the cells.
TlsPacket(x, d, cells, seq, flags) ==
  LET s == Seg(d, seq, IF "zero" \in flags THEN 1 ELSE Len(cells), flags, SeqAt(x, 1 - d, x.pos[1 - d]))
  IN TlsDissected([x EXCEPT !.c = connection_tracking(x.c, s, x.script.to), !.packets = @ + 1],
                  d, cells, seq)

TlsInit == \E s \in TlsScript, n \in TlsIsn, syn \in BOOLEAN : tls = NewTlsFlow(s, n, syn)

\* SYN, SYN/ACK, ACK.
HandshakePacket ==
  /\ tls.step < 3 /\ tls.packets < TlsMaxPackets
  /\ LET d == IF tls.step = 1 THEN 1 ELSE 0
         flags == IF tls.step = 0 THEN {"syn"} ELSE IF tls.step = 1 THEN {"syn", "ack"} ELSE {"ack"}
         seq == IF tls.step = 2 THEN SeqAt(tls, d, 0) ELSE tls.isn
     IN tls' = [TlsPacket(tls, d, << >>, seq, flags) EXCEPT !.step = @ + 1]

\* n cells from position p on of direction d.
Captured(x, d, p, n, flags) ==
  TlsPacket(x, d, SubSeq(Cells(x, d), p + 1, p + n), SeqAt(x, d, p), flags)

\* The capture of direction d is no longer complete and in order.
Holed(x, d) == [x EXCEPT !.gap[d] = TRUE, !.faults = @ + 1]

MayCapture == tls.step = 3 /\ tls.packets < TlsMaxPackets /\ Looking(tls)

\* The next cells of one side.
InOrder(d, n) ==
  /\ MayCapture /\ tls.pos[d] + n <= Len(Cells(tls, d))
  /\ tls' = [Captured(tls, d, tls.pos[d], n, {"ack", "psh"}) EXCEPT !.pos[d] = @ + n]

MayFail == MayCapture /\ tls.faults < TlsMaxFaults

\* Cells that were captured before.
Retransmitted(d, n) ==
  /\ MayFail /\ tls.pos[d] >= n
  /\ tls' = [Captured(tls, d, tls.pos[d] - n, n, {"ack", "psh"}) EXCEPT !.faults = @ + 1]

\* A cell is missing in the capture, or the segment repeats one and adds one.
Missing(d, n) ==
  /\ MayFail /\ tls.pos[d] + 1 + n <= Len(Cells(tls, d))
  /\ tls' = [Captured(Holed(tls, d), d, tls.pos[d] + 1, n, {"ack", "psh"})
               EXCEPT !.pos[d] = @ + 1 + n]

Overlapping(d) ==
  /\ MayFail /\ tls.pos[d] >= 1 /\ tls.pos[d] + 1 <= Len(Cells(tls, d))
  /\ tls' = [Captured(Holed(tls, d), d, tls.pos[d] - 1, 2, {"ack", "psh"}) EXCEPT !.pos[d] = @ + 1]

\* An acknowledgment, padded with zero bytes or not, or a reset.
BareSegment(d, flags) ==
  /\ MayFail
  /\ tls' = [Captured(tls, d, tls.pos[d], 0, flags) EXCEPT !.faults = @ + 1]

TlsNext ==
  \/ HandshakePacket
  \/ \E d \in Dir, n \in 1..TlsMaxSegment : InOrder(d, n) \/ Retransmitted(d, n) \/ Missing(d, n)
  \/ \E d \in Dir : Overlapping(d)
  \/ \E d \in Dir, flags \in {{"ack"}, {"ack", "zero"}, {"ack", "rst"}} : BareSegment(d, flags)

TlsSpec == TlsInit /\ [][TlsNext]_tls
-----------------------------------------------------------------------------
TlsTypeOK ==
  /\ tls.f.func \in {"none", "tls", "obfuscated"}
  /\ tls.f.state \in {"inspecting", "partial"}
  /\ tls.f.num_blocks \in 0..tls.f.blocks
  /\ tls.f.checked \in 0..(TlsCounter - 1)
  /\ \A d \in Dir : tls.message[d].next_seq \in 0..(SeqSpace - 1)
  /\ \A d \in Dir : tls.c.next_tcp_seq_nr[d] \in 0..(SeqSpace - 1)

\* While TLS is dissected, a side whose segments were all captured in order, whatever
\* was repeated or acknowledged in between, has every byte in the reassembly: the
\* retransmission flag of the tracking never hides a new segment from it.  And the
\* records cut from the buffer are records that were sent, never the bytes of two
\* segments that do not follow each other; the exception is the segment that ends at
\* sequence number 0, which the reassembly takes for "no number yet".
Reassembled ==
  /\ Looking(tls) => \A d \in Dir : ~tls.gap[d] /\ tls.pos[d] > 0 =>
                       tls.message[d].next_seq = SeqAt(tls, d, tls.pos[d])
  /\ tls.mixed => tls.wrapped

\* A handshake message sent after its side changed the cipher is never dissected, for
\* a session captured from its start and without holes on that side, and the names of
\* the certificate are the server's, even when the client sends one.
HandshakeInClear == ~tls.deciphered /\ tls.owner # 0

\* An application found from the server name or the ALPN is not replaced by a name
\* of the certificate or by the cache of the servers' certificates; only the checks for
\* Tor and the user's fingerprint rules overrule it.
HelloAppKept ==
  [][tls.f.sub => tls'.f.app \in {tls.f.app, "Tor", "Custom"}]_tls
=============================================================================
