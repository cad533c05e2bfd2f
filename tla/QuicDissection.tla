---------------------------- MODULE QuicDissection -----------------------------
(***************************************************************************)
(* QUIC (src/lib/protocols/quic.c): the first packets of a UDP flow are    *)
(* recognised by their headers; the Initial packets are decrypted with the *)
(* connection id of the first one, and the ClientHello is put together     *)
(* from CRYPTO frames that may come in any order, repeated and             *)
(* overlapping, over several packets.                                      *)
(*                                                                         *)
(* A byte of a hello m is the pair <<m, i>>: position i of m.  A packet    *)
(* holds the header fields the dissector tests, the key it was encrypted   *)
(* with and its frames.                                                    *)
(***************************************************************************)
EXTENDS Integers, Sequences, SequencesExt, TLC

CONSTANTS QuicSession,     \* the packets of each flow to try, by its name
          QuicHello,       \* [size, app, host, doq] of each hello
          QuicHead,        \* bytes of a hello up to the end of its length (4)
          QuicBuf,         \* bytes of the reassembly buffer (4096)
          QuicBits,        \* bits of a byte of the bitmap (8)
          QuicMaxExtra,    \* extra packets for a reassembly (24)
          QuicMaxVn,       \* extra packets for a version negotiation (4)
          QuicMaxSh,       \* packets before the search for short headers ends (10)
          QuicCounter,     \* values of num_extra_packets_checked (256)
          QuicMaxPackets

ASSUME QuicBuf % QuicBits = 0

VARIABLE quic

NewQuic(session) ==
  [session |-> session, app |-> "Unknown", host |-> "", version |-> "none",
   client_hello_processed |-> FALSE, risk |-> FALSE, excluded |-> FALSE, extra |-> "none", max |-> 0, checked |-> 0,
   packet_counter |-> 0, rtt0 |-> FALSE, cid_stage |-> 0, cid |-> 0, last_byte |-> 0,
   vn_pair |-> FALSE, orig |-> 0, has_buf |-> FALSE, has_bitmap |-> FALSE, buf |-> << >>,
   bitmap |-> << >>, last_pos |-> 0,
   given |-> {}, sent |-> {}, forced |-> FALSE]
-----------------------------------------------------------------------------
(* Versions                                                                *)

is_version_forcing_vn(v) == v = "force_vn"

is_version_gquic(v) == v \in {"Q028", "Q043", "Q046", "Q050", "T051"}

is_version_quic(v) ==
  v \in {"draft22", "mvfst22", "mvfst_odd", "draft29", "v1", "v2"} \/ is_version_forcing_vn(v)

is_version_valid(v) == is_version_gquic(v) \/ is_version_quic(v)

get_u8_quic_ver(v) ==
  CASE v \in {"draft22", "mvfst22"}  -> 22
    [] v = "draft29"                 -> 29
    [] v \in {"v1", "force_vn"}      -> 34
    [] v = "v2"                      -> 100
    [] OTHER                         -> 0

get_u8_gquic_ver(v) ==
  CASE v = "Q028" -> 28 [] v = "Q043" -> 43 [] v = "Q046" -> 46 [] v = "Q050" -> 50
    [] v = "T051" -> 51 [] OTHER -> 0

is_gquic_ver_less_than(v, max) == get_u8_gquic_ver(v) \in 1..max

is_version_supported(v) ==
  v \in {"Q043", "Q046", "Q050", "T051", "mvfst22"} \/ get_u8_quic_ver(v) >= 23

is_version_with_tls(v) == is_version_quic(v) \/ v = "T051"

is_version_with_ietf_long_header(v) == is_version_quic(v) \/ v \in {"Q050", "T051"}
-----------------------------------------------------------------------------
(* Headers                                                                 *)

\* type is the number in the bits 3 and 4 of the first byte.
InitialType(v) == IF v = "v2" THEN 1 ELSE 0

may_be_initial_pkt(p) ==
  /\ p.size = "full"
  /\ p.long \/ (p.bit5 /\ ~p.fixed /\ p.bit8)
  /\ is_version_valid(p.version)
  /\ is_gquic_ver_less_than(p.version, 43) => p.bit5 /\ p.type = 0
  /\ p.version = "Q046" => p.bit7 /\ p.bit8
  /\ is_version_quic(p.version) \/ p.version \in {"Q046", "Q050"} =>
       p.type = InitialType(p.version)
  /\ is_version_forcing_vn(p.version) => p.long /\ p.fixed
  /\ is_version_with_ietf_long_header(p.version) => p.cids_fit

may_be_0rtt(p) ==
  /\ is_version_quic(p.version) /\ p.long /\ p.fixed
  /\ p.type = IF p.version = "v2" THEN 2 ELSE 1
  /\ p.cids_fit

may_be_gquic_rej(p) == p.port = "from_443" /\ p.rej

is_vn(p) == p.long /\ p.version = "zero" /\ p.cids_fit

\* Three short headers of the client with one connection id and different last bytes:
\* "found"; "more" to go on looking; "no".
may_be_sh(q, p) ==
  IF ~p.fixed \/ p.port = "other" THEN [q |-> q, is |-> "no"]
  ELSE IF p.port = "from_443" THEN [q |-> q, is |-> "more"]
  ELSE IF q.cid_stage > 0
  THEN IF q.cid # p.dcid \/ q.last_byte = p.last THEN [q |-> q, is |-> "no"]
       ELSE IF q.cid_stage = 2 THEN [q |-> [q EXCEPT !.cid_stage = 3], is |-> "found"]
       ELSE [q |-> [q EXCEPT !.cid_stage = @ + 1, !.last_byte = p.last], is |-> "more"]
  ELSE [q |-> [q EXCEPT !.cid = p.dcid, !.cid_stage = 1, !.last_byte = p.last],
        is |-> "more"]
-----------------------------------------------------------------------------
(* The reassembly of the ClientHello                                       *)

Bit == 0..(QuicBits - 1)

\* Wrong on purpose: the last byte of the bitmap gets one bit too many.
update_reasm_buf_bitmap_Over(bitmap, pos, len) ==
  IF len = 0 \/ pos + len > QuicBuf THEN bitmap
  ELSE LET first == pos \div QuicBits
           last  == (pos + len - 1) \div QuicBits
       IN  [i \in DOMAIN bitmap |->
              bitmap[i] \cup
                IF i < first \/ i > last THEN {}
                ELSE {b \in Bit : /\ i = first => b >= pos % QuicBits
                                  /\ i = last => b <= (pos + len) % QuicBits}]

\* Marks the bits pos .. pos + len - 1: a part of one byte, or the end of the first
\* byte, the whole of those between, and the start of the last.
update_reasm_buf_bitmap(bitmap, pos, len) ==
  IF len = 0 \/ pos + len > QuicBuf THEN bitmap
  ELSE LET start_byte == pos \div QuicBits
           end_byte   == (pos + len - 1) \div QuicBits
           start_bit  == pos % QuicBits
           end_bit    == (start_bit + len - 1) % QuicBits
           Filled(i) == CASE i < start_byte \/ i > end_byte -> {}
                          [] i = start_byte /\ i = end_byte -> start_bit..(start_bit + len - 1)
                          [] i = start_byte /\ i < end_byte -> start_bit..(QuicBits - 1)
                          [] i > start_byte /\ i = end_byte -> 0..end_bit
                          [] OTHER                          -> Bit
       IN  [i \in DOMAIN bitmap |-> bitmap[i] \cup Filled(i)]

is_reasm_buf_complete(q, len) ==
  LET complete_bytes == len \div QuicBits
      remaining_bits == len % QuicBits
  IN  /\ q.has_bitmap
      /\ \A i \in 0..(complete_bytes - 1) : q.bitmap[i] = Bit
      /\ remaining_bits > 0 => q.bitmap[complete_bytes] = 0..(remaining_bits - 1)

\* byte is the last of the bytes that hold the length of the message; other bytes there
\* give a length that does not match.
is_ch_complete(byte, len) ==
  /\ len >= QuicHead
  /\ byte[2] = QuicHead - 1
  /\ QuicHello[byte[1]].size = len

BufferComplete(q) ==
  is_reasm_buf_complete(q, q.last_pos) /\ is_ch_complete(q.buf[QuicHead - 1], q.last_pos)

is_ch_reassembler_pending(q) == q.has_buf /\ ~BufferComplete(q)

\* buf holds the bytes that were written; the others of the memory are not initialized.
\* mem tells which allocations fail.  The buffer and the bitmap are asked for together,
\* but a buffer that was obtained is kept when the bitmap was not.
reassemble(q, m, off, len, mem) ==
  LET alloc == IF q.has_buf THEN q
               ELSE [q EXCEPT !.has_buf = mem # "no_buf",
                              !.has_bitmap = @ \/ mem # "no_bitmap",
                              !.bitmap = IF q.has_bitmap \/ mem = "no_bitmap" THEN @
                                         ELSE [i \in 0..((QuicBuf \div QuicBits) - 1) |-> {}],
                              !.last_pos = 0]
      last_pos == off + len
  IN  IF (~q.has_buf /\ ~(alloc.has_buf /\ alloc.has_bitmap)) \/ last_pos > QuicBuf
      THEN alloc
      ELSE [alloc EXCEPT
              !.buf = [i \in off..(last_pos - 1) |-> <<m, i>>] @@ @,
              !.last_pos = IF last_pos > @ THEN last_pos ELSE @,
              !.bitmap = IF alloc.has_bitmap THEN update_reasm_buf_bitmap(@, off, len) ELSE @]

\* The data is the sequence of the bytes of a hello, << >> while it is not complete.
Stored(q, fr) ==
  [q |-> q,
   data |-> IF q.has_buf /\ q.has_bitmap /\ fr.off + fr.len <= QuicBuf /\ BufferComplete(q)
            THEN [i \in 1..q.last_pos |-> q.buf[i - 1]]
            ELSE << >>]

\* A frame that holds a whole hello is used as it is.
get_reassembled_crypto_data(q, fr, mem) ==
  LET fast == [i \in 1..fr.len |-> <<fr.m, i - 1>>]
  IN  IF fr.off = 0 /\ fr.len >= QuicHead /\ is_ch_complete(fast[QuicHead], fr.len)
      THEN [q |-> q, data |-> fast]
      ELSE Stored(reassemble(q, fr.m, fr.off, fr.len, mem), fr)

FrameRead(r) == [q |-> r.q, data |-> r.data, stop |-> r.data # << >>]

\* One frame of the loop: PADDING and PING are passed over; a complete hello, and any
\* frame but CRYPTO, ends it.
OneFrame(acc, fr, mem) ==
  IF acc.stop \/ fr.t \in {"padding", "ping"} THEN acc
  ELSE IF fr.t # "crypto" THEN [acc EXCEPT !.stop = TRUE]
  ELSE FrameRead(get_reassembled_crypto_data(acc.q, fr, mem))

\* The bytes of a hello.
WholeHello(m) == [i \in 1..QuicHello[m].size |-> <<m, i - 1>>]

\* The versions before the IETF's hold one message in a stream frame, after an
\* acknowledgement or not.
get_crypto_data(q, frames, mem) ==
  IF is_gquic_ver_less_than(q.version, 46) \/ q.version \in {"Q050", "T051"}
  THEN LET rest == SelectSeq(frames, LAMBDA fr : fr.t \notin {"padding", "gquic_ack"})
       IN  [q |-> q, data |-> IF rest # << >> /\ Head(rest).t = "stream"
                              THEN WholeHello(Head(rest).m) ELSE << >>]
  ELSE FoldLeft(LAMBDA acc, fr : OneFrame(acc, fr, mem),
                [q |-> q, data |-> << >>, stop |-> FALSE], frames)
-----------------------------------------------------------------------------
(* The payload of an Initial packet                                        *)

\* The salt is chosen by version, the secret is derived from it and the connection id.
quic_derive_initial_secrets(v, cid) ==
  LET u8 == get_u8_quic_ver(v)
  IN  <<CASE v \in {"Q050", "T051"} -> v
          [] v \notin {"Q050", "T051"} /\ u8 \in 1..22 -> "draft_22"
          [] v \notin {"Q050", "T051"} /\ u8 \in 23..31 -> "draft_29"
          [] v \notin {"Q050", "T051"} /\ u8 \in 32..34 -> "v1"
          [] OTHER -> "v2", cid>>

\* Whatever was encrypted with another key does not authenticate.
decrypt_initial_packet(orig, p) ==
  p.key = quic_derive_initial_secrets(p.version, orig)

\* Old packets are in clear.  The others use the connection id of the first Initial.
get_clear_payload(q, p) ==
  IF is_gquic_ver_less_than(p.version, 43) THEN [q |-> q, ok |-> TRUE]
  ELSE IF p.version = "Q046" THEN [q |-> q, ok |-> p.cids_fit]
  ELSE IF p.dcid = 0 THEN [q |-> q, ok |-> FALSE]
  ELSE LET orig == IF q.orig = 0 THEN p.dcid ELSE q.orig
       IN  [q |-> [q EXCEPT !.orig = orig], ok |-> decrypt_initial_packet(orig, p)]
-----------------------------------------------------------------------------
(* What the hello says                                                     *)

process_tls(q, data) ==
  LET hello == QuicHello[data[1][1]]
  IN  [q EXCEPT !.client_hello_processed = TRUE, !.host = hello.host,
                !.app = IF hello.doq THEN "DOH_DOT"
                        ELSE IF hello.app # "Unknown" THEN hello.app ELSE @,
                !.given = @ \cup {data}]

\* A CHLO without a name raises a risk.
process_chlo(q, data) ==
  LET chlo == QuicHello[data[1][1]]
  IN  IF chlo.host = "" THEN [q EXCEPT !.risk = @ \/ q.host = ""]
      ELSE [q EXCEPT !.client_hello_processed = TRUE, !.host = chlo.host,
                     !.app = IF chlo.app # "Unknown" THEN chlo.app ELSE @]

eval_extra_processing(q) ==
  \/ q.version = "Q046" /\ q.host = ""
  \/ q.version = "v1" /\ q.app = "SNAPCHAT" /\ q.host = "addlive"
  \/ is_ch_reassembler_pending(q)
-----------------------------------------------------------------------------
(* The dissector                                                           *)

ExcludeQuic(q) == [q EXCEPT !.excluded = TRUE]

FoundQuic(q, v) == [q EXCEPT !.app = "QUIC", !.version = v]

\* A packet that is no Initial.
NotInitial(q, p) ==
  LET sh == may_be_sh(q, p)
  IN  IF is_ch_reassembler_pending(q) THEN ExcludeQuic(q)
      ELSE IF may_be_0rtt(p)
      THEN IF q.packet_counter >= 3 THEN FoundQuic([q EXCEPT !.rtt0 = TRUE], p.version)
           ELSE [q EXCEPT !.rtt0 = TRUE]
      ELSE IF q.rtt0 THEN FoundQuic(q, "none")
      ELSE IF sh.is = "found" THEN FoundQuic(sh.q, "none")
      ELSE IF sh.is = "more"
      THEN IF q.packet_counter > QuicMaxSh THEN ExcludeQuic(sh.q) ELSE sh.q
      ELSE IF may_be_gquic_rej(p) THEN FoundQuic(sh.q, "none")
      ELSE ExcludeQuic(sh.q)

\* Whether more packets are needed, once the frames were read.
InitialRead(q, got) ==
  IF eval_extra_processing(q) THEN [q EXCEPT !.max = QuicMaxExtra, !.extra = "quic"]
  ELSE IF ~got THEN ExcludeQuic(q)
  ELSE q

\* The hello, when the frames completed one.
ReadCrypto(p, crypto) ==
  InitialRead(IF crypto.data = << >> THEN crypto.q
              ELSE IF is_version_with_tls(p.version) THEN process_tls(crypto.q, crypto.data)
              ELSE process_chlo(crypto.q, crypto.data),
              crypto.data # << >>)

ReadPayload(p, payload, mem) ==
  IF payload.ok THEN ReadCrypto(p, get_crypto_data(payload.q, p.frames, mem))
  ELSE ExcludeQuic(payload.q)

\* Decrypts an Initial, reads its hello, and decides whether more packets are needed.
ReadInitial(q, p, mem) == ReadPayload(p, get_clear_payload(q, p), mem)

\* What the CRYPTO frames of a packet hold, up to the first frame that ends the loop.
CryptoSent(frames) ==
  UNION {IF frames[i].t # "crypto" THEN {}
         ELSE {<<frames[i].m, j>> : j \in frames[i].off..(frames[i].off + frames[i].len - 1)} :
         i \in {j \in DOMAIN frames :
                 \A n \in 1..j : frames[n].t \in {"padding", "ping", "crypto"}}}

\* sent is there for the property only.
ndpi_search_quic(q, p, mem) ==
  LET found == [FoundQuic(q, p.version) EXCEPT !.sent = @ \cup CryptoSent(p.frames)]
  IN  IF ~may_be_initial_pkt(p) THEN NotInitial(q, p)
      ELSE IF ~is_version_supported(p.version) THEN ExcludeQuic(found)
      ELSE IF is_version_forcing_vn(p.version)
      THEN [found EXCEPT !.max = QuicMaxVn, !.extra = "vn", !.forced = TRUE]
      ELSE ReadInitial(found, p, mem)

\* The extra dissections return the flow and whether they want another packet.
Reassembling(q) == [q |-> q, more |-> is_ch_reassembler_pending(q)]

ndpi_search_quic_extra(q, p, mem) ==
  IF p.size = "empty" THEN [q |-> q, more |-> TRUE]
  ELSE IF is_ch_reassembler_pending(q) THEN Reassembling(ndpi_search_quic(q, p, mem))
  ELSE IF p.fixed THEN [q |-> q, more |-> TRUE]
  ELSE [q |-> IF p.rtp THEN [q EXCEPT !.app = "SNAPCHAT_CALL"] ELSE q, more |-> FALSE]

ndpi_search_quic_extra_vn(q, p, mem) ==
  IF p.size = "empty" THEN [q |-> q, more |-> TRUE]
  ELSE IF q.vn_pair THEN [q |-> ndpi_search_quic(q, p, mem), more |-> FALSE]
  ELSE IF is_vn(p) THEN [q |-> [q EXCEPT !.vn_pair = TRUE], more |-> TRUE]
  ELSE [q |-> q, more |-> FALSE]

\* process_extra_packet: the extra dissection ends when it wants no more or has had its
\* packets.
ExtraCount(r) ==
  LET checked == (r.q.checked + 1) % QuicCounter
  IN  IF ~r.more THEN [r.q EXCEPT !.extra = "none"]
      ELSE [r.q EXCEPT !.checked = checked, !.extra = IF checked = r.q.max THEN "none" ELSE @]

ExtraPacket(q, p, mem) ==
  ExtraCount(IF q.extra = "quic" THEN ndpi_search_quic_extra(q, p, mem)
             ELSE ndpi_search_quic_extra_vn(q, p, mem))

QuicInit == \E session \in DOMAIN QuicSession : quic = NewQuic(session)

\* The first packets go to the dissector until it has found or excluded QUIC, those that
\* follow to the extra dissection it asked for.
ReceiveQuic(p, mem) ==
  LET q == [quic EXCEPT !.packet_counter = IF p.size = "empty" THEN @ ELSE @ + 1]
  IN  /\ quic.packet_counter < QuicMaxPackets
      /\ \/ /\ quic.app = "Unknown" /\ ~quic.excluded /\ p.size # "empty"
            /\ quic' = ndpi_search_quic(q, p, mem)
         \/ /\ quic.app # "Unknown" /\ quic.extra # "none"
            /\ quic' = ExtraPacket(q, p, mem)

QuicNext ==
  \E p \in QuicSession[quic.session],
     mem \in {"ok"} \cup IF quic.has_buf THEN {} ELSE {"no_buf", "no_bitmap"} :
    ReceiveQuic(p, mem)

QuicSpec == QuicInit /\ [][QuicNext]_quic
-----------------------------------------------------------------------------
QuicTypeOK ==
  /\ quic.last_pos \in 0..QuicBuf
  /\ quic.cid_stage \in 0..3
  /\ quic.extra \in {"none", "quic", "vn"}
  /\ \A i \in DOMAIN quic.bitmap : quic.bitmap[i] \subseteq Bit

\* Whatever the order, the overlaps and the repetitions of the CRYPTO frames, and
\* whichever allocations fail: what process_tls gets is one whole hello, byte for byte; a
\* hello whose bytes were all in the Initial packets of the flow has been read; and a reassembly that has started
\* keeps the extra dissection of the flow going until it has had its packets, unless the
\* flow forced a version negotiation (then extra_packets_func is cleared after the second
\* Initial) or an allocation failed before anything was stored.
QuicHelloWhole ==
  /\ \A data \in quic.given : \E m \in DOMAIN QuicHello : data = WholeHello(m)
  /\ \A m \in DOMAIN QuicHello :
       quic.has_buf /\ quic.has_bitmap /\ quic.sent = Range(WholeHello(m)) => quic.client_hello_processed
  /\ is_ch_reassembler_pending(quic) /\ ~quic.forced =>
       quic.extra = "quic" \/ quic.checked >= QuicMaxExtra
=============================================================================
