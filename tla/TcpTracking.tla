------------------------------ MODULE TcpTracking ------------------------------
(***************************************************************************)
(* What the library keeps of a TCP connection before any dissector sees a  *)
(* packet (connection_tracking in src/lib/ndpi_main.c): the three-way      *)
(* handshake, the sequence number expected from each side, the             *)
(* retransmission flag of the packet, the side of the client, the packet   *)
(* counters.  Sequence numbers are taken modulo SeqSpace (2^32 in C) and 0 *)
(* means that a number is not known, as in the code.                       *)
(***************************************************************************)
EXTENDS Integers, Sequences

CONSTANTS SeqSpace,             \* number of sequence numbers
          SeqWindow,            \* tcp_max_retransmission_window_size
          MAX_PACKET_COUNTER    \* where the packet counters stop

Dir == 0..1

\* Distance from b forward to a, as the unsigned subtraction of C.
SeqMinus(a, b) == (a - b) % SeqSpace

NewConnection ==
  [next_tcp_seq_nr |-> [d \in Dir |-> 0], last_len |-> 0, tcp_retransmission |-> FALSE,
   seen_syn |-> FALSE, seen_syn_ack |-> FALSE, seen_ack |-> FALSE,
   syn_time |-> FALSE, syn_ack_time |-> FALSE, ack_time |-> FALSE,
   init_finished |-> FALSE, client_packet_direction |-> 0, num_processed_pkts |-> 0,
   packet_counter |-> 0, all_packets_counter |-> 0,
   packet_direction_counter |-> [d \in Dir |-> 0], tcp_issues |-> FALSE]

\* A segment: direction, sequence number, payload length, flags, acknowledged number;
\* "zero" is a short payload of zero bytes without push, "odd" are flags of a scan.
Seg(dir, seq, len, flags, ack_seq) ==
  [dir |-> dir, seq |-> seq, len |-> len, flags |-> flags, ack_seq |-> ack_seq]

\* Which packets of the handshake were seen, and the scans.
TrackFlags(c, s) ==
  LET syn == "syn" \in s.flags
      ack == "ack" \in s.flags
      fresh == ~c.seen_ack
  IN [c EXCEPT !.syn_ack_time = @ \/ (syn /\ ack),
               !.syn_time = @ \/ (syn /\ ~ack),
               !.ack_time = @ \/ (ack /\ ~syn),
               !.tcp_issues = @ \/ "odd" \in s.flags,
               !.seen_syn = @ \/ (syn /\ ~ack /\ ~c.seen_syn_ack /\ fresh),
               !.seen_syn_ack = @ \/ (syn /\ ack /\ c.seen_syn /\ fresh),
               !.seen_ack = @ \/ (~syn /\ ack /\ c.seen_syn /\ c.seen_syn_ack)]

tcp_ack_padding(s) == "zero" \in s.flags /\ "ack" \in s.flags /\ "psh" \notin s.flags

\* The sequence numbers are set from a packet with the acknowledge flag, the one of
\* the other side only from the second packet on.
InitSequence(c, s) ==
  LET mine == (s.seq + (IF "syn" \in s.flags THEN 1 ELSE s.len)) % SeqSpace
      other == IF c.num_processed_pkts > 1 THEN s.ack_seq ELSE c.next_tcp_seq_nr[1 - s.dir]
  IN IF "ack" \notin s.flags THEN c
     ELSE [c EXCEPT !.next_tcp_seq_nr = [d \in Dir |-> IF d = s.dir THEN mine ELSE other]]

\* Part of the segment is before, part after the number expected.
PartialRetry(c, s) == SeqMinus(c.next_tcp_seq_nr[s.dir], s.seq) < s.len

\* Wrong on purpose: the number expected next is not moved.
CheckSequence_Stuck(c, s) ==
  LET old == SeqMinus(s.seq, c.next_tcp_seq_nr[s.dir]) > SeqWindow
  IN [c EXCEPT !.tcp_retransmission = old /\ c.last_len > 0]

\* A payload against the number expected from its side.
CheckSequence(c, s) ==
  LET end == (s.seq + s.len) % SeqSpace
      old == SeqMinus(s.seq, c.next_tcp_seq_nr[s.dir]) > SeqWindow
      moved == [c EXCEPT !.next_tcp_seq_nr[s.dir] = end]
  IN IF ~old THEN moved
     ELSE [(IF PartialRetry(c, s) /\ c.num_processed_pkts > 1 THEN moved ELSE c)
             EXCEPT !.tcp_retransmission = c.last_len > 0]

\* The sequence part of connection_tracking.
TrackSequence(c, s) ==
  LET unset == \/ \E d \in Dir : c.next_tcp_seq_nr[d] = 0
               \/ "syn" \in s.flags /\ c.packet_counter = 0
      a == IF tcp_ack_padding(s) THEN [c EXCEPT !.tcp_retransmission = TRUE]
           ELSE IF unset THEN InitSequence(c, s)
           ELSE IF s.len > 0 THEN CheckSequence(c, s)
           ELSE c
      b == IF "rst" \in s.flags THEN [a EXCEPT !.next_tcp_seq_nr = [d \in Dir |-> 0]] ELSE a
  IN [b EXCEPT !.last_len = s.len]

\* The first packet decides which side is the client: by the handshake, else by a
\* well-known port, which is that of direction `to', else the sender.
ClientSide(c, s, to) ==
  IF c.init_finished THEN c
  ELSE [c EXCEPT !.init_finished = TRUE,
                 !.client_packet_direction =
                   IF "syn" \in s.flags
                     THEN IF "ack" \in s.flags THEN 1 - s.dir ELSE s.dir
                   ELSE IF to \in Dir THEN to
                   ELSE s.dir]

Bump(n) == IF n < MAX_PACKET_COUNTER THEN n + 1 ELSE n

CountPacket(c, s) ==
  LET a == [c EXCEPT !.all_packets_counter = Bump(@)]
  IN IF s.len = 0 THEN a
     ELSE [a EXCEPT !.packet_counter = Bump(@), !.packet_direction_counter[s.dir] = Bump(@)]

\* connection_tracking, with the packet counted by the caller.
connection_tracking(c, s, to) ==
  LET a == [c EXCEPT !.num_processed_pkts = Bump(@), !.tcp_retransmission = FALSE]
  IN CountPacket(ClientSide(TrackSequence(TrackFlags(a, s), s), s, to), s)

ndpi_seen_flow_beginning(c) == c.seen_syn /\ c.seen_syn_ack /\ c.seen_ack
=============================================================================
