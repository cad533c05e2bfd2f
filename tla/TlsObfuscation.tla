---------------------------- MODULE TlsObfuscation ----------------------------
(***************************************************************************)
(* The heuristic that looks for a TLS handshake inside another stream      *)
(* (src/lib/protocols/tls.c): the packets and bytes of four consecutive    *)
(* bursts, the first one sent by the client, are compared with the bursts  *)
(* of known handshakes.  Two overlapping sets of four bursts are kept.     *)
(* Sizes are small numbers; which byte counts are near a known handshake   *)
(* is the constant ObfNear.                                                *)
(***************************************************************************)
EXTENDS Integers, Sequences, FiniteSets

CONSTANTS ObfSize,        \* payload lengths of a packet
          ObfOverhead,    \* what the outer TLS adds to each packet
          ObfNear,        \* byte counts of four bursts near a known handshake
          ObfFirstMax,    \* packets a client hello may take
          ObfMaxPackets,  \* tls_heuristics_max_packets
          ObfRange        \* values of the one-byte packet counters

ASSUME ObfAssumption ==
  /\ ObfSize \subseteq Nat /\ ObfOverhead \in Nat
  /\ ObfMaxPackets \in Nat /\ ObfRange \in Nat \ {0}

VARIABLE o

NewSet == [stage |-> 0, bytes |-> <<0, 0, 0, 0>>, pkts |-> <<0, 0, 0, 0>>]

\* A packet of the flow: its direction, its length, and whether its first byte is
\* that of a change-cipher record.
ObfPacket == [client : BOOLEAN, len : ObfSize, cipher : BOOLEAN]

\* Distance from the models of Firefox and Chrome, and not too many first packets.
check_set(set) == set.pkts[1] <= ObfFirstMax /\ set.bytes \in ObfNear

\* Wrong on purpose: a burst ends with every packet after the first one.
NextStage_Any(stage, client) ==
  IF client /\ stage = 1 THEN stage ELSE stage + 1

\* The stage a set is in after a packet of that direction; 5 means that its four
\* bursts are over.
NextStage(stage, client) ==
  IF client <=> stage \in {1, 3} THEN stage ELSE stage + 1

\* The packet joins burst n of a set.
Added(set, n, bytes) ==
  [stage |-> n, bytes |-> [set.bytes EXCEPT ![n] = @ + bytes],
   pkts |-> [set.pkts EXCEPT ![n] = @ + 1]]

\* A completed set starts again with the packet that completed it.
Reused(bytes) == Added(NewSet, 1, bytes)

\* One set after a packet.
UpdatedSet(set, client, bytes) ==
  LET n == NextStage(set.stage, client)
  IN IF n < 5 THEN Added(set, n, bytes)
     ELSE IF check_set([set EXCEPT !.stage = 5]) THEN [set EXCEPT !.stage = 5]
     ELSE Reused(bytes)

\* The loop over the two sets: the first opens with the first packet, the second
\* with the third burst.  "exclude": the server spoke first.
tls_obfuscated_sets(sets, client, bytes) ==
  IF sets[1].stage = 0 /\ ~client THEN [rc |-> "exclude", sets |-> sets]
  ELSE LET s1 == UpdatedSet(sets[1], client, bytes)
       IN IF s1.stage = 5 THEN [rc |-> "found", sets |-> <<s1, sets[2]>>]
          ELSE IF sets[2].stage = 0
            THEN [rc |-> "continue",
                  sets |-> <<s1, IF s1.stage = 3 THEN Added(sets[2], 1, bytes) ELSE sets[2]>>]
            ELSE LET s2 == UpdatedSet(sets[2], client, bytes)
                 IN [rc |-> IF s2.stage = 5 THEN "found" ELSE "continue", sets |-> <<s1, s2>>]

\* The bursts of the packets the heuristic counted, kept for the properties.
Burst(bursts, client, bytes) ==
  IF bursts # << >> /\ (bursts[Len(bursts)].client <=> client)
    THEN [bursts EXCEPT ![Len(bursts)] =
            [client |-> client, bytes |-> @.bytes + bytes, pkts |-> @.pkts + 1]]
    ELSE Append(bursts, [client |-> client, bytes |-> bytes, pkts |-> 1])

\* What a packet of an outer TLS session is to the heuristic before that side
\* changed its cipher.
BeforeCipher(t, p) ==
  t.in_tls /\ IF p.client THEN ~t.cipher_client ELSE ~t.cipher_server

CipherSeen(t, p) ==
  IF ~p.cipher THEN t
  ELSE IF p.client THEN [t EXCEPT !.cipher_client = TRUE]
  ELSE [t EXCEPT !.cipher_server = TRUE]

\* The packets counted so far are more than the configuration wants.
TooMany(t) == t.num_pkts > ObfMaxPackets

\* tls_obfuscated_heur_search: 0 continue, 1 exclude, 2 found.
tls_obfuscated_heur_search(t, p) ==
  LET overhead == IF t.in_tls THEN ObfOverhead ELSE 0
      size == p.len - overhead
      counted == [t EXCEPT !.num_pkts = (@ + 1) % ObfRange]
      r == tls_obfuscated_sets(t.sets, p.client, size)
  IN IF p.len = 0 THEN [rc |-> "continue", t |-> t]
     ELSE IF p.len < overhead THEN [rc |-> "exclude", t |-> t]
     ELSE IF BeforeCipher(t, p) THEN [rc |-> "continue", t |-> CipherSeen(t, p)]
     ELSE IF TooMany(t) THEN [rc |-> "exclude", t |-> counted]
     ELSE [rc |-> r.rc,
           t |-> [counted EXCEPT !.sets = r.sets, !.counted = @ + 1,
                                 !.bursts = Burst(@, p.client, size)]]

\* tls_obfuscated_heur_search_again: a match is a classification or a new
\* confidence, and a risk; it also ends the heuristic.
tls_obfuscated_heur_search_again(t, p) ==
  LET r == tls_obfuscated_heur_search(t, p)
  IN IF r.rc = "continue" THEN r.t
     ELSE IF r.rc = "exclude" THEN [r.t EXCEPT !.active = FALSE]
     ELSE [r.t EXCEPT !.active = FALSE, !.conf = "aggressive",
                      !.risk = IF t.stack = "Unknown" THEN "plain"
                               ELSE IF t.in_tls THEN "in_tls" ELSE "in_http",
                      !.stack = IF t.stack = "Unknown" THEN "TLS" ELSE t.stack]

\* switch_extra_dissection_to_tls_obfuscated_heur, and the allocation by the
\* wrapper for a flow that is not TLS: the state starts empty.
switch_to_obfuscated(stack, client, server) ==
  [sets |-> <<NewSet, NewSet>>, num_pkts |-> 0, active |-> TRUE, stack |-> stack,
   in_tls |-> stack = "TLS", cipher_client |-> client, cipher_server |-> server,
   max_extra |-> IF stack = "Unknown" THEN 0 ELSE (ObfMaxPackets * 2) % ObfRange,
   checked |-> 0, conf |-> "dpi", risk |-> "none", counted |-> 0, bursts |-> << >>]

\* The heuristic starts for a stream no dissector knows, for a web socket, and for a
\* TLS session of which at most one side changed its cipher.
ObfInit ==
  \/ o = switch_to_obfuscated("Unknown", FALSE, FALSE)
  \/ o = switch_to_obfuscated("HTTP", FALSE, FALSE)
  \/ \E c, s \in BOOLEAN : ~(c /\ s) /\ o = switch_to_obfuscated("TLS", c, s)

\* A packet of the extra dissection is counted, and the last one ends it.
ObfCounted(t) ==
  IF t.stack = "Unknown" \/ ~t.active THEN t
  ELSE LET n == (t.checked + 1) % ObfRange
       IN [t EXCEPT !.checked = n, !.active = n # t.max_extra]

ObfStep(p) ==
  /\ o.active
  /\ o' = IF o.stack = "Unknown" THEN tls_obfuscated_heur_search_again(o, p)
          ELSE ObfCounted(tls_obfuscated_heur_search_again(o, p))

ObfNext == \E p \in ObfPacket : ObfStep(p)

ObfSpec == ObfInit /\ [][ObfNext]_o
-----------------------------------------------------------------------------
ObfTypeOK ==
  /\ \A i \in 1..2 : /\ o.sets[i].stage \in 0..5
                     /\ DOMAIN o.sets[i].bytes = 1..4
                     /\ DOMAIN o.sets[i].pkts = 1..4
  /\ o.num_pkts \in 0..(ObfRange - 1)
  /\ o.stack \in {"Unknown", "TLS", "HTTP"}
  /\ o.risk \in {"none", "plain", "in_tls", "in_http"}
  /\ o.active \in BOOLEAN
  /\ o.counted <= ObfMaxPackets + 1      \* it looks at one packet more than configured

\* The last n bursts are those counted in set s; a completed set was complete
\* before the packet that ended it.
Holds(s, n, bursts) ==
  LET skip == IF s.stage = 5 THEN 1 ELSE 0
      from == Len(bursts) - skip - n
  IN /\ from >= 0
     /\ bursts[from + 1].client
     /\ \A i \in 1..4 :
          IF i <= n THEN s.bytes[i] = bursts[from + i].bytes /\ s.pkts[i] = bursts[from + i].pkts
          ELSE s.bytes[i] = 0 /\ s.pkts[i] = 0

\* Each open set holds exactly the last bursts of the flow, the oldest sent by the
\* client, so the comparison with a known handshake is always made on four whole
\* consecutive bursts; the second set is open from the third burst on and is two
\* bursts behind the first ("We have up tp 2 sets contemporarily active").
SetsAreLastBursts ==
  /\ \A i \in 1..2 : LET s == o.sets[i] IN
       \/ s.stage = 0
       \/ i = 2 /\ o.sets[1].stage = 5      \* not updated by the packet that matched
       \/ Holds(s, IF s.stage = 5 THEN 4 ELSE s.stage, o.bursts)
  /\ o.sets[1].stage \in 1..4 /\ o.sets[2].stage \in 1..4 =>
       (o.sets[1].stage - o.sets[2].stage) % 4 = 2
  /\ (o.sets[2].stage = 0) = (Len(o.bursts) < 3)
=============================================================================
