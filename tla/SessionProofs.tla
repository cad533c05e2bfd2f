--------------------------- MODULE SessionProofs ----------------------------
(***************************************************************************)
(* The sessions that span packets, for packets of any content, length and  *)
(* number: the two sets of the obfuscated TLS heuristic hold the last      *)
(* bursts of the flow; what a flow of HTTP holds is of its last messages,  *)
(* and three messages in one direction end it.                             *)
(***************************************************************************)
EXTENDS TlsObfuscation, HttpDissection, TLAPS
-----------------------------------------------------------------------------
(* Obfuscated TLS.  The search counts a burst in at most four places, and  *)
(* starts a set again with the burst that made it fail.                    *)

\* A burst of packets in one direction, and a set of four of them.
BurstRecord == [client : BOOLEAN, bytes : Int, pkts : Int]

SetRecord == [stage : 0..5, bytes : [1..4 -> Int], pkts : [1..4 -> Int]]

\* A packet belongs to the last burst, or opens the next one.
LEMMA BurstFacts ==
    ASSUME NEW B \in Seq(BurstRecord), NEW client \in BOOLEAN, NEW bytes \in Int
    PROVE  LET C == Burst(B, client, bytes)
               n == Len(B)
           IN /\ C \in Seq(BurstRecord) /\ (C[Len(C)].client <=> client)
              /\ n > 0 /\ (B[n].client <=> client) =>
                   /\ Len(C) = n /\ C[n].bytes = B[n].bytes + bytes /\ C[n].pkts = B[n].pkts + 1
                   /\ (C[n].client <=> B[n].client)
                   /\ \A i \in 1..(n - 1) : C[i] = B[i]
              /\ ~(n > 0 /\ (B[n].client <=> client)) =>
                   /\ Len(C) = n + 1 /\ C[n + 1].bytes = bytes /\ C[n + 1].pkts = 1
                   /\ (C[n + 1].client <=> client)
                   /\ \A i \in 1..n : C[i] = B[i]
<1> DEFINE n == Len(B)
           C == Burst(B, client, bytes)
<1>1. CASE n > 0 /\ (B[n].client <=> client)
  <2>1. B # << >> /\ n \in 1..n /\ n \in Nat
    BY <1>1
  <2>2. B[n] \in BurstRecord
    BY <2>1
  <2> DEFINE last == [client |-> client, bytes |-> B[n].bytes + bytes, pkts |-> B[n].pkts + 1]
  <2>3. C = [B EXCEPT ![n] = last]
    BY <1>1, <2>1, Zenon DEF Burst
  <2>4. last \in BurstRecord
    BY <2>2 DEF BurstRecord
  <2> HIDE DEF last, C
  <2>5. C \in Seq(BurstRecord) /\ Len(C) = n /\ C[n] = last /\ \A i \in 1..(n - 1) : C[i] = B[i]
    BY <2>1, <2>3, <2>4
  <2>6. last.client = client /\ last.bytes = B[n].bytes + bytes /\ last.pkts = B[n].pkts + 1
    BY Zenon DEF last
  <2> QED
    BY <1>1, <2>1, <2>5, <2>6, Zenon DEF C
<1>2. CASE ~(n > 0 /\ (B[n].client <=> client))
  <2>1. C = Append(B, [client |-> client, bytes |-> bytes, pkts |-> 1])
    BY <1>2 DEF Burst
  <2> QED
    BY <1>2, <2>1 DEF BurstRecord
<1> QED
  BY <1>1, <1>2, Zenon

\* Set s holds the n bursts of B after the first "from" ones.
HoldsFrom(s, n, from, B) ==
    /\ from \in Nat /\ from + n <= Len(B)
    /\ B[from + 1].client
    /\ \A i \in 1..n : s.bytes[i] = B[from + i].bytes /\ s.pkts[i] = B[from + i].pkts
    /\ \A i \in (n + 1)..4 : s.bytes[i] = 0 /\ s.pkts[i] = 0

\* An open set is in the middle of the last burst.
Open(s, B) ==
    /\ s.stage \in 1..4 /\ Len(B) > 0
    /\ B[Len(B)].client <=> s.stage \in {1, 3}
    /\ HoldsFrom(s, s.stage, Len(B) - s.stage, B)

\* Adding bytes to a burst of a set yields a set of that stage.
LEMMA AddedType ==
    \A s \in SetRecord, n \in 1..4, bytes \in Int :
        Added(s, n, bytes) \in SetRecord /\ Added(s, n, bytes).stage = n
BY DEF SetRecord, Added

\* A packet counted in place n leaves the set at that stage.
LEMMA AddedRecord ==
    ASSUME NEW s \in SetRecord, NEW n \in 1..4, NEW bytes \in Int, NEW t, t = Added(s, n, bytes)
    PROVE  t \in SetRecord /\ t.stage = n
BY DEF SetRecord, Added

\* A new set has counted nothing.
LEMMA NewSetFacts ==
    /\ NewSet \in SetRecord /\ NewSet.stage = 0
    /\ \A i \in 1..4 : NewSet.bytes[i] = 0 /\ NewSet.pkts[i] = 0
<1>1. <<0, 0, 0, 0>> \in [1..4 -> Int] /\ \A i \in 1..4 : <<0, 0, 0, 0>>[i] = 0
  OBVIOUS
<1> QED
  BY <1>1 DEF SetRecord, NewSet

\* The next burst of a set that holds the bursts before it.
LEMMA NextBurst ==
    ASSUME NEW s \in SetRecord, NEW n \in 1..4, NEW B \in Seq(BurstRecord), NEW client \in BOOLEAN,
           NEW bytes \in Int, ~(Len(B) > 0 /\ (B[Len(B)].client <=> client)),
           n = 1 => client,
           n > 1 => HoldsFrom(s, n - 1, Len(B) - (n - 1), B),
           \A i \in n..4 : s.bytes[i] = 0 /\ s.pkts[i] = 0,
           client <=> n \in {1, 3}
    PROVE  Open(Added(s, n, bytes), Burst(B, client, bytes))
<1> DEFINE C == Burst(B, client, bytes)
           t == Added(s, n, bytes)
           from == Len(B) - (n - 1)
<1>1. /\ C \in Seq(BurstRecord) /\ Len(C) = Len(B) + 1 /\ Len(B) \in Nat
      /\ (C[Len(C)].client <=> client) /\ C[Len(C)].bytes = bytes /\ C[Len(C)].pkts = 1
      /\ \A i \in 1..Len(B) : C[i] = B[i]
  BY BurstFacts
<1>2. /\ t.stage = n /\ t.bytes[n] = s.bytes[n] + bytes /\ t.pkts[n] = s.pkts[n] + 1
      /\ \A i \in 1..4 \ {n} : t.bytes[i] = s.bytes[i] /\ t.pkts[i] = s.pkts[i]
  BY Zenon DEF Added, SetRecord
<1> HIDE DEF C, t
<1>3. t.bytes[n] = bytes /\ t.pkts[n] = 1
  BY <1>2
<1>4. from \in Nat /\ from + n = Len(C) /\ Len(C) - n = from
  BY <1>1 DEF HoldsFrom
<1>5. C[from + 1].client
  <2>1. CASE n = 1
    BY <2>1, <1>1, <1>4, Zenon
  <2>2. CASE n > 1
    BY <2>2, <1>1, <1>4 DEF HoldsFrom
  <2> QED BY <2>1, <2>2
<1>6. ASSUME NEW i \in 1..n
      PROVE  t.bytes[i] = C[from + i].bytes /\ t.pkts[i] = C[from + i].pkts
  <2>1. CASE i = n
    BY <2>1, <1>1, <1>3, <1>4, Zenon
  <2>2. CASE i < n
    <3>a. n \in Nat /\ i \in Nat /\ i < n /\ 1 <= i /\ n <= 4 /\ Len(B) \in Nat
      BY <2>2, <1>1
    <3>b. from + i \in 1..Len(B)
      BY <3>a, <1>4
    <3>1. i \in 1..(n - 1) /\ i \in 1..4 \ {n} /\ n > 1 /\ from + i \in 1..Len(B)
      BY <3>a, <3>b
    <3>2. s.bytes[i] = B[from + i].bytes /\ s.pkts[i] = B[from + i].pkts
      BY <3>1, Zenon DEF HoldsFrom
    <3> QED BY <3>1, <3>2, <1>1, <1>2, Zenon
  <2> QED BY <2>1, <2>2
<1>7. \A i \in (n + 1)..4 : t.bytes[i] = 0 /\ t.pkts[i] = 0
  BY <1>2
<1>8. HoldsFrom(t, n, from, C)
  BY <1>4, <1>5, <1>6, <1>7 DEF HoldsFrom
<1>9. C[Len(C)].client <=> n \in {1, 3}
  BY <1>1, Zenon
<1> QED
  BY <1>1, <1>2, <1>4, <1>8, <1>9 DEF Open, C, t

\* A set that is complete keeps what it counted.
LEMMA EndedSet ==
    ASSUME NEW s \in SetRecord
    PROVE  LET t == [s EXCEPT !.stage = 5]
           IN  t.stage = 5 /\ t.bytes = s.bytes /\ t.pkts = s.pkts /\ t \in SetRecord
  BY DEF SetRecord

\* A packet that stays in the burst.
LEMMA SameBurst ==
    ASSUME NEW s \in SetRecord, NEW B \in Seq(BurstRecord), NEW client \in BOOLEAN,
           NEW bytes \in Int, Open(s, B), (B[Len(B)].client <=> client)
    PROVE  Open(Added(s, s.stage, bytes), Burst(B, client, bytes))
<1> DEFINE C == Burst(B, client, bytes)
           n == s.stage
           t == Added(s, n, bytes)
           from == Len(B) - n
<1>0. n \in 1..4 /\ Len(B) > 0 /\ Len(B) \in Nat /\ HoldsFrom(s, n, from, B)
  BY DEF Open
<1>1. /\ C \in Seq(BurstRecord) /\ Len(C) = Len(B) /\ (C[Len(B)].client <=> B[Len(B)].client)
      /\ C[Len(B)].bytes = B[Len(B)].bytes + bytes /\ C[Len(B)].pkts = B[Len(B)].pkts + 1
      /\ \A i \in 1..(Len(B) - 1) : C[i] = B[i]
  BY <1>0, BurstFacts
<1>2. /\ t.stage = n /\ t.bytes[n] = s.bytes[n] + bytes /\ t.pkts[n] = s.pkts[n] + 1
      /\ \A i \in 1..4 \ {n} : t.bytes[i] = s.bytes[i] /\ t.pkts[i] = s.pkts[i]
  BY <1>0, Zenon DEF Added, SetRecord
<1> HIDE DEF C, t, n
<1>3. from \in Nat /\ from + n = Len(B)
  BY <1>0 DEF HoldsFrom
<1>4. C[from + 1].client
  BY <1>0, <1>1, <1>3 DEF HoldsFrom
<1>5. ASSUME NEW i \in 1..n
      PROVE  t.bytes[i] = C[from + i].bytes /\ t.pkts[i] = C[from + i].pkts
  <2>1. s.bytes[i] = B[from + i].bytes /\ s.pkts[i] = B[from + i].pkts
    BY <1>0, Zenon DEF HoldsFrom
  <2>2. CASE i = n
    BY <2>1, <2>2, <1>1, <1>2, <1>3
  <2>3. CASE i < n
    <3>1. i \in 1..4 \ {n} /\ from + i \in 1..(Len(B) - 1)
      BY <2>3, <1>0, <1>3
    <3> QED BY <2>1, <3>1, <1>1, <1>2, Zenon
  <2> QED BY <1>0, <2>2, <2>3
<1>6. \A i \in (n + 1)..4 : t.bytes[i] = 0 /\ t.pkts[i] = 0
  <2>1. \A i \in (n + 1)..4 : s.bytes[i] = 0 /\ s.pkts[i] = 0
    BY Zenon, <1>0 DEF HoldsFrom
  <2>2. \A i \in (n + 1)..4 : i \in 1..4 \ {n}
    BY <1>0
  <2> QED
    BY Zenon, <1>2, <2>1, <2>2
<1>7. HoldsFrom(t, n, from, C)
  BY <1>0, <1>1, <1>3, <1>4, <1>5, <1>6, Zenon DEF HoldsFrom
<1>8. C[Len(C)].client <=> n \in {1, 3}
  BY <1>1, Zenon DEF Open, n
<1> QED
  BY <1>0, <1>1, <1>2, <1>3, <1>7, <1>8, Zenon DEF Open, C, t, n

\* One set after a packet: still in the middle of the last burst, or just completed.
LEMMA SetStep ==
    ASSUME NEW s \in SetRecord, NEW B \in Seq(BurstRecord), NEW client \in BOOLEAN,
           NEW bytes \in Int, Open(s, B),
           NEW C, C = Burst(B, client, bytes), NEW t, t = UpdatedSet(s, client, bytes)
    PROVE  /\ t \in SetRecord /\ C \in Seq(BurstRecord)
           /\ (client <=> B[Len(B)].client) => t.stage = s.stage /\ Open(t, C) /\ Len(C) = Len(B)
           /\ ~(client <=> B[Len(B)].client) => Len(C) = Len(B) + 1
           /\ ~(client <=> B[Len(B)].client) /\ s.stage < 4 => t.stage = s.stage + 1 /\ Open(t, C)
           /\ ~(client <=> B[Len(B)].client) /\ s.stage = 4 =>
                \/ t.stage = 1 /\ Open(t, C)
                \/ t.stage = 5 /\ HoldsFrom(t, 4, Len(C) - 5, C)
<1> DEFINE m == NextStage(s.stage, client)
<1>0. s.stage \in 1..4 /\ Len(B) > 0 /\ Len(B) \in Nat /\ C \in Seq(BurstRecord)
      /\ (B[Len(B)].client <=> s.stage \in {1, 3})
  BY BurstFacts DEF Open
<1>b. B[Len(B)].client \in BOOLEAN
  <2>1. B[Len(B)] \in BurstRecord
    BY <1>0
  <2> QED BY <2>1, Zenon DEF BurstRecord
<1> HIDE DEF m
<1>1. CASE (client <=> B[Len(B)].client)
  <2>1. m = s.stage
    BY <1>0, <1>1, <1>b, Zenon DEF NextStage, m
  <2>2. t = Added(s, s.stage, bytes)
    BY <1>0, <2>1 DEF UpdatedSet, m
  <2>3. Open(t, C)
    BY <1>1, <2>2, SameBurst, Zenon
  <2>4. t \in SetRecord /\ t.stage = s.stage
    BY Zenon, <1>0, <2>2, AddedRecord
  <2>5. Len(C) = Len(B)
    BY <1>0, <1>1, BurstFacts
  <2> QED BY <1>0, <1>1, <2>3, <2>4, <2>5, Zenon
<1>2. CASE ~(client <=> B[Len(B)].client)
  <2>1. m = s.stage + 1
    BY <1>0, <1>2, <1>b, Zenon DEF NextStage, m
  <2>2. Len(C) = Len(B) + 1 /\ \A i \in 1..Len(B) : C[i] = B[i]
    BY <1>0, <1>2, BurstFacts
  <2>3. CASE s.stage < 4
    <3>1. t = Added(s, s.stage + 1, bytes)
      BY <1>0, <2>1, <2>3 DEF UpdatedSet, m
    <3>2. /\ s.stage + 1 \in 1..4 /\ (s.stage + 1) - 1 = s.stage /\ s.stage + 1 > 1 /\ s.stage + 1 # 1
          /\ client <=> s.stage + 1 \in {1, 3}
      BY <1>0, <1>2, <1>b, <2>3
    <3>3. /\ HoldsFrom(s, s.stage, Len(B) - s.stage, B)
          /\ \A i \in (s.stage + 1)..4 : s.bytes[i] = 0 /\ s.pkts[i] = 0
      BY Zenon DEF Open, HoldsFrom
    <3>4. Open(t, C)
      BY Zenon, <1>2, <3>1, <3>2, <3>3, NextBurst
    <3>5. t \in SetRecord /\ t.stage = s.stage + 1
      BY Zenon, <1>0, <3>1, <3>2, AddedRecord
    <3> QED BY <1>0, <1>2, <2>2, <2>3, <3>4, <3>5
  <2>4. CASE s.stage = 4
    <3>1. client
      BY <1>0, <1>2, <1>b, <2>4
    <3> DEFINE five == [s EXCEPT !.stage = 5]
    <3>2. t = IF check_set(five) THEN five ELSE Reused(bytes)
      BY <2>1, <2>4 DEF UpdatedSet, m
    <3>3. CASE check_set(five)
      <4>0. t = five
        BY <3>2, <3>3, Zenon
      <4>1. t.stage = 5 /\ t.bytes = s.bytes /\ t.pkts = s.pkts /\ t \in SetRecord
        BY Zenon, <4>0, EndedSet
      <4>2. HoldsFrom(s, 4, Len(B) - 4, B) /\ Len(C) - 5 = Len(B) - 4
        <5>1. HoldsFrom(s, s.stage, Len(B) - s.stage, B) /\ s.stage = 4
          BY Zenon, <1>0, <2>4 DEF Open
        <5>2. Len(C) - 5 = Len(B) - 4
          BY <1>0, <2>2
        <5> QED
          BY Zenon, <5>1, <5>2
      <4>3. Len(B) - 4 \in Nat /\ Len(C) = Len(B) + 1 /\ \A i \in 1..4 : C[Len(B) - 4 + i] = B[Len(B) - 4 + i]
        BY <1>0, <2>2, <4>2 DEF HoldsFrom
      <4>4. \A i \in 1..4 : t.bytes[i] = C[Len(B) - 4 + i].bytes /\ t.pkts[i] = C[Len(B) - 4 + i].pkts
        BY Zenon, <4>1, <4>2, <4>3 DEF HoldsFrom
      <4>5. C[Len(B) - 4 + 1].client
        BY <4>2, <4>3 DEF HoldsFrom
      <4>6. HoldsFrom(t, 4, Len(C) - 5, C)
        BY <1>0, <4>2, <4>3, <4>4, <4>5 DEF HoldsFrom
      <4> QED BY <1>0, <1>2, <2>2, <2>4, <4>1, <4>6
    <3>4. CASE ~check_set(five)
      <4>1. t = Added(NewSet, 1, bytes)
        BY <3>2, <3>4, Zenon DEF Reused
      <4>s. /\ NewSet \in SetRecord /\ 1 \in 1..4 /\ 1 \in {1, 3} /\ ~(1 > 1)
            /\ \A i \in 1..4 : NewSet.bytes[i] = 0 /\ NewSet.pkts[i] = 0
        BY NewSetFacts
      <4>2. Open(t, C)
        BY Zenon, <1>2, <3>1, <4>1, <4>s, NextBurst
      <4>3. t \in SetRecord /\ t.stage = 1
        <5>1. PICK z \in SetRecord, n \in 1..4 : n = 1 /\ t = Added(z, n, bytes)
          BY <4>1, <4>s, Zenon
        <5> QED BY Zenon, <5>1, AddedRecord
      <4> QED BY <1>0, <1>2, <2>2, <2>4, <4>2, <4>3
    <3> QED BY <3>3, <3>4, Zenon
  <2> QED BY <1>0, <2>3, <2>4
<1> QED BY <1>1, <1>2, Zenon

\* The first burst of a set that is opened, or opened again.
LEMMA FirstBurst ==
    ASSUME NEW B \in Seq(BurstRecord), NEW client \in BOOLEAN, NEW bytes \in Int,
           NEW z \in SetRecord, NEW n \in 1..4, n < 2, client <=> n \in {1, 3},
           \A i \in 1..4 : z.bytes[i] = 0 /\ z.pkts[i] = 0,
           ~(Len(B) > 0 /\ (B[Len(B)].client <=> client)),
           NEW C, C = Burst(B, client, bytes), NEW t, t = Added(z, n, bytes)
    PROVE  t \in SetRecord /\ t.stage = 1 /\ Open(t, C) /\ Len(C) = Len(B) + 1
<1>1. t \in SetRecord /\ t.stage = n
  BY AddedType, Zenon
<1>2. Open(t, C)
  BY NextBurst
<1>3. Len(C) = Len(B) + 1
  BY BurstFacts
<1> QED BY <1>1, <1>2, <1>3

\* A set used again for a first burst is one that had counted nothing.
LEMMA NewSetAdded ==
    ASSUME NEW bytes \in Int
    PROVE  \E z \in SetRecord, n \in 1..4 :
             /\ n < 2 /\ Added(NewSet, 1, bytes) = Added(z, n, bytes)
             /\ \A i \in 1..4 : z.bytes[i] = 0 /\ z.pkts[i] = 0
<1>1. NewSet \in SetRecord /\ 1 \in 1..4 /\ 1 < 2
  BY NewSetFacts
<1> QED BY <1>1, NewSetFacts, Zenon

\* The two sets x and y and the bursts B of the packets counted so far: as long as neither set
\* is complete, both are in the middle of the last burst, the second two bursts behind.
Bursting(x, y, B) ==
    /\ x \in SetRecord /\ y \in SetRecord /\ B \in Seq(BurstRecord)
    /\ (y.stage = 0) <=> (Len(B) < 3)
    /\ y.stage = 0 => y = NewSet
    /\ x.stage = 0 => x = NewSet /\ Len(B) < 3
    /\ y.stage = 0 /\ x.stage # 0 => Len(B) <= x.stage
    /\ x.stage \in 1..4 => Open(x, B)
    /\ x.stage = 5 => HoldsFrom(x, 4, Len(B) - 5, B)
    /\ x.stage # 5 /\ y.stage \in 1..4 => Open(y, B)
    /\ x.stage # 5 /\ y.stage = 5 => HoldsFrom(y, 4, Len(B) - 5, B)
    /\ x.stage \in 1..4 /\ y.stage \in 1..4 =>
         x.stage = y.stage + 2 \/ y.stage = x.stage + 2

\* What one packet does to a set in the middle of a burst.
Moved(s, t, same, B, C) ==
    /\ t \in SetRecord
    /\ same => t.stage = s.stage /\ Open(t, C) /\ Len(C) = Len(B)
    /\ ~same => Len(C) = Len(B) + 1
    /\ ~same /\ s.stage < 4 => t.stage = s.stage + 1 /\ Open(t, C)
    /\ ~same /\ s.stage = 4 => \/ t.stage = 1 /\ Open(t, C)
                               \/ t.stage = 5 /\ HoldsFrom(t, 4, Len(C) - 5, C)

\* The first set completes and matches: the second is left alone.
LEMMA FirstMatches ==
    ASSUME NEW x, NEW y, NEW B, Bursting(x, y, B), x.stage \in 1..4, NEW same,
           NEW C \in Seq(BurstRecord), NEW s, Moved(x, s, same, B, C), s.stage = 5
    PROVE  Bursting(s, y, C)
<1>1. ~same /\ x.stage = 4 /\ HoldsFrom(s, 4, Len(C) - 5, C) /\ Len(C) = Len(B) + 1 /\ s \in SetRecord
  BY DEF Moved
<1>2. Open(x, B) /\ Len(B) \in Nat /\ y \in SetRecord
  BY DEF Bursting
<1>3. Len(B) >= 4
  BY <1>1, <1>2 DEF Open, HoldsFrom
<1>4. y.stage # 0
  BY <1>2, <1>3 DEF Bursting
<1>5. ~(Len(C) < 3)
  BY <1>1, <1>2, <1>3
<1> QED BY <1>1, <1>2, <1>4, <1>5 DEF Bursting

\* The second set is not open yet; it opens with the third burst.
LEMMA SecondOpens ==
    ASSUME NEW x, NEW y, NEW B, Bursting(x, y, B), x.stage \in 1..4, y.stage = 0, NEW same,
           NEW C \in Seq(BurstRecord), NEW s, Moved(x, s, same, B, C)
    PROVE  /\ s.stage \in 1..3
           /\ s.stage # 3 => Bursting(s, y, C)
           /\ s.stage = 3 =>
                /\ ~same /\ x.stage = 2
                /\ \A t \in SetRecord : t.stage = 1 /\ Open(t, C) => Bursting(s, t, C)
<1>0. y = NewSet /\ y \in SetRecord
  BY Zenon DEF Bursting
<1>1. x.stage \in 1..2 /\ 1 <= Len(B) /\ Len(B) <= 2 /\ x.stage - Len(B) = 0
  <2>1. /\ x.stage \in Int /\ Len(B) \in Int /\ Len(B) <= x.stage /\ Len(B) < 3
        /\ Len(B) - x.stage \in Nat
    BY DEF Bursting, Open, HoldsFrom
  <2> QED BY <2>1
<1>2. /\ s \in SetRecord /\ Open(s, C) /\ s.stage \in 1..3 /\ 1 <= Len(C) /\ Len(C) <= 3 /\ s.stage - Len(C) = 0
      /\ s.stage = 3 => ~same /\ x.stage = 2
  <2>1. CASE same
    <3>1. s \in SetRecord /\ s.stage = x.stage /\ Open(s, C) /\ Len(C) = Len(B)
      BY <2>1, Zenon DEF Moved
    <3> QED BY <1>1, <3>1
  <2>2. CASE ~same
    <3>1. s \in SetRecord /\ s.stage = x.stage + 1 /\ Open(s, C) /\ Len(C) = Len(B) + 1
      BY <1>1, <2>2 DEF Moved
    <3> QED BY <1>1, <2>2, <3>1
  <2> QED BY <2>1, <2>2, Zenon
<1>3. ASSUME s.stage # 3 PROVE Bursting(s, y, C)
  <2>1. Len(C) < 3 /\ s.stage # 0 /\ s.stage \in 1..4 /\ s.stage # 5 /\ Len(C) <= s.stage
    BY <1>2, <1>3
  <2> QED BY <1>0, <1>2, <2>1 DEF Bursting
<1>4. ASSUME s.stage = 3, NEW t \in SetRecord, t.stage = 1, Open(t, C)
      PROVE  Bursting(s, t, C)
  <2>0. Len(C) = 3
    BY <1>2, <1>4
  <2>1. s.stage \in 1..4 /\ s.stage # 0 /\ s.stage # 5 /\ t.stage \in 1..4
        /\ s.stage = t.stage + 2 /\ t.stage # 0 /\ t.stage # 5
    BY <1>4
  <2> QED BY <1>2, <1>4, <2>0, <2>1 DEF Bursting
<1> QED BY <1>2, <1>3, <1>4, Zenon

\* Both sets are open and move together.
LEMMA BothMove ==
    ASSUME NEW x, NEW y, NEW B, Bursting(x, y, B), x.stage \in 1..4, y.stage \in 1..4, NEW same,
           NEW C \in Seq(BurstRecord), NEW s, Moved(x, s, same, B, C), s.stage # 5,
           NEW t, Moved(y, t, same, B, C)
    PROVE  s.stage \in 1..4 /\ Bursting(s, t, C)
<1>1. /\ x.stage = y.stage + 2 \/ y.stage = x.stage + 2
      /\ Len(B) \in Nat /\ ~(Len(B) < 3)
  BY DEF Bursting
<1>2. /\ s \in SetRecord /\ t \in SetRecord /\ s.stage \in 1..4 /\ t.stage \in 1..5
      /\ Open(s, C) /\ ~(Len(C) < 3)
  BY <1>1 DEF Moved
<1>3. /\ t.stage # 5 => Open(t, C) /\ (s.stage = t.stage + 2 \/ t.stage = s.stage + 2)
      /\ t.stage = 5 => HoldsFrom(t, 4, Len(C) - 5, C)
  BY <1>1 DEF Moved
<1> QED BY <1>2, <1>3 DEF Bursting

\* What one packet does to a set in the middle of a burst.
LEMMA MovedSet ==
    ASSUME NEW s \in SetRecord, NEW B \in Seq(BurstRecord), NEW client \in BOOLEAN,
           NEW bytes \in Int, Open(s, B),
           NEW C, C = Burst(B, client, bytes), NEW t, t = UpdatedSet(s, client, bytes)
    PROVE  C \in Seq(BurstRecord) /\ Moved(s, t, client <=> B[Len(B)].client, B, C)
BY SetStep DEF Moved

\* The loop over the two sets keeps them on the last bursts.
LEMMA SetsStep ==
    ASSUME NEW S, NEW x, NEW y, NEW B, NEW C, NEW r, NEW client \in BOOLEAN, NEW bytes \in Int
    PROVE  /\ x = S[1] /\ y = S[2] /\ Bursting(x, y, B) /\ x.stage # 5 /\ y.stage # 5
           /\ x.stage = 0 => Len(B) = 0
           /\ C = Burst(B, client, bytes)
           /\ r = tls_obfuscated_sets(S, client, bytes)
           =>
           /\ Bursting(r.sets[1], r.sets[2], C)
           /\ r.rc = "continue" => r.sets[1].stage \in 1..4 /\ r.sets[2].stage # 5
<1>h. SUFFICES ASSUME x = S[1], y = S[2], Bursting(x, y, B), x.stage # 5, y.stage # 5,
                      x.stage = 0 => Len(B) = 0, C = Burst(B, client, bytes),
                      r = tls_obfuscated_sets(S, client, bytes)
               PROVE  /\ Bursting(r.sets[1], r.sets[2], C)
                      /\ r.rc = "continue" => r.sets[1].stage \in 1..4 /\ r.sets[2].stage # 5
  BY Zenon
<1>b. Bursting(x, y, B)
  BY <1>h, Zenon
<1>C. C = Burst(B, client, bytes)
  BY <1>h, Zenon
<1> DEFINE s == UpdatedSet(x, client, bytes)
           t == UpdatedSet(y, client, bytes)
           same == client <=> B[Len(B)].client
<1>0. /\ x \in SetRecord /\ y \in SetRecord /\ B \in Seq(BurstRecord)
      /\ x.stage \in 0..4 /\ y.stage \in 0..4
  <2>1. x \in SetRecord /\ y \in SetRecord /\ B \in Seq(BurstRecord)
    BY <1>b, Zenon DEF Bursting
  <2>2. x.stage \in 0..5 /\ y.stage \in 0..5
    BY <2>1, Zenon DEF SetRecord
  <2> QED BY <1>h, <2>1, <2>2
<1>c. C \in Seq(BurstRecord)
  BY <1>0, <1>C, BurstFacts, Zenon
<1>s. s = UpdatedSet(x, client, bytes) /\ t = UpdatedSet(y, client, bytes)
  BY Zenon
<1> HIDE DEF s, t, same
<1>r. r = IF x.stage = 0 /\ ~client THEN [rc |-> "exclude", sets |-> S]
          ELSE IF s.stage = 5 THEN [rc |-> "found", sets |-> <<s, y>>]
          ELSE IF y.stage = 0
            THEN [rc |-> "continue",
                  sets |-> <<s, IF s.stage = 3 THEN Added(y, 1, bytes) ELSE y>>]
            ELSE [rc |-> IF t.stage = 5 THEN "found" ELSE "continue", sets |-> <<s, t>>]
  BY <1>h, <1>s, Zenon DEF tls_obfuscated_sets
<1>1. CASE x.stage = 0 /\ ~client
  <2>1. r.rc = "exclude" /\ r.sets[1] = x /\ r.sets[2] = y
    BY <1>h, <1>1, <1>r
  <2>2. Len(B) = 0 /\ y.stage = 0
    BY <1>h, <1>1, Zenon DEF Bursting
  <2>3. Len(C) = 1
    <3>1. ~(Len(B) > 0 /\ (B[Len(B)].client <=> client))
      BY <2>2
    <3>2. Len(C) = Len(B) + 1
      BY <1>0, <1>C, <3>1, BurstFacts
    <3> QED BY <2>2, <3>2
  <2>4. Bursting(x, y, C)
    BY <1>b, <1>0, <1>c, <1>1, <2>2, <2>3 DEF Bursting
  <2> QED BY <2>1, <2>4, Zenon
<1>2. CASE x.stage = 0 /\ client
  <2>1. Len(B) = 0 /\ y.stage = 0
    BY <1>h, <1>2, Zenon DEF Bursting
  <2>2. s.stage = 1 /\ Bursting(s, y, C)
    <3>0. x = NewSet /\ y = NewSet
      BY <1>b, <1>2, <2>1, Zenon DEF Bursting
    <3>1. NextStage(x.stage, client) = 1
      BY <1>2 DEF NextStage
    <3>2. s = Added(NewSet, 1, bytes)
      BY <1>s, <3>0, <3>1 DEF UpdatedSet
    <3>3. PICK z \in SetRecord, n \in 1..4 :
            /\ n < 2 /\ s = Added(z, n, bytes) /\ \A i \in 1..4 : z.bytes[i] = 0 /\ z.pkts[i] = 0
      BY <3>2, NewSetAdded, Zenon
    <3>4. n = 1 /\ (client <=> n \in {1, 3}) /\ ~(Len(B) > 0 /\ (B[Len(B)].client <=> client))
      BY <1>2, <2>1, <3>3
    <3>5. s \in SetRecord /\ s.stage = 1 /\ Open(s, C) /\ Len(C) = Len(B) + 1
      <4>1. n < 2 /\ s = Added(z, n, bytes) /\ B \in Seq(BurstRecord)
        BY <1>0, <3>3, Zenon
      <4>2. \A i \in 1..4 : z.bytes[i] = 0 /\ z.pkts[i] = 0
        BY <3>3, Zenon
      <4>3. (client <=> n \in {1, 3}) /\ ~(Len(B) > 0 /\ (B[Len(B)].client <=> client))
        BY <3>4, Zenon
      <4> QED BY <4>1, <4>2, <4>3, <1>C, FirstBurst
    <3>6. Len(C) = 1
      BY <2>1, <3>5
    <3>7. Bursting(s, y, C)
      BY <1>0, <1>c, <2>1, <3>0, <3>5, <3>6 DEF Bursting
    <3> QED BY <3>5, <3>7, Zenon
  <2>3. r.rc = "continue" /\ r.sets = <<s, y>>
    <3>1. r = [rc |-> "continue", sets |-> <<s, IF s.stage = 3 THEN Added(y, 1, bytes) ELSE y>>]
      BY <1>2, <1>r, <2>1, <2>2
    <3> QED BY <2>2, <3>1
  <2>4. r.sets[1] = s /\ r.sets[2] = y
    BY <2>3
  <2> QED BY <2>1, <2>2, <2>4
<1>3. CASE x.stage # 0
  <2>0. Open(x, B) /\ x.stage \in 1..4
    BY <1>b, <1>0, <1>3 DEF Bursting
  <2>1. Moved(x, s, same, B, C)
    BY <1>0, <1>s, <2>0, <1>C, MovedSet, Zenon DEF same
  <2>2. CASE s.stage = 5
    <3>1. r.rc = "found" /\ r.sets = <<s, y>>
      BY <1>3, <1>r, <2>2, Zenon
    <3>2. r.sets[1] = s /\ r.sets[2] = y
      BY <3>1
    <3>3. Bursting(s, y, C)
      BY <1>c, <2>0, <2>1, <2>2, <1>b, FirstMatches, Zenon
    <3> QED BY <3>1, <3>2, <3>3, Zenon
  <2>3. CASE s.stage # 5 /\ y.stage = 0
    <3>1. /\ s.stage \in 1..3
          /\ s.stage # 3 => Bursting(s, y, C)
          /\ s.stage = 3 =>
               /\ ~same /\ x.stage = 2
               /\ \A u \in SetRecord : u.stage = 1 /\ Open(u, C) => Bursting(s, u, C)
      BY Zenon, <1>c, <2>0, <2>1, <2>3, <1>b, SecondOpens
    <3>2. CASE s.stage # 3
      <4>1. r.rc = "continue" /\ r.sets = <<s, y>>
        BY <1>3, <1>r, <2>3, <3>2, Zenon
      <4>2. r.sets[1] = s /\ r.sets[2] = y
        BY <4>1
      <4> QED BY <2>3, <3>1, <3>2, <4>2
    <3>3. CASE s.stage = 3
      <4> DEFINE v == Added(y, 1, bytes)
      <4>1. r.rc = "continue" /\ r.sets = <<s, v>>
        BY <1>3, <1>r, <2>3, <3>3, Zenon
      <4>2. r.sets[1] = s /\ r.sets[2] = v
        BY <4>1
      <4>3. y = NewSet
        BY <1>b, <2>3, Zenon DEF Bursting
      <4>4. v = Added(NewSet, 1, bytes)
        BY <4>3, Zenon
      <4> HIDE DEF v
      <4>5. PICK z \in SetRecord, n \in 1..4 :
              /\ n < 2 /\ v = Added(z, n, bytes) /\ \A i \in 1..4 : z.bytes[i] = 0 /\ z.pkts[i] = 0
        BY <4>4, NewSetAdded, Zenon
      <4>6. ~(B[Len(B)].client <=> client) /\ x.stage = 2
        BY <3>1, <3>3, Zenon DEF same
      <4>7. client <=> n \in {1, 3}
        BY <2>0, <4>5, <4>6 DEF Open
      <4>8. v \in SetRecord /\ v.stage = 1 /\ Open(v, C)
        BY <1>0, <4>5, <4>6, <4>7, <1>C, FirstBurst
      <4> QED BY <3>1, <3>3, <4>2, <4>8
    <3> QED BY <3>2, <3>3, Zenon
  <2>4. CASE s.stage # 5 /\ y.stage # 0
    <3>1. r.sets = <<s, t>> /\ (r.rc = "continue" => t.stage # 5)
      BY <1>3, <1>r, <2>4, Zenon
    <3>2. r.sets[1] = s /\ r.sets[2] = t
      BY <3>1
    <3>3. Open(y, B) /\ y.stage \in 1..4
      BY <1>b, <1>h, <1>0, <2>4 DEF Bursting
    <3>4. Moved(y, t, same, B, C)
      BY <1>0, <1>s, <3>3, <1>C, MovedSet, Zenon DEF same
    <3>5. s.stage \in 1..4 /\ Bursting(s, t, C)
      BY <1>c, <2>0, <2>1, <2>4, <3>3, <3>4, <1>b, BothMove, Zenon
    <3> QED BY <3>1, <3>2, <3>5, Zenon
  <2> QED BY <2>2, <2>3, <2>4, Zenon
<1> QED BY <1>1, <1>2, <1>3, Zenon

ObfStack == {"Unknown", "TLS", "HTTP"}
ObfConf == {"dpi", "aggressive"}
ObfRisk == {"none", "plain", "in_tls", "in_http"}

ObfRecord ==
    [sets : [1..2 -> SetRecord], num_pkts : Nat, active : BOOLEAN, stack : ObfStack,
     in_tls : BOOLEAN, cipher_client : BOOLEAN, cipher_server : BOOLEAN, max_extra : Nat,
     checked : Nat, conf : ObfConf, risk : ObfRisk, counted : Nat, bursts : Seq(BurstRecord)]

\* The state t after a packet that did not reach the sets.
Untouched(t, u) == u.sets = t.sets /\ u.bursts = t.bursts /\ u.active = t.active

\* The answer r to a packet p that reached the sets.
Stepped(t, p, bytes, r) ==
    LET q == tls_obfuscated_sets(t.sets, p.client, bytes)
    IN /\ r.rc = q.rc /\ r.t.sets = q.sets
       /\ r.t.bursts = Burst(t.bursts, p.client, bytes)
       /\ r.t.active = t.active
       /\ q.sets \in [1..2 -> SetRecord] /\ r.t.bursts \in Seq(BurstRecord) => r.t \in ObfRecord

\* tls_obfuscated_heur_search() leaves the sets alone, or moves both by one packet.
LEMMA SearchFacts ==
    ASSUME NEW t, NEW p, NEW r
    PROVE  t \in ObfRecord /\ p \in ObfPacket /\ r = tls_obfuscated_heur_search(t, p) =>
             \/ /\ r.t \in ObfRecord /\ Untouched(t, r.t)
             \/ \E bytes \in Int : Stepped(t, p, bytes, r)
<1>h. SUFFICES ASSUME t \in ObfRecord, p \in ObfPacket, r = tls_obfuscated_heur_search(t, p)
               PROVE  \/ /\ r.t \in ObfRecord /\ Untouched(t, r.t)
                      \/ \E bytes \in Int : Stepped(t, p, bytes, r)
  BY Zenon
<1>t. t \in ObfRecord /\ p \in ObfPacket
  BY <1>h, Zenon
<1> DEFINE overhead == IF t.in_tls THEN ObfOverhead ELSE 0
           size == p.len - overhead
           counted == [t EXCEPT !.num_pkts = (@ + 1) % ObfRange]
           q == tls_obfuscated_sets(t.sets, p.client, size)
           last == [counted EXCEPT !.sets = q.sets, !.counted = @ + 1,
                                   !.bursts = Burst(@, p.client, size)]
<1>r. r = IF p.len = 0 THEN [rc |-> "continue", t |-> t]
          ELSE IF p.len < overhead THEN [rc |-> "exclude", t |-> t]
          ELSE IF BeforeCipher(t, p) THEN [rc |-> "continue", t |-> CipherSeen(t, p)]
          ELSE IF TooMany(t) THEN [rc |-> "exclude", t |-> counted]
          ELSE [rc |-> q.rc, t |-> last]
  BY <1>h, Zenon DEF tls_obfuscated_heur_search
<1>1. size \in Int
  <2>1. overhead \in Nat
    BY ObfAssumption, Zenon
  <2>2. p.len \in Nat
    <3>1. p.len \in ObfSize
      BY <1>t, Zenon DEF ObfPacket
    <3> QED BY Zenon, <3>1, ObfAssumption
  <2> HIDE DEF overhead
  <2> QED BY <2>1, <2>2
<1>2. counted \in ObfRecord /\ Untouched(t, counted) /\ counted.counted = t.counted
  <2>1. t.num_pkts \in Nat
    BY <1>t, Zenon DEF ObfRecord
  <2>2. (t.num_pkts + 1) % ObfRange \in Nat
    BY <2>1, ObfAssumption
  <2> QED BY Zenon, <1>t, <2>2 DEF ObfRecord, Untouched
<1>3. CipherSeen(t, p) \in ObfRecord /\ Untouched(t, CipherSeen(t, p))
  BY Zenon, <1>t DEF ObfRecord, Untouched, CipherSeen
<1>4. /\ last.sets = q.sets /\ last.bursts = Burst(t.bursts, p.client, size)
      /\ last.active = t.active
  BY <1>2, Zenon DEF ObfRecord, Untouched
<1>5. q.sets \in [1..2 -> SetRecord] /\ Burst(t.bursts, p.client, size) \in Seq(BurstRecord)
        => last \in ObfRecord
  <2>1. ASSUME NEW A \in [1..2 -> SetRecord], NEW D \in Seq(BurstRecord)
        PROVE  [counted EXCEPT !.sets = A, !.counted = @ + 1, !.bursts = D] \in ObfRecord
    <3> DEFINE u == [counted EXCEPT !.sets = A]
               v == [u EXCEPT !.counted = counted.counted + 1]
    <3> HIDE DEF counted
    <3>1. u \in ObfRecord
      BY Zenon, <1>2 DEF ObfRecord
    <3>2. counted.counted + 1 \in Nat
      BY <1>2 DEF ObfRecord
    <3> HIDE DEF u
    <3>3. v \in ObfRecord
      BY <3>1, <3>2, Zenon DEF ObfRecord
    <3> HIDE DEF v
    <3>4. [v EXCEPT !.bursts = D] \in ObfRecord
      BY Zenon, <3>3 DEF ObfRecord
    <3> QED BY <3>4, Zenon DEF u, v
  <2>2. counted.bursts = t.bursts
    BY <1>2, Zenon DEF Untouched
  <2> HIDE DEF counted, q, size
  <2> QED BY Zenon, <2>1, <2>2
<1> HIDE DEF size, counted, q, last, overhead
<1>6. CASE r = [rc |-> q.rc, t |-> last]
  BY <1>1, <1>4, <1>5, <1>6, Zenon DEF q, Stepped
<1>7. CASE r.t = t
  BY <1>t, <1>7, Zenon DEF Untouched
<1>8. CASE r.t = counted
  BY <1>2, <1>8, Zenon
<1>9. CASE r.t = CipherSeen(t, p)
  BY <1>3, <1>9, Zenon
<1>10. r = [rc |-> q.rc, t |-> last] \/ r.t = t \/ r.t = counted \/ r.t = CipherSeen(t, p)
  BY <1>r, Zenon
<1> QED BY <1>6, <1>7, <1>8, <1>9, <1>10, Zenon

\* The same loop, for the pair of sets kept in the flow.
LEMMA SetsStepOf ==
    ASSUME NEW S, NEW B, NEW client \in BOOLEAN, NEW bytes \in Int,
           Bursting(S[1], S[2], B), S[1].stage # 5, S[2].stage # 5, S[1].stage = 0 => Len(B) = 0,
           NEW q, q = tls_obfuscated_sets(S, client, bytes), NEW C, C = Burst(B, client, bytes)
    PROVE  /\ Bursting(q.sets[1], q.sets[2], C)
           /\ q.rc = "continue" => q.sets[1].stage \in 1..4 /\ q.sets[2].stage # 5
<1>1. ASSUME NEW x, NEW y, x = S[1], y = S[2]
      PROVE  /\ Bursting(q.sets[1], q.sets[2], C)
             /\ q.rc = "continue" => q.sets[1].stage \in 1..4 /\ q.sets[2].stage # 5
  <2>1. /\ x = S[1] /\ y = S[2] /\ Bursting(x, y, B) /\ x.stage # 5 /\ y.stage # 5
        /\ x.stage = 0 => Len(B) = 0
        /\ C = Burst(B, client, bytes)
        /\ q = tls_obfuscated_sets(S, client, bytes)
    BY <1>1, Zenon
  <2> QED BY <2>1, SetsStep, Zenon
<1> QED BY <1>1, Zenon

\* The loop leaves a pair of sets.
LEMMA SetsPair ==
    ASSUME NEW S \in [1..2 -> SetRecord], NEW client, NEW bytes, NEW r,
           r = tls_obfuscated_sets(S, client, bytes),
           r.sets[1] \in SetRecord, r.sets[2] \in SetRecord
    PROVE  r.sets \in [1..2 -> SetRecord]
<1>1. r.sets = S \/ \E a, b : r.sets = <<a, b>>
  BY Zenon DEF tls_obfuscated_sets
<1>2. CASE \E a, b : r.sets = <<a, b>>
  <2>1. PICK a, b : r.sets = <<a, b>>
    BY <1>2, Zenon
  <2>2. a \in SetRecord /\ b \in SetRecord
    BY <2>1
  <2> QED BY <2>1, <2>2
<1> QED BY <1>1, <1>2, Zenon

\* The inductive invariant of the search, of one state t.
ObfState(t) ==
    /\ t \in ObfRecord
    /\ Bursting(t.sets[1], t.sets[2], t.bursts)
    /\ t.active => /\ t.sets[1].stage # 5 /\ t.sets[2].stage # 5
                   /\ t.sets[1].stage = 0 => Len(t.bursts) = 0

\* A search that goes on keeps the invariant; one that ends leaves the sets on the last bursts.
LEMMA SearchKeepsState ==
    ASSUME NEW t, NEW p, NEW r
    PROVE  ObfState(t) /\ t.active /\ p \in ObfPacket /\ r = tls_obfuscated_heur_search(t, p) =>
             /\ r.t \in ObfRecord
             /\ Bursting(r.t.sets[1], r.t.sets[2], r.t.bursts)
             /\ r.rc = "continue" => ObfState(r.t)
<1>h. SUFFICES ASSUME ObfState(t), t.active, p \in ObfPacket, r = tls_obfuscated_heur_search(t, p)
               PROVE  /\ r.t \in ObfRecord
                      /\ Bursting(r.t.sets[1], r.t.sets[2], r.t.bursts)
                      /\ r.rc = "continue" => ObfState(r.t)
  BY Zenon
<1>t. t \in ObfRecord /\ p \in ObfPacket
  BY <1>h, Zenon DEF ObfState
<1>1. CASE r.t \in ObfRecord /\ Untouched(t, r.t)
  <2>1. ObfState(r.t)
    BY <1>h, <1>1, Zenon DEF ObfState, Untouched
  <2> QED BY <2>1, Zenon DEF ObfState
<1>2. CASE \E bytes \in Int : Stepped(t, p, bytes, r)
  <2>1. PICK bytes \in Int : Stepped(t, p, bytes, r)
    BY <1>2, Zenon
  <2> DEFINE q == tls_obfuscated_sets(t.sets, p.client, bytes)
             C == Burst(t.bursts, p.client, bytes)
  <2>2. p.client \in BOOLEAN
    BY <1>t, Zenon DEF ObfPacket
  <2>3. /\ Bursting(q.sets[1], q.sets[2], C)
        /\ q.rc = "continue" => q.sets[1].stage \in 1..4 /\ q.sets[2].stage # 5
    <3>1. /\ Bursting(t.sets[1], t.sets[2], t.bursts) /\ t.sets[1].stage # 5 /\ t.sets[2].stage # 5
          /\ t.sets[1].stage = 0 => Len(t.bursts) = 0
      BY <1>h, Zenon DEF ObfState
    <3> QED BY <2>2, <3>1, SetsStepOf, Zenon
  <2>4. q.sets \in [1..2 -> SetRecord] /\ C \in Seq(BurstRecord)
    <3>1. q.sets[1] \in SetRecord /\ q.sets[2] \in SetRecord /\ C \in Seq(BurstRecord)
      BY Zenon, <2>3 DEF Bursting
    <3>2. t.sets \in [1..2 -> SetRecord]
      BY <1>t, Zenon DEF ObfRecord
    <3> QED BY <3>1, <3>2, SetsPair, Zenon
  <2>5. r.rc = q.rc /\ r.t.sets = q.sets /\ r.t.bursts = C /\ r.t \in ObfRecord
    BY <2>1, <2>4, Zenon DEF Stepped
  <2> HIDE DEF q, C
  <2> QED BY <2>3, <2>5 DEF ObfState
<1>3. r = tls_obfuscated_heur_search(t, p)
  BY <1>h, Zenon
<1> QED BY <1>t, <1>1, <1>2, <1>3, SearchFacts, Zenon

\* A search that has ended asks nothing more of its sets.
LEMMA EndedState ==
    ASSUME NEW t \in ObfRecord, Bursting(t.sets[1], t.sets[2], t.bursts), NEW u,
           u \in ObfRecord, u.sets = t.sets, u.bursts = t.bursts, u.active = FALSE
    PROVE  ObfState(u)
BY Zenon DEF ObfState

\* tls_obfuscated_heur_search_again(), whichever way the search ends, keeps the invariant.
LEMMA AgainKeepsState ==
    ASSUME NEW t, NEW p, NEW u
    PROVE  ObfState(t) /\ t.active /\ p \in ObfPacket /\ u = tls_obfuscated_heur_search_again(t, p) =>
             ObfState(u)
<1>h. SUFFICES ASSUME ObfState(t), t.active, p \in ObfPacket, u = tls_obfuscated_heur_search_again(t, p)
               PROVE  ObfState(u)
  BY Zenon
<1> DEFINE r == tls_obfuscated_heur_search(t, p)
           v == r.t
<1>1. /\ v \in ObfRecord /\ Bursting(v.sets[1], v.sets[2], v.bursts)
      /\ r.rc = "continue" => ObfState(v)
  BY <1>h, SearchKeepsState, Zenon
<1> DEFINE risk == IF t.stack = "Unknown" THEN "plain" ELSE IF t.in_tls THEN "in_tls" ELSE "in_http"
           stack == IF t.stack = "Unknown" THEN "TLS" ELSE t.stack
           conf == "aggressive"
<1>2. u = IF r.rc = "continue" THEN v
          ELSE IF r.rc = "exclude" THEN [v EXCEPT !.active = FALSE]
          ELSE [v EXCEPT !.active = FALSE, !.conf = conf, !.risk = risk, !.stack = stack]
  BY <1>h, Zenon DEF tls_obfuscated_heur_search_again
<1>3. stack \in ObfStack /\ risk \in ObfRisk /\ conf \in ObfConf
  <2>1. t.stack \in ObfStack
    BY <1>h, Zenon DEF ObfState, ObfRecord
  <2>2. stack \in ObfStack
    BY <2>1, Zenon DEF ObfStack
  <2>3. risk \in ObfRisk
    BY Zenon DEF ObfRisk
  <2>4. conf \in ObfConf
    BY Zenon DEF ObfConf
  <2> QED BY <2>2, <2>3, <2>4, Zenon
<1> HIDE DEF r, v, risk, stack, conf
<1>4. CASE r.rc = "continue"
  BY <1>1, <1>2, <1>4, Zenon
<1>5. CASE u = [v EXCEPT !.active = FALSE]
  <2>1. u \in ObfRecord /\ u.sets = v.sets /\ u.bursts = v.bursts /\ u.active = FALSE
    BY Zenon, <1>1, <1>5 DEF ObfRecord
  <2> QED BY Zenon, <1>1, <2>1, EndedState
<1>6. CASE u = [v EXCEPT !.active = FALSE, !.conf = conf, !.risk = risk, !.stack = stack]
  <2> DEFINE a == [v EXCEPT !.active = FALSE]
             b == [a EXCEPT !.conf = conf]
             c == [b EXCEPT !.risk = risk]
             d == [c EXCEPT !.stack = stack]
  <2>0. u = d
    BY <1>6, Zenon
  <2>1. a \in ObfRecord /\ a.sets = v.sets /\ a.bursts = v.bursts /\ a.active = FALSE
    BY Zenon, <1>1 DEF ObfRecord
  <2> HIDE DEF a
  <2>2. b \in ObfRecord /\ b.sets = v.sets /\ b.bursts = v.bursts /\ b.active = FALSE
    BY <1>3, <2>1, Zenon DEF ObfRecord
  <2> HIDE DEF b
  <2>3. c \in ObfRecord /\ c.sets = v.sets /\ c.bursts = v.bursts /\ c.active = FALSE
    BY <1>3, <2>2, Zenon DEF ObfRecord
  <2> HIDE DEF c
  <2>4. d \in ObfRecord /\ d.sets = v.sets /\ d.bursts = v.bursts /\ d.active = FALSE
    BY <1>3, <2>3, Zenon DEF ObfRecord
  <2> HIDE DEF d
  <2> QED BY Zenon, <1>1, <2>0, <2>4, EndedState
<1> QED BY <1>2, <1>4, <1>5, <1>6, Zenon

\* So does the counter of the extra packets, which may end the search.
LEMMA CountedKeepsState ==
    ASSUME NEW t, NEW u
    PROVE  ObfState(t) /\ u = ObfCounted(t) => ObfState(u)
<1>h. SUFFICES ASSUME ObfState(t), u = ObfCounted(t) PROVE ObfState(u)
  BY Zenon
<1>1. CASE u = t
  BY <1>h, <1>1, Zenon
<1>2. CASE t.active /\ u # t
  <2> DEFINE n == (t.checked + 1) % ObfRange
             m == n # t.max_extra
             a == [t EXCEPT !.checked = n]
             b == [a EXCEPT !.active = m]
  <2>1. u = b
    BY <1>h, <1>2, Zenon DEF ObfCounted
  <2>2. t.checked \in Nat /\ t \in ObfRecord
    BY <1>h, Zenon DEF ObfState, ObfRecord
  <2>3. n \in Nat
    BY <2>2, ObfAssumption
  <2>4. m \in BOOLEAN
    BY Zenon
  <2> HIDE DEF n, m
  <2>5. a \in ObfRecord /\ a.sets = t.sets /\ a.bursts = t.bursts
    BY Zenon, <2>2, <2>3 DEF ObfRecord
  <2> HIDE DEF a
  <2>6. b \in ObfRecord /\ b.sets = t.sets /\ b.bursts = t.bursts
    BY <2>4, <2>5, Zenon DEF ObfRecord
  <2> HIDE DEF b
  <2> QED BY <1>h, <1>2, <2>1, <2>6, Zenon DEF ObfState
<1> QED BY <1>h, <1>1, <1>2, Zenon DEF ObfCounted

\* Every packet keeps the invariant.
LEMMA ObfStep_State ==
    ASSUME ObfState(o), [ObfNext]_o
    PROVE  ObfState(o')
<1>1. CASE UNCHANGED o
  BY <1>1, Zenon
<1>2. ASSUME NEW p \in ObfPacket, ObfStep(p) PROVE ObfState(o')
  <2> DEFINE u == tls_obfuscated_heur_search_again(o, p)
  <2>1. ObfState(u)
    BY <1>2, AgainKeepsState, Zenon DEF ObfStep
  <2>2. o' = u \/ o' = ObfCounted(u)
    BY <1>2, Zenon DEF ObfStep
  <2> HIDE DEF u
  <2> QED BY <2>1, <2>2, CountedKeepsState, Zenon
<1> QED BY <1>1, <1>2, Zenon DEF ObfNext

\* A set of which every burst is counted, or none.
LEMMA HoldsFromHolds ==
    ASSUME NEW s, NEW n, NEW B, NEW from
    PROVE  /\ n \in 1..4 /\ HoldsFrom(s, n, from, B)
           /\ from = Len(B) - (IF s.stage = 5 THEN 1 ELSE 0) - n
           => Holds(s, n, B)
<1>h. SUFFICES ASSUME n \in 1..4, HoldsFrom(s, n, from, B),
                      from = Len(B) - (IF s.stage = 5 THEN 1 ELSE 0) - n
               PROVE  Holds(s, n, B)
  BY Zenon
<1>1. from >= 0 /\ B[from + 1].client
  BY <1>h DEF HoldsFrom
<1>2. \A i \in 1..4 :
        IF i <= n THEN s.bytes[i] = B[from + i].bytes /\ s.pkts[i] = B[from + i].pkts
        ELSE s.bytes[i] = 0 /\ s.pkts[i] = 0
  <2> SUFFICES ASSUME NEW i \in 1..4
               PROVE  IF i <= n
                      THEN s.bytes[i] = B[from + i].bytes /\ s.pkts[i] = B[from + i].pkts
                      ELSE s.bytes[i] = 0 /\ s.pkts[i] = 0
    BY Zenon
  <2>1. /\ \A j \in 1..n : s.bytes[j] = B[from + j].bytes /\ s.pkts[j] = B[from + j].pkts
        /\ \A j \in (n + 1)..4 : s.bytes[j] = 0 /\ s.pkts[j] = 0
    BY Zenon, <1>h DEF HoldsFrom
  <2>2. IF i <= n THEN i \in 1..n ELSE i \in (n + 1)..4
    BY <1>h
  <2> QED
    BY Zenon, <2>1, <2>2
<1> QED BY <1>h, <1>1, <1>2, Zenon DEF Holds

\* switch_to_obfuscated() starts with two new sets.
LEMMA ObfInit_State ==
    ASSUME ObfInit
    PROVE  ObfState(o)
<1>1. PICK stack \in ObfStack, client \in BOOLEAN, server \in BOOLEAN :
        o = switch_to_obfuscated(stack, client, server)
  BY Zenon DEF ObfInit, ObfStack
<1> DEFINE max == IF stack = "Unknown" THEN 0 ELSE (ObfMaxPackets * 2) % ObfRange
           tls == stack = "TLS"
           sets == <<NewSet, NewSet>>
<1>2. max \in Nat /\ tls \in BOOLEAN
  BY ObfAssumption
<1>3. sets \in [1..2 -> SetRecord] /\ sets[1] = NewSet /\ sets[2] = NewSet
  BY NewSetFacts
<1>4. o = [sets |-> sets, num_pkts |-> 0, active |-> TRUE, stack |-> stack,
           in_tls |-> tls, cipher_client |-> client, cipher_server |-> server,
           max_extra |-> max, checked |-> 0, conf |-> "dpi", risk |-> "none",
           counted |-> 0, bursts |-> << >>]
  BY <1>1, Zenon DEF switch_to_obfuscated
<1> HIDE DEF max, tls, sets
<1>5. o \in ObfRecord
  BY <1>2, <1>3, <1>4 DEF ObfRecord, ObfConf, ObfRisk
<1>6. o.sets[1] = NewSet /\ o.sets[2] = NewSet /\ o.bursts = << >>
  BY <1>3, <1>4, Zenon
<1>7. Bursting(o.sets[1], o.sets[2], o.bursts)
  BY <1>6, NewSetFacts DEF Bursting
<1> QED BY <1>5, <1>6, <1>7, NewSetFacts DEF ObfState

\* The invariant says what the property does.
LEMMA ObfState_Sets ==
    ASSUME ObfState(o)
    PROVE  SetsAreLastBursts
<1> DEFINE x == o.sets[1]
           y == o.sets[2]
           B == o.bursts
<1>1. Bursting(x, y, B)
  BY Zenon DEF ObfState
<1>2. x \in SetRecord /\ y \in SetRecord /\ Len(B) \in Nat
  BY <1>1 DEF Bursting
<1>3. x.stage \in 0..5 /\ y.stage \in 0..5
  BY <1>2, Zenon DEF SetRecord
<1>4. ASSUME NEW s, s.stage \in 1..4, Open(s, B)
      PROVE  Holds(s, s.stage, B)
  <2>1. HoldsFrom(s, s.stage, Len(B) - s.stage, B)
    BY <1>4, Zenon DEF Open
  <2>a. (IF s.stage = 5 THEN 1 ELSE 0) = 0 /\ s.stage \in Int /\ Len(B) \in Int
    BY <1>2, <1>4
  <2>b. \A a, b \in Int : a - b = a - 0 - b
    OBVIOUS
  <2>2. Len(B) - s.stage = Len(B) - (IF s.stage = 5 THEN 1 ELSE 0) - s.stage
    BY <2>a, <2>b, Zenon
  <2> QED BY <1>4, <2>1, <2>2, HoldsFromHolds, Zenon
<1>5. ASSUME NEW s, s.stage = 5, HoldsFrom(s, 4, Len(B) - 5, B)
      PROVE  Holds(s, 4, B)
  <2>2. Len(B) - 5 = Len(B) - (IF s.stage = 5 THEN 1 ELSE 0) - 4
    BY <1>2, <1>5
  <2>3. 4 \in 1..4
    OBVIOUS
  <2> QED BY <1>5, <2>2, <2>3, HoldsFromHolds, Zenon
<1>6. \/ x.stage = 0
      \/ Holds(x, IF x.stage = 5 THEN 4 ELSE x.stage, B)
  <2>1. CASE x.stage \in 1..4
    BY <1>1, <1>4, <2>1 DEF Bursting
  <2>2. CASE x.stage = 5
    BY <1>1, <1>5, <2>2, Zenon DEF Bursting
  <2> QED BY <1>3, <2>1, <2>2
<1>7. \/ y.stage = 0
      \/ x.stage = 5
      \/ Holds(y, IF y.stage = 5 THEN 4 ELSE y.stage, B)
  <2>1. CASE y.stage \in 1..4
    BY <1>1, <1>4, <2>1 DEF Bursting
  <2>2. CASE y.stage = 5
    BY <1>1, <1>5, <2>2, Zenon DEF Bursting
  <2> QED BY <1>3, <2>1, <2>2
<1>8. x.stage \in 1..4 /\ y.stage \in 1..4 => (x.stage - y.stage) % 4 = 2
  <2>1. x.stage \in 1..4 /\ y.stage \in 1..4 =>
          /\ x.stage - y.stage \in Int
          /\ x.stage - y.stage = 2 \/ x.stage - y.stage = -2
    BY <1>1, <1>3 DEF Bursting
  <2>2. \A d \in Int : d = 2 \/ d = -2 => d % 4 = 2
    OBVIOUS
  <2> QED BY <2>1, <2>2, Zenon
<1>9. (y.stage = 0) <=> (Len(B) < 3)
  BY <1>1, Zenon DEF Bursting
<1> HIDE DEF x, y, B
<1>10. \A i \in 1..2 : LET s == o.sets[i] IN
         \/ s.stage = 0
         \/ i = 2 /\ o.sets[1].stage = 5
         \/ Holds(s, IF s.stage = 5 THEN 4 ELSE s.stage, o.bursts)
  BY <1>6, <1>7 DEF x, y, B
<1> QED BY <1>8, <1>9, <1>10 DEF x, y, B, SetsAreLastBursts

\* Whatever the directions and the sizes of the packets: the four bursts that are compared with
\* a known handshake are four whole consecutive bursts of the flow, the first one sent by the
\* client, and the two sets stay two bursts apart (tls_obfuscated_heur_search).
THEOREM SetsHoldTheLastBursts == ObfSpec => []SetsAreLastBursts
<1>1. ObfInit => ObfState(o)
  BY ObfInit_State, Zenon
<1>2. ObfState(o) /\ [ObfNext]_o => ObfState(o)'
  BY ObfStep_State, Zenon
<1>3. ObfState(o) => SetsAreLastBursts
  BY ObfState_Sets, Zenon
<1> QED BY <1>1, <1>2, <1>3, PTL DEF ObfSpec
-----------------------------------------------------------------------------
(* HTTP.                                                                   *)

\* What the proofs need of the type of a flow.
HttpShape(f) ==
    /\ DOMAIN f = {"parse_response", "subclassification", "stage", "asym", "lower", "upper",
                   "extra", "checked", "excluded", "n", "dirs", "meta", "code", "rpc", "shown",
                   "header_observed", "first_payload", "risk", "messages", "of", "answered"}
    /\ f.meta \in [Field -> Nat] /\ f.risk \in [HttpRisk -> Nat]

\* What decides how the flow goes on is the same.
SameControl(f, g) ==
    /\ g.stage = f.stage /\ g.asym = f.asym /\ g.checked = f.checked /\ g.excluded = f.excluded
    /\ g.n = f.n /\ g.dirs = f.dirs /\ g.messages = f.messages /\ g.of = f.of
    /\ g.answered = f.answered /\ g.parse_response = f.parse_response

\* g is f after a packet of message m was looked at: what was written names m.
Writes(f, g, m) ==
    /\ HttpShape(g)
    /\ \A x \in Field : g.meta[x] \in {f.meta[x], m, 0}
    /\ \A x \in HttpRisk : g.risk[x] \in {f.risk[x], m, 0}
    /\ SameControl(f, g) /\ g.extra = f.extra
    /\ f.lower # "UNKNOWN" => g.lower # "UNKNOWN"

\* Packets of one message, one after the other.
LEMMA WritesTrans ==
    ASSUME NEW f, NEW g, NEW e, NEW m, Writes(f, g, m), Writes(g, e, m)
    PROVE  Writes(f, e, m)
BY Zenon DEF Writes, SameControl

\* What was written to is a flow.
LEMMA WritesShape == \A f, g, m : Writes(f, g, m) => HttpShape(g)
BY Zenon DEF Writes

\* No write at all.
LEMMA WritesNone ==
    ASSUME NEW f, NEW m, HttpShape(f)
    PROVE  Writes(f, f, m)
BY Zenon DEF Writes, SameControl

\* Raising a risk.
LEMMA WritesRisk ==
    ASSUME NEW f, NEW m \in Nat, HttpShape(f), NEW x
    PROVE  /\ Writes(f, SetRisk(f, x, m), m)
           /\ \A c : Writes(f, SetRiskIf(f, c, x, m), m)
<1>1. Writes(f, SetRisk(f, x, m), m)
  BY Zenon DEF Writes, SameControl, SetRisk, HttpShape
<1> QED
  BY <1>1, WritesNone, Zenon DEF SetRiskIf

\* Filling a field.
LEMMA WritesField ==
    ASSUME NEW f, NEW m \in Nat, HttpShape(f), NEW x
    PROVE  /\ Writes(f, [f EXCEPT !.meta[x] = m], m)
           /\ \A c : Writes(f, SetOnce(f, c, x, m), m)
<1>1. Writes(f, [f EXCEPT !.meta[x] = m], m)
  BY Zenon DEF Writes, SameControl, HttpShape
<1> QED
  BY <1>1, WritesNone, Zenon DEF SetOnce

\* The request line.
LEMMA WritesUrl ==
    ASSUME NEW f, NEW p, NEW m \in Nat, HttpShape(f)
    PROVE  Writes(f, UrlSet(f, p, m), m) /\ Writes(f, MethodSet(f, p, m), m)
<1>1. Writes(f, MethodSet(f, p, m), m)
  BY Zenon, WritesNone DEF MethodSet, Writes, SameControl, HttpShape
<1> DEFINE a == SetRiskIf(f, Shows(p, "numeric"), "NUMERIC_IP_HOST", m)
           b == [a EXCEPT !.meta["url"] = m]
           c == ndpi_check_http_url(b, p, m)
           d == ndpi_check_http_url_subprotocol(c, p)
<1>2. Writes(f, a, m) /\ HttpShape(a)
  BY WritesRisk, WritesShape, Zenon
<1> HIDE DEF a
<1>3. Writes(a, b, m) /\ HttpShape(b)
  BY <1>2, WritesField, WritesShape, Zenon
<1> HIDE DEF b
<1>4. Writes(b, c, m) /\ HttpShape(c)
  BY <1>3, WritesRisk, WritesShape, Zenon DEF ndpi_check_http_url
<1> HIDE DEF c
<1>5. Writes(c, d, m)
  BY <1>4, WritesNone, Zenon
     DEF ndpi_check_http_url_subprotocol, SetProtocol, Writes, SameControl, HttpShape
<1> HIDE DEF d
<1>6. Writes(f, d, m)
  BY <1>2, <1>3, <1>4, <1>5, WritesTrans, Zenon
<1> QED
  BY <1>1, <1>6, WritesNone, Zenon DEF UrlSet, a, b, c, d

\* The server and the user agent.
LEMMA WritesAgent ==
    ASSUME NEW f, NEW p, NEW m \in Nat, HttpShape(f)
    PROVE  /\ Writes(f, ndpi_check_http_server(f, p, m), m)
           /\ Writes(f, http_process_user_agent(f, p, m), m)
           /\ Writes(f, NoAgent(f, m), m)
<1>1. Writes(f, ndpi_check_http_server(f, p, m), m) /\ Writes(f, NoAgent(f, m), m)
  BY WritesRisk, Zenon DEF ndpi_check_http_server, NoAgent
<1> DEFINE a == SetOnce(f, Shows(p, "mozilla"), "detected_os", m)
           b == [a EXCEPT !.meta["user_agent"] = m, !.risk["HTTP_SUSPICIOUS_USER_AGENT"] = 0]
           c == ndpi_check_user_agent(b, p, m)
<1>2. Writes(f, a, m) /\ HttpShape(a)
  BY WritesField, WritesShape, Zenon
<1> HIDE DEF a
<1>3. Writes(a, b, m) /\ HttpShape(b)
  BY Zenon, <1>2 DEF Writes, SameControl, HttpShape
<1> HIDE DEF b
<1>4. Writes(b, c, m)
  <2> DEFINE odd == SetRiskIf(b, Shows(p, "odd_agent"), "HTTP_SUSPICIOUS_USER_AGENT", m)
             exploit == SetRiskIf(odd, Shows(p, "exploit"), "POSSIBLE_EXPLOIT", m)
             bot == SetRiskIf(exploit, Shows(p, "bot"), "HTTP_CRAWLER_BOT", m)
  <2>1. Writes(b, odd, m) /\ HttpShape(odd)
    BY <1>3, WritesRisk, WritesShape, Zenon
  <2> HIDE DEF odd
  <2>2. Writes(odd, exploit, m) /\ HttpShape(exploit)
    BY <2>1, WritesRisk, WritesShape, Zenon
  <2> HIDE DEF exploit
  <2>3. Writes(exploit, bot, m)
    BY <2>2, WritesRisk, Zenon
  <2> QED
    BY <2>1, <2>2, <2>3, WritesTrans DEF ndpi_check_user_agent, odd, exploit
<1> HIDE DEF c
<1>5. Writes(f, c, m)
  BY <1>2, <1>3, <1>4, WritesTrans, Zenon
<1> QED
  BY <1>1, <1>2, <1>5, WritesNone, Zenon DEF http_process_user_agent, a, b, c

\* The credentials, the host and the upgrade.
LEMMA WritesHost ==
    ASSUME NEW f, NEW p, NEW m \in Nat, HttpShape(f)
    PROVE  /\ Writes(f, WebsocketSeen(f, p, m), m)
           /\ Writes(f, AuthorizationSet(f, p, m), m)
           /\ Writes(f, HostSet(f, p, m), m)
<1>1. Writes(f, WebsocketSeen(f, p, m), m)
  BY WritesNone, WritesField, Zenon DEF WebsocketSeen
<1>2. Writes(f, HostSet(f, p, m), m)
  <2> DEFINE a == [f EXCEPT !.meta["host"] = m]
             b == SetRiskIf(a, Shows(p, "unresolved"), "UNRESOLVED_HOSTNAME", m)
  <2>1. Writes(f, a, m) /\ HttpShape(a)
    BY WritesField, WritesShape, Zenon
  <2> HIDE DEF a
  <2>2. Writes(a, b, m)
    BY Zenon, <2>1, WritesRisk
  <2> HIDE DEF b
  <2> QED
    BY <2>1, <2>2, WritesTrans, WritesNone DEF HostSet, a, b
<1>3. Writes(f, AuthorizationSet(f, p, m), m)
  <2> DEFINE a == [f EXCEPT !.meta["username"] = m, !.meta["password"] = m]
             b == SetRisk(a, "CLEAR_TEXT_CREDENTIALS", m)
  <2>1. Writes(f, a, m) /\ HttpShape(a)
    BY Zenon DEF Writes, SameControl, HttpShape
  <2> HIDE DEF a
  <2>2. Writes(a, b, m)
    BY <2>1, WritesRisk, Zenon
  <2> HIDE DEF b
  <2> QED
    BY <2>1, <2>2, WritesTrans, WritesNone DEF AuthorizationSet, a, b
<1> QED
  BY <1>1, <1>2, <1>3, Zenon

\* The type of the content and the name of the file.
LEMMA WritesContent ==
    ASSUME NEW f, NEW p, NEW m \in Nat, HttpShape(f)
    PROVE  Writes(f, ContentTypeSet(f, p, m), m)
<1>1. ASSUME NEW g, HttpShape(g) PROVE Writes(g, ndpi_http_check_content(g, p, m), m)
  <2> DEFINE a == SetRiskIf(g, Shows(p, "data"), "BINARY_DATA_TRANSFER", m)
             b == SetRiskIf(a, Shows(p, "binary"), "BINARY_APPLICATION_TRANSFER", m)
             c == [b EXCEPT !.meta["filename"] = m]
  <2>1. Writes(g, a, m) /\ HttpShape(a)
    BY <1>1, WritesRisk, WritesShape, Zenon
  <2> HIDE DEF a
  <2>2. Writes(a, b, m) /\ HttpShape(b)
    BY <2>1, WritesRisk, WritesShape, Zenon
  <2> HIDE DEF b
  <2>3. Writes(b, c, m)
    BY <2>2, WritesField, Zenon
  <2> HIDE DEF c
  <2>4. Writes(g, b, m) /\ Writes(g, c, m)
    BY <2>1, <2>2, <2>3, WritesTrans, Zenon
  <2> QED
    BY <2>4, Zenon DEF ndpi_http_check_content, a, b, c
<1> DEFINE a == [f EXCEPT !.meta["content_type"] = m]
           b == ndpi_http_check_content(a, p, m)
           c == [f EXCEPT !.meta["request_content_type"] = m,
                          !.meta["is_form"] = IF Shows(p, "form") THEN m ELSE @]
<1>2. Writes(f, a, m) /\ HttpShape(a)
  BY WritesField, WritesShape, Zenon
<1>3. Writes(f, c, m)
  BY Zenon DEF Writes, SameControl, HttpShape
<1> HIDE DEF a, c
<1>4. Writes(a, b, m)
  BY <1>1, <1>2, Zenon
<1> HIDE DEF b
<1>5. Writes(f, b, m)
  BY <1>2, <1>4, WritesTrans, Zenon
<1> QED
  BY <1>3, <1>5, WritesNone, Zenon DEF ContentTypeSet, a, b, c

\* The name of the server.
LEMMA WritesName ==
    ASSUME NEW f, NEW p, NEW m \in Nat, HttpShape(f)
    PROVE  Writes(f, NameSet(f, p, m), m)
<1> DEFINE a == [f EXCEPT !.meta["host_server_name"] = m]
           b == SetRiskIf(a, Shows(p, "other_ip"), "HTTP_SUSPICIOUS_HEADER", m)
           c == SetRisk(b, "INVALID_CHARACTERS", m)
           d == SetRisk(c, "POSSIBLE_EXPLOIT", m)
<1>1. Writes(f, a, m) /\ HttpShape(a)
  BY WritesField, WritesShape, Zenon
<1> HIDE DEF a
<1>2. Writes(a, b, m) /\ HttpShape(b)
  BY <1>1, WritesRisk, WritesShape, Zenon
<1> HIDE DEF b
<1>3. Writes(b, c, m) /\ HttpShape(c)
  BY <1>2, WritesRisk, WritesShape, Zenon
<1> HIDE DEF c
<1>4. Writes(c, d, m)
  BY <1>3, WritesRisk, Zenon
<1> HIDE DEF d
<1>5. Writes(f, b, m) /\ Writes(f, d, m)
  BY <1>1, <1>2, <1>3, <1>4, WritesTrans, Zenon
<1> QED
  BY <1>5, WritesNone, Zenon DEF NameSet, a, b, c, d

\* The sub-classification and the login of a form.
LEMMA WritesSub ==
    ASSUME NEW f, NEW p, NEW m \in Nat, HttpShape(f), NEW just_set
    PROVE  Writes(f, ndpi_http_parse_subprotocol(f, p, m, just_set), m)
<1>1. ASSUME NEW g, HttpShape(g), NEW app, NEW master, app # "UNKNOWN"
      PROVE  Writes(g, SetProtocol(g, app, master), m)
  BY <1>1, Zenon DEF SetProtocol, Writes, SameControl, HttpShape
<1>2. ASSUME NEW g, HttpShape(g) PROVE Writes(g, FormLogin(g, p, m), m)
  <2> DEFINE a == SetOnce(g, TRUE, "username", m)
             b == SetOnce(a, TRUE, "password", m)
             c == SetRisk(b, "CLEAR_TEXT_CREDENTIALS", m)
  <2>1. Writes(g, a, m) /\ HttpShape(a)
    BY <1>2, WritesField, WritesShape, Zenon
  <2> HIDE DEF a
  <2>2. Writes(a, b, m) /\ HttpShape(b)
    BY <2>1, WritesField, WritesShape, Zenon
  <2> HIDE DEF b
  <2>3. Writes(b, c, m)
    BY <2>2, WritesRisk, Zenon
  <2> HIDE DEF c
  <2>4. Writes(g, c, m)
    BY <2>1, <2>2, <2>3, WritesTrans, Zenon
  <2> QED
    BY Zenon, <1>2, <2>4, WritesNone DEF FormLogin, a, b, c
<1> DEFINE master == MasterOf(f)
           content == IF (Has(p, "Server") /\ Shows(p, "ntop"))
                         \/ (Has(p, "Content-Type") /\ Shows(p, "ocsp"))
                      THEN SetProtocol(f, "by_content", master) ELSE f
           method == IF f.rpc THEN SetProtocol(content, "by_method", master) ELSE content
           name == IF method.upper = "UNKNOWN" /\ Shows(p, "known_host")
                      /\ (just_set \/ Has(p, "Origin") \/ Has(p, "Referer") \/ Has(p, "User-Agent"))
                   THEN SetProtocol(method, "by_name", master) ELSE method
           login == FormLogin(name, p, m)
           seen == [login EXCEPT !.first_payload = @ \/ f.header_observed]
<1> HIDE DEF master
<1>3. Writes(f, content, m) /\ HttpShape(content)
  BY <1>1, WritesNone, WritesShape, Zenon
<1> HIDE DEF content
<1>4. Writes(content, method, m) /\ HttpShape(method)
  BY <1>1, <1>3, WritesNone, WritesShape, Zenon
<1> HIDE DEF method
<1>5. Writes(method, name, m) /\ HttpShape(name)
  BY <1>1, <1>4, WritesNone, WritesShape, Zenon
<1> HIDE DEF name
<1>6. Writes(name, login, m) /\ HttpShape(login)
  BY <1>2, <1>5, WritesShape, Zenon
<1> HIDE DEF login
<1>7. Writes(login, seen, m)
  BY <1>6, Zenon DEF Writes, SameControl, HttpShape
<1> HIDE DEF seen
<1>8. Writes(f, seen, m)
  BY <1>3, <1>4, <1>5, <1>6, <1>7, WritesTrans, Zenon
<1> QED
  BY <1>8, WritesNone, Zenon DEF ndpi_http_parse_subprotocol, seen, login, name, method, content, master

\* The headers of a packet.
LEMMA WritesHeaders ==
    ASSUME NEW f, NEW p, NEW m \in Nat, HttpShape(f)
    PROVE  Writes(f, check_content_type_and_change_protocol(f, p, m), m)
<1> DEFINE just == NameJustSet(f, p)
           a1 == UrlSet(f, p, m)
           a2 == MethodSet(a1, p, m)
           a == ndpi_check_http_server(a2, p, m)
           b1 == http_process_user_agent(a, p, m)
           b == SetOnce(b1, Has(p, "X-Forwarded-For"), "nat_ip", m)
           c1 == WebsocketSeen(b, p, m)
           c == SetOnce(c1, Has(p, "Server"), "server", m)
           e1 == AuthorizationSet(c, p, m)
           e == SetOnce(e1, Has(p, "Referer"), "referer", m)
           g1 == HostSet(e, p, m)
           g2 == ContentTypeSet(g1, p, m)
           g == NameSet(g2, p, m)
           i == ndpi_http_parse_subprotocol(g, p, m, just)
           j == SetRiskIf(i, just /\ Shows(p, "dga"), "SUSPICIOUS_DGA_DOMAIN", m)
           k == ndpi_check_http_header(j, p, m)
<1> HIDE DEF just
<1>1. Writes(f, a1, m) /\ HttpShape(a1)
  BY WritesUrl, WritesShape, Zenon
<1> HIDE DEF a1
<1>2. Writes(a1, a2, m) /\ HttpShape(a2)
  BY <1>1, WritesUrl, WritesShape, Zenon
<1> HIDE DEF a2
<1>3. Writes(a2, a, m) /\ HttpShape(a)
  BY <1>2, WritesAgent, WritesShape, Zenon
<1> HIDE DEF a
<1>4. Writes(a, b1, m) /\ HttpShape(b1)
  BY <1>3, WritesAgent, WritesShape, Zenon
<1> HIDE DEF b1
<1>5. Writes(b1, b, m) /\ HttpShape(b)
  BY <1>4, WritesField, WritesShape, Zenon
<1> HIDE DEF b
<1>6. Writes(b, c1, m) /\ HttpShape(c1)
  BY <1>5, WritesHost, WritesShape, Zenon
<1> HIDE DEF c1
<1>7. Writes(c1, c, m) /\ HttpShape(c)
  BY <1>6, WritesField, WritesShape, Zenon
<1> HIDE DEF c
<1>8. Writes(c, e1, m) /\ HttpShape(e1)
  BY <1>7, WritesHost, WritesShape, Zenon
<1> HIDE DEF e1
<1>9. Writes(e1, e, m) /\ HttpShape(e)
  BY <1>8, WritesField, WritesShape, Zenon
<1> HIDE DEF e
<1>10. Writes(e, g1, m) /\ HttpShape(g1)
  BY <1>9, WritesHost, WritesShape, Zenon
<1> HIDE DEF g1
<1>11. Writes(g1, g2, m) /\ HttpShape(g2)
  BY <1>10, WritesContent, WritesShape, Zenon
<1> HIDE DEF g2
<1>12. Writes(g2, g, m) /\ HttpShape(g)
  BY <1>11, WritesName, WritesShape, Zenon
<1> HIDE DEF g
<1>13. Writes(g, i, m) /\ HttpShape(i)
  BY <1>12, WritesSub, WritesShape, Zenon
<1> HIDE DEF i
<1>14. Writes(i, j, m) /\ HttpShape(j)
  BY <1>13, WritesRisk, WritesShape, Zenon
<1> HIDE DEF j
<1>15. Writes(j, k, m)
  BY <1>14, WritesRisk, Zenon DEF ndpi_check_http_header
<1> HIDE DEF k
<1>16. Writes(f, b1, m)
  BY <1>1, <1>2, <1>3, <1>4, WritesTrans, Zenon
<1>17. Writes(f, e, m)
  BY <1>16, <1>5, <1>6, <1>7, <1>8, <1>9, WritesTrans, Zenon
<1>18. Writes(f, k, m)
  BY <1>17, <1>10, <1>11, <1>12, <1>13, <1>14, <1>15, WritesTrans, Zenon
<1>19. check_content_type_and_change_protocol(f, p, m) = k
  BY Zenon DEF check_content_type_and_change_protocol, a1, a2, a, b1, b, c1, c, e1, e, g1, g2, g,
         i, j, k, just
<1> QED
  BY <1>18, <1>19, Zenon

-----------------------------------------------------------------------------
(* Requests and responses.                                                 *)

\* g is f after a message was begun: what was written names m.
Begun(f, g, m) ==
    /\ HttpShape(g)
    /\ \A x \in Field : g.meta[x] \in {f.meta[x], m, 0}
    /\ \A x \in HttpRisk : g.risk[x] \in {f.risk[x], m, 0}
    /\ SameControl(f, g) /\ g.extra = TRUE /\ g.lower # "UNKNOWN"

\* The flow is that of HTTP, or of nothing at all yet.
Named(f) == f.upper = "UNKNOWN" \/ f.lower # "UNKNOWN"

\* The first packet of a request.
LEMMA RequestBegun ==
    ASSUME NEW f, NEW p, NEW m \in Nat, HttpShape(f), Named(f)
    PROVE  Begun(f, process_request(f, p, m), m)
<1> DEFINE master == IF Shows(p, "connect") THEN "HTTP_CONNECT"
                     ELSE IF p.whole /\ Shows(p, "proxy") THEN "HTTP_PROXY" ELSE "HTTP"
           a == ndpi_parse_packet_line_info(f, p)
           b == ndpi_int_http_add_connection(a, master)
           c == check_content_type_and_change_protocol(b, p, m)
           d == NoAgent(c, m)
<1>0. master # "UNKNOWN"
  BY Zenon
<1> HIDE DEF master
<1>1. Begun(f, b, m)
  BY <1>0, Zenon DEF Begun, Named, HttpShape, SameControl, ndpi_parse_packet_line_info,
              ndpi_int_http_add_connection
<1>2. HttpShape(b)
  BY <1>1, Zenon DEF Begun
<1> HIDE DEF b
<1>3. Writes(b, c, m) /\ HttpShape(c)
  BY <1>2, WritesHeaders, WritesShape, Zenon
<1> HIDE DEF c
<1>4. Writes(c, d, m)
  BY <1>3, WritesAgent, Zenon
<1>5. Writes(b, d, m)
  BY <1>3, <1>4, WritesTrans, Zenon
<1> HIDE DEF d
<1>6. Begun(f, d, m)
  BY <1>1, <1>5, Zenon DEF Begun, Writes, SameControl
<1>7. process_request(f, p, m) = d
  BY Zenon DEF process_request, d, c, b, master
<1> QED
  BY <1>6, <1>7, Zenon

\* The first packet of a response.
LEMMA ResponseBegun ==
    ASSUME NEW f, NEW p, NEW m \in Nat, HttpShape(f)
    PROVE  Writes(f, process_response(f, p, m), m)
<1> DEFINE a == ndpi_parse_packet_line_info(f, p)
           b == parse_response_code(a, p, m)
           c == check_content_type_and_change_protocol(b, p, m)
           d == SetRiskIf(c, /\ c.meta["is_form"] # 0 \/ Has(p, "Content-Type")
                             /\ Shows(p, "text"), "HTTP_SUSPICIOUS_CONTENT", m)
           e == NoAgent(d, m)
           b1 == [a EXCEPT !.code = p.code, !.meta["status"] = IF p.code = "none" THEN 0 ELSE m]
<1>1. Writes(f, a, m) /\ HttpShape(a)
  BY Zenon DEF Writes, HttpShape, SameControl, ndpi_parse_packet_line_info
<1> HIDE DEF a
<1>2. Writes(a, b1, m) /\ HttpShape(b1)
  BY Zenon, <1>1 DEF Writes, HttpShape, SameControl
<1> HIDE DEF b1
<1>3. Writes(b1, b, m) /\ HttpShape(b)
  BY <1>2, WritesRisk, WritesShape, Zenon DEF parse_response_code, b1
<1> HIDE DEF b
<1>4. Writes(b, c, m) /\ HttpShape(c)
  BY <1>3, WritesHeaders, WritesShape, Zenon
<1> HIDE DEF c
<1>5. Writes(c, d, m) /\ HttpShape(d)
  BY <1>4, WritesRisk, WritesShape, Zenon
<1> HIDE DEF d
<1>6. Writes(d, e, m)
  BY <1>5, WritesAgent, Zenon
<1> HIDE DEF e
<1>7. Writes(f, e, m)
  BY <1>1, <1>2, <1>3, <1>4, <1>5, <1>6, WritesTrans, Zenon
<1>8. process_response(f, p, m) = e
  BY Zenon DEF process_response, ndpi_validate_http_content, e, d, c, b, a
<1> QED
  BY <1>7, <1>8, Zenon

-----------------------------------------------------------------------------
(* The inductive invariant.                                                *)

HttpTyped(f) ==
    /\ HttpShape(f)
    /\ f.messages \in Nat /\ f.n \in Nat /\ f.checked \in Nat /\ f.of \in [{0, 1} -> Nat]
    /\ f.dirs \in SUBSET {0, 1} /\ f.stage \in 0..4 /\ f.asym \in 0..2
    /\ f.extra \in BOOLEAN /\ f.answered \in BOOLEAN

\* Nothing that reset() clears is set, or all of it names message m.
OfMessage(f, m) ==
    /\ \A x \in ResetField : f.meta[x] \in {0, m}
    /\ \A x \in HttpResetRisk : f.risk[x] \in {0, m}

\* Until a request is answered, what a reset clears is of the message that the side
\* named by the stage is sending.
HttpCurrent(f) ==
    ~f.answered => /\ f.stage = 0 => OfMessage(f, 0)
                   /\ \A d \in {0, 1} : f.stage \in {d + 1, d + 3} => OfMessage(f, f.of[d])

\* The stage names a side that asks, or one that answers.
HttpSides(f) ==
    \A d \in {0, 1} :
        /\ f.stage = d + 1 => \E p \in HttpPacket : p.kind = "request" /\ p.dir = d
        /\ f.stage = d + 3 => \E p \in HttpPacket : p.kind = "response" /\ p.dir = d

\* One side alone: it is the side of the stage, and its messages are counted.
HttpAlone(f) ==
    HttpOneSided(f) /\ f.lower # "UNKNOWN"
    => \E d \in {0, 1} : /\ f.dirs = {d} /\ f.stage \in {d + 1, d + 3} /\ f.messages >= 1
                         /\ f.asym = IF f.messages < 3 THEN f.messages - 1 ELSE 2

\* A flow that was neither classified nor given up is as it was made.
HttpFresh(f) ==
    f.lower = "UNKNOWN" =>
        /\ ~f.extra
        /\ ~f.excluded => /\ f.upper = "UNKNOWN" /\ f.stage = 0 /\ f.asym = 0 /\ f.messages = 0
                          /\ f.n = 0 /\ f.checked = 0 /\ f.dirs = {} /\ ~f.answered
                          /\ f.code = "none" /\ f.meta["host_server_name"] = 0

\* The extra dissection goes on exactly while something is missing.
HttpLook(f) ==
    /\ f.extra => ~HttpComplete(f) /\ f.n = f.checked + 1 /\ f.checked < http_max_extra
    /\ f.lower # "UNKNOWN" /\ ~f.extra /\ f.checked < http_max_extra => HttpComplete(f) \/ ~HttpOneSided(f)

HttpInv(f) ==
    /\ HttpTyped(f) /\ HttpCurrent(f) /\ HttpSides(f)
    /\ HttpAlone(f) /\ HttpFresh(f) /\ HttpLook(f)

\* What the arrival of a packet decides is the same.
SameCount(f, g) ==
    /\ g.checked = f.checked /\ g.n = f.n /\ g.dirs = f.dirs /\ g.messages = f.messages
    /\ g.of = f.of /\ g.parse_response = f.parse_response

\* reset() leaves nothing of the message before.
LEMMA ResetClears ==
    ASSUME NEW f, HttpShape(f)
    PROVE  /\ HttpShape(reset(f)) /\ OfMessage(reset(f), 0) /\ SameControl(f, reset(f))
           /\ reset(f).code = "none" /\ reset(f).extra = f.extra
           /\ reset(f).lower = f.lower /\ reset(f).upper = f.upper
           /\ reset(f).meta["host_server_name"] = f.meta["host_server_name"]
<1> DEFINE g == reset(f)
<1>1. /\ g.meta = [x \in Field |-> IF x \in StickyField THEN f.meta[x] ELSE 0]
      /\ g.risk = [x \in HttpRisk |-> IF x \in HttpKeptRisk THEN f.risk[x] ELSE 0]
      /\ g.code = "none" /\ g.extra = f.extra /\ g.lower = f.lower /\ g.upper = f.upper
      /\ SameControl(f, g) /\ DOMAIN g = DOMAIN f
  BY Zenon DEF reset, HttpShape, SameControl
<1> HIDE DEF g
<1>2. HttpShape(g)
  BY <1>1 DEF HttpShape
<1>3. OfMessage(g, 0)
  BY <1>1 DEF OfMessage, ResetField, RequestField, ResponseField, StickyField, Field, HttpRisk,
              HttpResetRisk, HttpKeptRisk
<1>4. g.meta["host_server_name"] = f.meta["host_server_name"]
  BY <1>1, Zenon DEF StickyField, Field
<1> QED
  BY <1>1, <1>2, <1>3, <1>4, Zenon DEF g

\* What is written names one message only, when what was there did.
LEMMA WrittenOf ==
    ASSUME NEW f, NEW g, NEW m, NEW k, OfMessage(f, k), k \in {0, m},
           \A x \in Field : g.meta[x] \in {f.meta[x], m, 0},
           \A x \in HttpRisk : g.risk[x] \in {f.risk[x], m, 0}
    PROVE  OfMessage(g, m)
<1>1. \A x \in ResetField : x \in Field
  BY Zenon DEF ResetField, Field
<1>2. \A x \in HttpResetRisk : x \in HttpRisk
  BY Zenon DEF HttpRisk
<1> QED
  BY <1>1, <1>2, Zenon DEF OfMessage

\* A message begins at a new stage.
Opens(f, g, p, m) ==
    /\ HttpTyped(g) /\ SameCount(f, g) /\ g.asym = f.asym /\ g.answered = f.answered
    /\ g.extra = TRUE /\ g.lower # "UNKNOWN"
    /\ \/ p.kind = "request" /\ g.stage = p.dir + 1
       \/ p.kind = "response" /\ g.stage = p.dir + 3
    /\ ~f.answered => OfMessage(g, m)

\* The first packet of a message while none is awaited to end.
LEMMA FirstOpens ==
    ASSUME NEW f, NEW p \in HttpPacket, NEW m \in Nat, HttpTyped(f), Named(f), p.kind # "data",
           ~f.answered => OfMessage(f, 0)
    PROVE  Opens(f, FirstMessage(f, p, m), p, m)
<1>1. p.dir \in {0, 1} /\ p.kind \in {"request", "response"}
  BY HttpAssumption, Zenon DEF HttpPacketType
<1>2. HttpShape(f)
  BY Zenon DEF HttpTyped
<1>3. ASSUME NEW g, Begun(f, g, m), NEW s \in 0..4
      PROVE  /\ HttpTyped([g EXCEPT !.stage = s]) /\ SameCount(f, [g EXCEPT !.stage = s])
             /\ ~f.answered => OfMessage([g EXCEPT !.stage = s], m)
  <2> DEFINE e == [g EXCEPT !.stage = s]
  <2>1. /\ e.meta = g.meta /\ e.risk = g.risk /\ SameCount(g, e) /\ e.stage = s
        /\ e.asym = g.asym /\ e.extra = g.extra /\ e.answered = g.answered /\ DOMAIN e = DOMAIN g
    BY <1>3, Zenon DEF Begun, HttpShape, SameCount
  <2> HIDE DEF e
  <2>2. SameCount(f, e)
    BY <1>3, <2>1, Zenon DEF Begun, SameControl, SameCount
  <2>3. HttpTyped(e)
    BY Zenon, <1>3, <2>1 DEF Begun, SameControl, SameCount, HttpTyped, HttpShape
  <2>4. ASSUME ~f.answered PROVE OfMessage(e, m)
    <3>1. OfMessage(f, 0)
      BY <2>4, Zenon
    <3>2. /\ \A x \in Field : e.meta[x] \in {f.meta[x], m, 0}
          /\ \A x \in HttpRisk : e.risk[x] \in {f.risk[x], m, 0}
      BY <1>3, <2>1, Zenon DEF Begun
    <3> QED
      BY <3>1, <3>2, WrittenOf, Zenon
  <2> QED
    BY <2>2, <2>3, <2>4, Zenon DEF e
<1>4. CASE p.kind = "request"
  <2> DEFINE g == process_request(f, p, m)
  <2>1. Begun(f, g, m)
    BY <1>2, RequestBegun, Zenon
  <2> HIDE DEF g
  <2>2. FirstMessage(f, p, m) = [g EXCEPT !.stage = p.dir + 1]
    BY <1>4, Zenon DEF FirstMessage, is_request, g
  <2>3. p.dir + 1 \in 0..4
    BY <1>1
  <2> DEFINE e == [g EXCEPT !.stage = p.dir + 1]
  <2>4. /\ e.stage = p.dir + 1 /\ e.asym = g.asym /\ e.answered = g.answered
        /\ e.extra = g.extra /\ e.lower = g.lower
    BY <2>1, Zenon DEF Begun, HttpShape
  <2>5. HttpTyped(e) /\ SameCount(f, e) /\ (~f.answered => OfMessage(e, m))
    BY <1>3, <2>1, <2>3, Zenon
  <2>6. FirstMessage(f, p, m) = e
    BY <2>2, Zenon
  <2> HIDE DEF e
  <2>7. Opens(f, e, p, m)
    BY <1>4, <2>1, <2>4, <2>5, Zenon DEF Opens, Begun, SameControl
  <2> QED
    BY <2>6, <2>7, Zenon
<1>5. CASE p.kind = "response"
  <2> DEFINE a == ndpi_int_http_add_connection(f, "HTTP")
             g == process_response(a, p, m)
  <2>1. Begun(f, a, m)
    BY <1>2, Zenon DEF Begun, HttpShape, SameControl, ndpi_int_http_add_connection, Named
  <2>2. HttpShape(a)
    BY <2>1, Zenon DEF Begun
  <2> HIDE DEF a
  <2>3. Writes(a, g, m)
    BY <2>2, ResponseBegun, Zenon
  <2> HIDE DEF g
  <2>4. Begun(f, g, m)
    BY <2>1, <2>3, Zenon DEF Begun, Writes, SameControl
  <2>5. FirstMessage(f, p, m) = [g EXCEPT !.stage = p.dir + 3]
    BY <1>5, Zenon DEF FirstMessage, is_request, is_response, g, a
  <2>6. p.dir + 3 \in 0..4
    BY <1>1
  <2> DEFINE e == [g EXCEPT !.stage = p.dir + 3]
  <2>7. /\ e.stage = p.dir + 3 /\ e.asym = g.asym /\ e.answered = g.answered
        /\ e.extra = g.extra /\ e.lower = g.lower
    BY <2>4, Zenon DEF Begun, HttpShape
  <2>8. HttpTyped(e) /\ SameCount(f, e) /\ (~f.answered => OfMessage(e, m))
    BY <1>3, <2>4, <2>6, Zenon
  <2>9. FirstMessage(f, p, m) = e
    BY <2>5, Zenon
  <2> HIDE DEF e
  <2>10. Opens(f, e, p, m)
    BY <1>5, <2>4, <2>7, <2>8, Zenon DEF Opens, Begun, SameControl
  <2> QED
    BY <2>9, <2>10, Zenon
<1> QED
  BY <1>1, <1>4, <1>5, Zenon

\* A write keeps the type of a flow and what was counted.
LEMMA WritesTyped ==
    ASSUME NEW f, NEW g, NEW m, HttpTyped(f), Writes(f, g, m)
    PROVE  HttpTyped(g) /\ SameCount(f, g)
BY Zenon DEF HttpTyped, Writes, SameControl, SameCount

\* One message more of the side that sent the last one.
Repeats(f, g, p, m) ==
    /\ HttpTyped(g) /\ SameCount(f, g) /\ g.stage = f.stage /\ g.answered = f.answered
    /\ \/ p.kind = "request" /\ f.stage = p.dir + 1
       \/ p.kind = "response" /\ f.stage = p.dir + 3
    /\ g.asym = (IF f.asym < 2 THEN f.asym + 1 ELSE 2)
    /\ g.extra = TRUE /\ g.lower # "UNKNOWN" /\ OfMessage(g, m)

\* A packet of the message that is being read.
Reads(f, g, p, m) ==
    /\ Writes(f, g, m)
    /\ \/ p.kind # "request" /\ f.stage = p.dir + 1
       \/ p.kind # "response" /\ f.stage = p.dir + 3

\* The response to a request.
Answers(f, g, p) ==
    /\ HttpTyped(g) /\ SameCount(f, g) /\ f.stage \in {1, 2} /\ f.stage # p.dir + 1
    /\ g.stage = 0 /\ g.answered = TRUE /\ g.extra = f.extra /\ g.lower # "UNKNOWN"

\* A packet that is neither, while nothing is awaited.
GivesUp(f, g, p) ==
    /\ HttpTyped(g) /\ SameCount(f, g) /\ p.kind = "data" /\ g.stage = 0 /\ g.excluded = TRUE
    /\ g.answered = f.answered /\ g.extra = f.extra /\ g.lower = f.lower
    /\ ~g.answered => OfMessage(g, 0)
    /\ g.meta["host_server_name"] = f.meta["host_server_name"] /\ g.asym = f.asym
    /\ \/ f.stage = 0 /\ g.code = f.code
       \/ f.stage \in {3, 4} /\ f.stage # p.dir + 3 /\ g.code = "none"

\* The flow before a packet of a connection that is followed.
OpenFlow(f) ==
    /\ HttpTyped(f) /\ Named(f)
    /\ f.stage # 0 => f.extra = TRUE /\ f.lower # "UNKNOWN"
    /\ f.stage = 0 /\ ~f.answered => OfMessage(f, 0)

\* A new message of the same side.
LEMMA Repeat ==
    ASSUME NEW f, NEW p \in HttpPacket, NEW m \in Nat, OpenFlow(f),
           \/ p.kind = "request" /\ f.stage = p.dir + 1
           \/ p.kind = "response" /\ f.stage = p.dir + 3
    PROVE  Repeats(f, ndpi_check_http_tcp(f, p, m), p, m)
<1>1. p.dir \in {0, 1}
  BY HttpAssumption, Zenon DEF HttpPacketType
<1> DEFINE a == OneMore(f)
           b == reset(a)
<1>2. /\ HttpTyped(a) /\ SameCount(f, a) /\ a.stage = f.stage /\ a.answered = f.answered
      /\ a.asym = (IF f.asym < 2 THEN f.asym + 1 ELSE 2)
      /\ a.extra = f.extra /\ a.lower = f.lower
  BY DEF OpenFlow, HttpTyped, HttpShape, SameCount, OneMore
<1>3. HttpShape(a)
  BY <1>2, Zenon DEF HttpTyped
<1> HIDE DEF a
<1>4. /\ HttpShape(b) /\ OfMessage(b, 0) /\ SameControl(a, b)
      /\ b.extra = a.extra /\ b.lower = a.lower
  BY <1>3, ResetClears, Zenon
<1> HIDE DEF b
<1>5. f.extra = TRUE /\ f.lower # "UNKNOWN"
  BY <1>1 DEF OpenFlow
<1>6. b.extra = TRUE /\ b.lower # "UNKNOWN" /\ Named(b)
  BY <1>2, <1>4, <1>5, Zenon DEF Named
<1>7. ASSUME NEW g, Begun(b, g, m)
      PROVE  Repeats(f, g, p, m)
  <2>1. OfMessage(g, m)
    BY <1>4, <1>7, WrittenOf, Zenon DEF Begun
  <2>2. SameControl(a, g)
    BY <1>4, <1>7, Zenon DEF Begun, SameControl
  <2>3. HttpTyped(g) /\ SameCount(f, g)
    BY Zenon, <1>2, <1>7, <2>2 DEF Begun, SameControl, SameCount, HttpTyped
  <2> QED
    BY <1>2, <1>7, <2>1, <2>2, <2>3, Zenon DEF Repeats, Begun, SameControl
<1>8. CASE p.kind = "request"
  <2>1. Begun(b, process_request(b, p, m), m)
    BY <1>4, <1>6, RequestBegun, Zenon
  <2>2. ndpi_check_http_tcp(f, p, m) = process_request(b, p, m)
    BY <1>1, <1>8 DEF ndpi_check_http_tcp, is_request, a, b
  <2> QED
    BY <1>7, <2>1, <2>2, Zenon
<1>9. CASE p.kind = "response"
  <2>1. Writes(b, process_response(b, p, m), m)
    BY <1>4, ResponseBegun, Zenon
  <2>2. Begun(b, process_response(b, p, m), m)
    BY <1>6, <2>1, Zenon DEF Writes, Begun
  <2>3. ndpi_check_http_tcp(f, p, m) = process_response(b, p, m)
    BY <1>1, <1>9 DEF ndpi_check_http_tcp, is_response, a, b
  <2> QED
    BY <1>7, <2>2, <2>3, Zenon
<1> QED
  BY <1>8, <1>9, Zenon

\* What a packet does to a flow.
LEMMA TcpCases ==
    ASSUME NEW f, NEW p \in HttpPacket, NEW m \in Nat, OpenFlow(f)
    PROVE  LET g == ndpi_check_http_tcp(f, p, m)
           IN  \/ /\ Opens(f, g, p, m)
                  /\ f.stage = 0 \/ (f.stage \in {3, 4} /\ f.stage # p.dir + 3)
               \/ Repeats(f, g, p, m) \/ Reads(f, g, p, m) \/ Answers(f, g, p)
               \/ GivesUp(f, g, p)
               \/ g = f /\ f.stage \in {1, 2} /\ f.stage # p.dir + 1
<1> DEFINE g == ndpi_check_http_tcp(f, p, m)
<1>1. p.dir \in {0, 1} /\ p.kind \in {"request", "response", "data"} /\ f.stage \in 0..4
  BY HttpAssumption, Zenon DEF HttpPacketType, OpenFlow, HttpTyped
<1>2. HttpTyped(f) /\ HttpShape(f)
  BY Zenon DEF OpenFlow, HttpTyped
<1>3. CASE f.stage = 0 /\ p.kind # "data"
  <2>1. Opens(f, FirstMessage(f, p, m), p, m)
    BY <1>3, FirstOpens, Zenon DEF OpenFlow
  <2>2. g = FirstMessage(f, p, m)
    BY <1>3, Zenon DEF ndpi_check_http_tcp
  <2> QED
    BY <1>3, <2>1, <2>2, Zenon
<1>4. CASE f.stage = 0 /\ p.kind = "data"
  <2>1. g = [f EXCEPT !.excluded = TRUE]
    BY <1>4, Zenon DEF ndpi_check_http_tcp, FirstMessage, is_request, is_response
  <2> HIDE DEF g
  <2>2. /\ DOMAIN g = DOMAIN f /\ g.meta = f.meta /\ g.risk = f.risk /\ SameCount(f, g)
        /\ g.stage = f.stage /\ g.asym = f.asym /\ g.answered = f.answered /\ g.extra = f.extra
        /\ g.lower = f.lower /\ g.code = f.code /\ g.excluded = TRUE
    BY <1>2, <2>1, Zenon DEF HttpShape, SameCount
  <2>3. HttpTyped(g)
    BY <1>2, <2>2, Zenon DEF HttpTyped, HttpShape, SameCount
  <2>4. ~g.answered => OfMessage(g, 0)
    BY <1>4, <2>2, Zenon DEF OpenFlow, OfMessage
  <2>5. GivesUp(f, g, p)
    BY <1>4, <2>2, <2>3, <2>4, Zenon DEF GivesUp
  <2> QED
    BY <2>5, Zenon DEF g
<1>5. CASE \/ p.kind = "request" /\ f.stage = p.dir + 1
           \/ p.kind = "response" /\ f.stage = p.dir + 3
  BY <1>5, Repeat, Zenon
<1>6. CASE \/ p.kind # "request" /\ f.stage = p.dir + 1
           \/ p.kind # "response" /\ f.stage = p.dir + 3
  <2> DEFINE a == ndpi_parse_packet_line_info(f, p)
  <2>1. Writes(f, a, m) /\ HttpShape(a)
    BY <1>2, Zenon DEF Writes, HttpShape, SameControl, ndpi_parse_packet_line_info
  <2> HIDE DEF a
  <2>2. Writes(a, check_content_type_and_change_protocol(a, p, m), m)
    BY <2>1, WritesHeaders, Zenon
  <2>3. Writes(f, check_content_type_and_change_protocol(a, p, m), m)
    BY <2>1, <2>2, WritesTrans, Zenon
  <2>4. g = check_content_type_and_change_protocol(a, p, m)
    BY <1>1, <1>6 DEF ndpi_check_http_tcp, MoreHeaders, is_request, is_response, a
  <2> QED
    BY <1>6, <2>3, <2>4, Zenon DEF Reads
<1>7. CASE f.stage \in {1, 2} /\ f.stage # p.dir + 1 /\ p.kind # "response"
  BY <1>1, <1>7 DEF ndpi_check_http_tcp, is_response
<1>8. CASE f.stage \in {1, 2} /\ f.stage # p.dir + 1 /\ p.kind = "response"
  <2> DEFINE a == process_response(f, p, m)
  <2>1. Writes(f, a, m)
    BY <1>2, ResponseBegun, Zenon
  <2> HIDE DEF a
  <2>2. g = [a EXCEPT !.stage = 0, !.answered = TRUE]
    BY <1>1, <1>8 DEF ndpi_check_http_tcp, is_response, a
  <2>3. HttpTyped(a) /\ SameCount(f, a)
    BY <1>2, <2>1, WritesTyped, Zenon
  <2> HIDE DEF g
  <2>4. /\ DOMAIN g = DOMAIN a /\ g.meta = a.meta /\ g.risk = a.risk /\ SameCount(a, g)
        /\ g.stage = 0 /\ g.asym = a.asym /\ g.answered = TRUE /\ g.extra = a.extra
        /\ g.lower = a.lower
    BY <2>2, <2>3, Zenon DEF HttpTyped, HttpShape, SameCount
  <2>5. HttpTyped(g) /\ SameCount(f, g)
    <3>1. HttpShape(g) /\ g.answered \in BOOLEAN
      BY Zenon, <2>3, <2>4 DEF HttpTyped, HttpShape
    <3> QED
      BY <2>3, <2>4, <3>1 DEF HttpTyped, SameCount
  <2>6. g.lower # "UNKNOWN" /\ g.extra = f.extra
    BY <1>8, <2>1, <2>4 DEF Writes, OpenFlow
  <2>7. Answers(f, g, p)
    BY <1>8, <2>4, <2>5, <2>6, Zenon DEF Answers
  <2> QED
    BY <2>7, Zenon DEF g
<1>9. CASE f.stage \in {3, 4} /\ f.stage # p.dir + 3
  <2> DEFINE r == reset(f)
             a == [r EXCEPT !.stage = 0]
  <2>1. /\ HttpShape(r) /\ OfMessage(r, 0) /\ SameControl(f, r) /\ r.code = "none"
        /\ r.extra = f.extra /\ r.lower = f.lower /\ r.upper = f.upper
        /\ r.meta["host_server_name"] = f.meta["host_server_name"]
    BY <1>2, ResetClears, Zenon
  <2> HIDE DEF r
  <2>2. /\ DOMAIN a = DOMAIN r /\ a.meta = r.meta /\ a.risk = r.risk /\ SameCount(r, a)
        /\ a.stage = 0 /\ a.asym = r.asym /\ a.answered = r.answered /\ a.extra = r.extra
        /\ a.lower = r.lower /\ a.code = r.code
    BY <2>1, Zenon DEF HttpShape, SameCount
  <2> HIDE DEF a
  <2>3. HttpTyped(a) /\ SameCount(f, a) /\ OfMessage(a, 0)
    BY <1>2, <2>1, <2>2 DEF HttpTyped, HttpShape, SameControl, SameCount, OfMessage
  <2>4. a.asym = f.asym /\ a.answered = f.answered /\ a.lower = f.lower /\ a.lower # "UNKNOWN"
    BY <1>9, <2>1, <2>2 DEF SameControl, OpenFlow
  <2>5. g = FirstMessage(a, p, m)
    BY <1>1, <1>9 DEF ndpi_check_http_tcp, r, a
  <2>6. CASE p.kind # "data"
    <3>1. Opens(a, g, p, m)
      BY <2>3, <2>4, <2>5, <2>6, FirstOpens, Zenon DEF Named
    <3> HIDE DEF g
    <3>2. Opens(f, g, p, m)
      BY <2>3, <2>4, <3>1, Zenon DEF Opens, SameCount
    <3> QED
      BY <1>9, <3>2, Zenon DEF g
  <2>7. CASE p.kind = "data"
    <3>1. g = [a EXCEPT !.excluded = TRUE]
      BY <2>5, <2>7, Zenon DEF FirstMessage, is_request, is_response
    <3> HIDE DEF g
    <3>2. /\ DOMAIN g = DOMAIN a /\ g.meta = a.meta /\ g.risk = a.risk /\ SameCount(a, g)
          /\ g.stage = a.stage /\ g.asym = a.asym /\ g.answered = a.answered
          /\ g.extra = a.extra /\ g.lower = a.lower /\ g.code = a.code /\ g.excluded = TRUE
      BY <2>3, <3>1, Zenon DEF HttpTyped, HttpShape, SameCount
    <3>3. HttpTyped(g) /\ SameCount(f, g) /\ OfMessage(g, 0)
      BY <2>3, <3>2, Zenon DEF HttpTyped, HttpShape, SameCount, OfMessage
    <3>4. GivesUp(f, g, p)
      BY <1>9, <2>1, <2>2, <2>4, <2>7, <3>2, <3>3 DEF GivesUp
    <3> QED
      BY <3>4, Zenon DEF g
  <2> QED
    BY <2>6, <2>7, Zenon
<1> QED
  BY <1>1, <1>3, <1>4, <1>5, <1>6, <1>7, <1>8, <1>9

-----------------------------------------------------------------------------
(* One packet.                                                             *)

\* A flow whose packets are still looked at.
Followed(f) == (f.lower = "UNKNOWN" /\ ~f.excluded) \/ f.extra

\* r is f with the packet p of message m counted.
Received(f, r, p, m) ==
    /\ m \in Nat /\ HttpTyped(r) /\ r.n = f.n + 1 /\ r.dirs = f.dirs \union {p.dir}
    /\ r.messages = (IF p.kind = "data" THEN f.messages ELSE f.messages + 1)
    /\ r.of[p.dir] = m /\ \A d \in {0, 1} \ {p.dir} : r.of[d] = f.of[d]
    /\ p.kind = "data" => m = f.of[p.dir]
    /\ r.meta = f.meta /\ r.risk = f.risk /\ r.stage = f.stage /\ r.asym = f.asym
    /\ r.lower = f.lower /\ r.upper = f.upper /\ r.extra = f.extra /\ r.checked = f.checked
    /\ r.excluded = f.excluded /\ r.code = f.code /\ r.answered = f.answered
    /\ r.parse_response = f.parse_response

\* The arrival of a packet.
LEMMA PacketReceived ==
    ASSUME NEW f, NEW p \in HttpPacket, HttpTyped(f)
    PROVE  Received(f, HttpReceived(f, p), p, HttpNumber(f, p))
<1>1. p.dir \in {0, 1}
  BY HttpAssumption, Zenon DEF HttpPacketType
<1> DEFINE m == HttpNumber(f, p)
           r == HttpReceived(f, p)
<1>2. m \in Nat /\ (p.kind = "data" => m = f.of[p.dir])
  BY <1>1 DEF HttpNumber, HttpTyped
<1> HIDE DEF m
<1>3. /\ DOMAIN r = DOMAIN f /\ r.n = f.n + 1 /\ r.dirs = f.dirs \union {p.dir}
      /\ r.messages = (IF p.kind = "data" THEN f.messages ELSE f.messages + 1)
      /\ r.of = [f.of EXCEPT ![p.dir] = m]
      /\ r.meta = f.meta /\ r.risk = f.risk /\ r.stage = f.stage /\ r.asym = f.asym
      /\ r.lower = f.lower /\ r.upper = f.upper /\ r.extra = f.extra /\ r.checked = f.checked
      /\ r.excluded = f.excluded /\ r.code = f.code /\ r.answered = f.answered
      /\ r.parse_response = f.parse_response
  BY Zenon DEF HttpReceived, HttpTyped, HttpShape, m
<1> HIDE DEF r
<1>4. /\ r.of \in [{0, 1} -> Nat] /\ r.of[p.dir] = m
      /\ \A d \in {0, 1} \ {p.dir} : r.of[d] = f.of[d]
  BY <1>1, <1>2, <1>3 DEF HttpTyped
<1>5. HttpTyped(r)
  <2>1. HttpShape(r)
    BY <1>3, Zenon DEF HttpTyped, HttpShape
  <2> QED
    BY <1>1, <1>3, <1>4, <2>1 DEF HttpTyped
<1>6. Received(f, r, p, m)
  BY <1>2, <1>3, <1>4, <1>5, Zenon DEF Received
<1> QED
  BY <1>6, Zenon DEF r, m

\* A flow that is followed is one of HTTP, or fresh.
LEMMA ReceivedOpen ==
    ASSUME NEW f, NEW r, NEW p, NEW m, HttpInv(f), Followed(f), Received(f, r, p, m)
    PROVE  OpenFlow(r)
<1>1. f.lower = "UNKNOWN" => f.upper = "UNKNOWN" /\ f.stage = 0
  BY Zenon DEF HttpInv, HttpFresh, Followed
<1>2. f.lower # "UNKNOWN" => f.extra = TRUE
  BY Zenon DEF Followed, HttpInv, HttpTyped
<1>3. f.stage = 0 /\ ~f.answered => OfMessage(f, 0)
  BY Zenon DEF HttpInv, HttpCurrent
<1>4. OfMessage(f, 0) => OfMessage(r, 0)
  BY Zenon DEF Received, OfMessage
<1> QED
  BY <1>1, <1>2, <1>3, <1>4, Zenon DEF OpenFlow, Named, Received

\* While only one side is heard, the packet is of that side.
LEMMA SameSide ==
    ASSUME NEW f, NEW r, NEW p \in HttpPacket, NEW m, HttpInv(f), Received(f, r, p, m),
           HttpOneSided(r)
    PROVE  /\ r.dirs = {p.dir}
           /\ f.lower # "UNKNOWN"
              => /\ f.stage \in {p.dir + 1, p.dir + 3} /\ f.messages >= 1
                 /\ f.asym = IF f.messages < 3 THEN f.messages - 1 ELSE 2
<1>1. p.dir \in {0, 1}
  BY HttpAssumption, Zenon DEF HttpPacketType
<1>2. r.dirs = {p.dir} /\ HttpOneSided(f) /\ f.dirs \subseteq {p.dir}
  BY <1>1 DEF Received, HttpOneSided, HttpTyped, HttpInv
<1> QED
  BY <1>2, Zenon DEF HttpInv, HttpAlone

\* What a packet leaves before the end of the extra dissection is decided.
Handled(r, g, p) ==
    /\ HttpTyped(g) /\ SameCount(r, g)
    /\ HttpCurrent(g) /\ HttpSides(g) /\ HttpAlone(g)
    /\ g.lower = "UNKNOWN" => ~g.extra /\ g.excluded /\ ~HttpComplete(g)
    /\ g.lower # "UNKNOWN" => g.extra
    /\ HttpComplete(g) /\ ~g.answered => g.stage \in {p.dir + 1, p.dir + 3}

\* A flow that is followed lacks something, and the packet alone does not bring it.
LEMMA NotYet ==
    ASSUME NEW f, NEW r, NEW p, NEW m, HttpInv(f), Followed(f), Received(f, r, p, m)
    PROVE  ~HttpComplete(r)
<1>1. HttpOneSided(r) => HttpOneSided(f)
  BY Zenon DEF Received, HttpOneSided
<1>2. ~HttpComplete(f)
  <2>1. CASE f.extra
    BY <2>1, Zenon DEF HttpInv, HttpLook
  <2>2. CASE f.lower = "UNKNOWN" /\ ~f.excluded
    <3>1. f.code = "none" /\ f.meta["host_server_name"] = 0 /\ f.asym = 0
      BY <2>2, Zenon DEF HttpInv, HttpFresh
    <3> QED
      BY <3>1 DEF HttpComplete
  <2> QED
    BY <2>1, <2>2, Zenon DEF Followed
<1> QED
  BY <1>1, <1>2, Zenon DEF HttpComplete, Received

\* A message at a new stage.
LEMMA OpensHandled ==
    ASSUME NEW f, NEW r, NEW g, NEW p \in HttpPacket, NEW m, HttpInv(f), Followed(f),
           Received(f, r, p, m), Opens(r, g, p, m),
           r.stage = 0 \/ (r.stage \in {3, 4} /\ r.stage # p.dir + 3)
    PROVE  Handled(r, g, p)
<1>1. p.dir \in {0, 1}
  BY HttpAssumption, Zenon DEF HttpPacketType
<1>2. /\ HttpTyped(g) /\ SameCount(r, g) /\ g.lower # "UNKNOWN" /\ g.extra
      /\ g.stage \in {p.dir + 1, p.dir + 3} /\ g.asym = r.asym
  BY Zenon DEF Opens
<1>3. HttpCurrent(g)
  <2>1. \A d \in {0, 1} : g.stage \in {d + 1, d + 3} => d = p.dir
    BY <1>1, <1>2
  <2>2. g.stage # 0
    BY <1>1, <1>2
  <2>3. g.of[p.dir] = m
    BY <1>2, Zenon DEF SameCount, Received
  <2>4. ~g.answered => OfMessage(g, m)
    BY Zenon DEF Opens
  <2> QED
    BY <2>1, <2>2, <2>3, <2>4, Zenon DEF HttpCurrent
<1>4. HttpSides(g)
  BY <1>1 DEF HttpSides, Opens
<1>5. HttpAlone(g)
  <2> SUFFICES ASSUME HttpOneSided(g)
               PROVE  /\ g.dirs = {p.dir} /\ g.messages >= 1
                      /\ g.asym = IF g.messages < 3 THEN g.messages - 1 ELSE 2
    BY <1>1, <1>2, Zenon DEF HttpAlone
  <2>1. HttpOneSided(r)
    BY <1>2, Zenon DEF SameCount, HttpOneSided
  <2>2. r.dirs = {p.dir} /\ (f.lower # "UNKNOWN" => f.stage \in {p.dir + 1, p.dir + 3})
    BY <2>1, SameSide, Zenon
  <2>3. f.lower = "UNKNOWN"
    BY <1>1, <2>2 DEF Received
  <2>4. f.messages = 0 /\ f.asym = 0
    BY <2>3, Zenon DEF HttpInv, HttpFresh, Followed
  <2>5. p.kind # "data"
    BY Zenon DEF Opens
  <2>6. r.messages = 1 /\ r.asym = 0
    BY <2>4, <2>5 DEF Received
  <2> QED
    BY <1>2, <2>2, <2>6 DEF SameCount
<1> QED
  BY <1>2, <1>3, <1>4, <1>5, Zenon DEF Handled

\* One more message of the same side.
LEMMA RepeatsHandled ==
    ASSUME NEW f, NEW r, NEW g, NEW p \in HttpPacket, NEW m, HttpInv(f), Followed(f),
           Received(f, r, p, m), Repeats(r, g, p, m)
    PROVE  Handled(r, g, p)
<1>1. p.dir \in {0, 1}
  BY HttpAssumption, Zenon DEF HttpPacketType
<1>2. /\ HttpTyped(g) /\ SameCount(r, g) /\ g.lower # "UNKNOWN" /\ g.extra
      /\ g.stage \in {p.dir + 1, p.dir + 3} /\ g.stage = f.stage
  BY Zenon DEF Repeats, Received
<1>3. HttpCurrent(g)
  <2>1. \A d \in {0, 1} : g.stage \in {d + 1, d + 3} => d = p.dir
    BY <1>1, <1>2
  <2>2. g.stage # 0
    BY <1>1, <1>2
  <2>3. g.of[p.dir] = m
    BY <1>2, Zenon DEF SameCount, Received
  <2>4. OfMessage(g, m)
    BY Zenon DEF Repeats
  <2> QED
    BY <2>1, <2>2, <2>3, <2>4, Zenon DEF HttpCurrent
<1>4. HttpSides(g)
  BY <1>2, Zenon DEF HttpSides, HttpInv
<1>5. HttpAlone(g)
  <2> SUFFICES ASSUME HttpOneSided(g)
               PROVE  /\ g.dirs = {p.dir} /\ g.messages >= 1
                      /\ g.asym = IF g.messages < 3 THEN g.messages - 1 ELSE 2
    BY <1>1, <1>2, Zenon DEF HttpAlone
  <2>1. HttpOneSided(r)
    BY <1>2, Zenon DEF SameCount, HttpOneSided
  <2>2. f.lower # "UNKNOWN"
    <3>1. f.stage # 0
      BY <1>1, <1>2
    <3> QED
      BY <3>1, Zenon DEF HttpInv, HttpFresh, Followed
  <2>3. /\ r.dirs = {p.dir} /\ f.messages >= 1
        /\ f.asym = IF f.messages < 3 THEN f.messages - 1 ELSE 2
    BY <2>1, <2>2, SameSide, Zenon
  <2>4. r.messages = f.messages + 1 /\ r.asym = f.asym /\ f.messages \in Nat
    BY Zenon DEF Repeats, Received, HttpInv, HttpTyped
  <2>5. g.asym = (IF f.asym < 2 THEN f.asym + 1 ELSE 2)
    BY <2>4, Zenon DEF Repeats
  <2> QED
    BY <1>2, <2>3, <2>4, <2>5 DEF SameCount
<1> QED
  BY <1>2, <1>3, <1>4, <1>5, Zenon DEF Handled

\* A packet of the message that is being read.
LEMMA ReadsHandled ==
    ASSUME NEW f, NEW r, NEW g, NEW p \in HttpPacket, NEW m, HttpInv(f), Followed(f),
           Received(f, r, p, m), Reads(r, g, p, m)
    PROVE  Handled(r, g, p)
<1>1. p.dir \in {0, 1} /\ p.kind \in {"request", "response", "data"}
  BY HttpAssumption, Zenon DEF HttpPacketType
<1>2. HttpTyped(g) /\ SameCount(r, g)
  BY WritesTyped, Zenon DEF Reads, Received
<1>3. /\ f.stage \in {p.dir + 1, p.dir + 3} /\ g.stage = f.stage /\ f.stage # 0
      /\ g.asym = f.asym /\ g.answered = f.answered
  BY <1>1 DEF Reads, Received, Writes, SameControl
<1>4. f.lower # "UNKNOWN" /\ f.extra = TRUE
  BY <1>3, Zenon DEF HttpInv, HttpFresh, Followed, HttpTyped
<1>5. g.lower # "UNKNOWN" /\ g.extra
  BY <1>4, Zenon DEF Reads, Writes, Received
<1>6. p.kind = "data"
  <2>1. CASE p.kind # "request" /\ f.stage = p.dir + 1
    <3>1. PICK q \in HttpPacket : q.kind = "request" /\ q.dir = p.dir
      BY <1>1, <2>1, Zenon DEF HttpInv, HttpSides
    <3> QED
      BY <1>1, <2>1, <3>1, HttpSidesAssumption, Zenon
  <2>2. CASE p.kind # "response" /\ f.stage = p.dir + 3
    <3>1. PICK q \in HttpPacket : q.kind = "response" /\ q.dir = p.dir
      BY <1>1, <2>2, Zenon DEF HttpInv, HttpSides
    <3> QED
      BY <1>1, <2>2, <3>1, HttpSidesAssumption, Zenon
  <2> QED
    BY <2>1, <2>2, Zenon DEF Reads, Received
<1>7. HttpCurrent(g)
  <2> SUFFICES ASSUME ~g.answered PROVE OfMessage(g, g.of[p.dir])
    <3>1. \A d \in {0, 1} : g.stage \in {d + 1, d + 3} => d = p.dir
      BY <1>1, <1>3
    <3> QED
      BY <1>3, <3>1, Zenon DEF HttpCurrent
  <2>1. m = f.of[p.dir] /\ g.of[p.dir] = m
    BY <1>2, <1>6, Zenon DEF Received, SameCount
  <2>2. OfMessage(f, m)
    BY <1>1, <1>3, <2>1, Zenon DEF HttpInv, HttpCurrent
  <2>3. OfMessage(r, m)
    BY <2>2, Zenon DEF OfMessage, Received
  <2>4. OfMessage(g, m)
    BY <2>3, WrittenOf, Zenon DEF Reads, Writes
  <2> QED
    BY <2>1, <2>4, Zenon
<1>8. HttpSides(g)
  BY <1>3, Zenon DEF HttpSides, HttpInv
<1>9. HttpAlone(g)
  <2> SUFFICES ASSUME HttpOneSided(g)
               PROVE  /\ g.dirs = {p.dir} /\ g.messages >= 1
                      /\ g.asym = IF g.messages < 3 THEN g.messages - 1 ELSE 2
    BY <1>1, <1>3, Zenon DEF HttpAlone
  <2>1. HttpOneSided(r)
    BY <1>2, Zenon DEF SameCount, HttpOneSided
  <2>2. /\ r.dirs = {p.dir} /\ f.messages >= 1
        /\ f.asym = IF f.messages < 3 THEN f.messages - 1 ELSE 2
    BY <1>4, <2>1, SameSide, Zenon
  <2>3. r.messages = f.messages
    BY <1>6, Zenon DEF Received
  <2> QED
    BY <1>2, <1>3, <2>2, <2>3, Zenon DEF SameCount
<1> QED
  BY <1>2, <1>3, <1>5, <1>7, <1>8, <1>9, Zenon DEF Handled

\* A response that ends the exchange.
LEMMA AnswersHandled ==
    ASSUME NEW f, NEW r, NEW g, NEW p \in HttpPacket, NEW m, HttpInv(f), Followed(f),
           Received(f, r, p, m), Answers(r, g, p)
    PROVE  Handled(r, g, p)
<1>1. p.dir \in {0, 1}
  BY HttpAssumption, Zenon DEF HttpPacketType
<1>2. HttpTyped(g) /\ SameCount(r, g) /\ g.lower # "UNKNOWN" /\ g.stage = 0 /\ g.answered
  BY Zenon DEF Answers
<1>3. f.stage \in {1, 2} /\ f.stage # p.dir + 1
  BY Zenon DEF Answers, Received
<1>4. f.lower # "UNKNOWN" /\ f.extra = TRUE
  BY <1>3 DEF HttpInv, HttpFresh, Followed, HttpTyped
<1>5. g.extra
  BY <1>4, Zenon DEF Answers, Received
<1>6. HttpCurrent(g) /\ HttpSides(g)
  BY <1>2 DEF HttpCurrent, HttpSides
<1>7. ~HttpOneSided(r)
  BY <1>1, <1>3, <1>4, SameSide
<1>8. HttpAlone(g)
  BY <1>2, <1>7, Zenon DEF HttpAlone, HttpOneSided, SameCount
<1> QED
  BY <1>2, <1>5, <1>6, <1>8, Zenon DEF Handled

\* A packet that begins nothing.
LEMMA GivesUpHandled ==
    ASSUME NEW f, NEW r, NEW g, NEW p \in HttpPacket, NEW m, HttpInv(f), Followed(f),
           Received(f, r, p, m), GivesUp(r, g, p)
    PROVE  Handled(r, g, p)
<1>1. p.dir \in {0, 1}
  BY HttpAssumption, Zenon DEF HttpPacketType
<1>2. /\ HttpTyped(g) /\ SameCount(r, g) /\ g.lower = f.lower /\ g.stage = 0 /\ g.excluded
      /\ g.extra = f.extra /\ g.asym = f.asym
  BY Zenon DEF GivesUp, Received
<1>3. f.lower = "UNKNOWN" => ~f.extra
  BY Zenon DEF HttpInv, HttpFresh
<1>4. f.lower # "UNKNOWN" => f.extra
  BY Zenon DEF Followed
<1>5. HttpCurrent(g) /\ HttpSides(g)
  BY <1>2 DEF HttpCurrent, HttpSides, GivesUp
<1>6. HttpAlone(g)
  <2> SUFFICES ASSUME HttpOneSided(g), f.lower # "UNKNOWN" PROVE FALSE
    BY <1>2, Zenon DEF HttpAlone
  <2>1. f.stage \in {p.dir + 1, p.dir + 3}
    BY <1>2, SameSide, Zenon DEF HttpOneSided, SameCount
  <2> QED
    BY <1>1, <2>1 DEF GivesUp, Received
<1>7. ~HttpComplete(g)
  <2>1. ~HttpComplete(r)
    BY NotYet, Zenon
  <2>2. HttpOneSided(g) <=> HttpOneSided(r)
    BY <1>2, Zenon DEF HttpOneSided, SameCount
  <2>3. CASE g.code = r.code
    BY <2>1, <2>2, <2>3, Zenon DEF HttpComplete, GivesUp, SameCount
  <2>4. CASE g.code = "none"
    BY <2>1, <2>2, <2>4, Zenon DEF HttpComplete, GivesUp, SameCount
  <2> QED
    BY <2>3, <2>4, Zenon DEF GivesUp
<1> QED
  BY <1>2, <1>3, <1>4, <1>5, <1>6, <1>7, Zenon DEF Handled

\* A packet of the other side that is not looked at.
LEMMA IgnoredHandled ==
    ASSUME NEW f, NEW r, NEW p \in HttpPacket, NEW m, HttpInv(f), Followed(f),
           Received(f, r, p, m), r.stage \in {1, 2}, r.stage # p.dir + 1
    PROVE  Handled(r, r, p)
<1>1. p.dir \in {0, 1}
  BY HttpAssumption, Zenon DEF HttpPacketType
<1>2. HttpTyped(r) /\ SameCount(r, r) /\ f.stage = r.stage
  BY Zenon DEF Received, SameCount
<1>3. f.lower # "UNKNOWN" /\ f.extra
  BY <1>2 DEF HttpInv, HttpFresh, Followed
<1>4. r.lower # "UNKNOWN" /\ r.extra
  BY <1>3, Zenon DEF Received
<1>5. HttpCurrent(r)
  <2>1. PICK d \in {0, 1} : r.stage = d + 1 /\ d # p.dir
    BY <1>1
  <2>2. \A c \in {0, 1} : r.stage \in {c + 1, c + 3} => c = d
    BY <2>1
  <2>3. r.of[d] = f.of[d]
    BY <2>1, Zenon DEF Received
  <2>4. ~f.answered => OfMessage(f, f.of[d])
    BY <1>2, <2>1, Zenon DEF HttpInv, HttpCurrent
  <2>5. ~r.answered => OfMessage(r, r.of[d])
    BY <2>3, <2>4, Zenon DEF OfMessage, Received
  <2> QED
    BY <2>2, <2>5 DEF HttpCurrent
<1>6. HttpSides(r)
  BY <1>2, Zenon DEF HttpSides, HttpInv
<1>7. HttpAlone(r)
  BY <1>1, <1>2, <1>3, SameSide DEF HttpAlone
<1>8. ~HttpComplete(r)
  BY NotYet, Zenon
<1> QED
  BY <1>2, <1>4, <1>5, <1>6, <1>7, <1>8, Zenon DEF Handled

\* Whatever the packet is.
LEMMA PacketHandled ==
    ASSUME NEW f, NEW p \in HttpPacket, HttpInv(f), Followed(f)
    PROVE  LET r == HttpReceived(f, p)
               m == HttpNumber(f, p)
           IN  Handled(r, ndpi_check_http_tcp(r, p, m), p) /\ Received(f, r, p, m)
<1> DEFINE r == HttpReceived(f, p)
           m == HttpNumber(f, p)
           g == ndpi_check_http_tcp(r, p, m)
<1>1. Received(f, r, p, m)
  BY PacketReceived, Zenon DEF HttpInv
<1> HIDE DEF r, m
<1>2. OpenFlow(r)
  BY <1>1, ReceivedOpen, Zenon
<1>3. m \in Nat
  BY <1>1, Zenon DEF Received
<1>4. \/ Opens(r, g, p, m) /\ (r.stage = 0 \/ (r.stage \in {3, 4} /\ r.stage # p.dir + 3))
      \/ Repeats(r, g, p, m) \/ Reads(r, g, p, m) \/ Answers(r, g, p)
      \/ GivesUp(r, g, p)
      \/ g = r /\ r.stage \in {1, 2} /\ r.stage # p.dir + 1
  BY <1>2, <1>3, TcpCases, Zenon
<1> HIDE DEF g
<1>5. Handled(r, g, p)
  BY <1>1, <1>4, OpensHandled, RepeatsHandled, ReadsHandled, AnswersHandled, GivesUpHandled,
     IgnoredHandled, Zenon
<1> QED
  BY <1>1, <1>5, Zenon DEF g, r, m

\* After the end of the extra dissection was decided.
Decided(f, e) ==
    /\ HttpTyped(e) /\ HttpCurrent(e) /\ HttpSides(e) /\ HttpAlone(e)
    /\ e.n = f.n + 1 /\ e.checked = f.checked
    /\ e.lower = "UNKNOWN" => ~e.extra /\ e.excluded
    /\ e.lower # "UNKNOWN" => (e.extra <=> ~HttpComplete(e))

\* The dissector, whole.
LEMMA SearchDecided ==
    ASSUME NEW f, NEW p \in HttpPacket, HttpInv(f), Followed(f)
    PROVE  Decided(f, ndpi_search_http_tcp(HttpReceived(f, p), p, HttpNumber(f, p)))
<1> DEFINE r == HttpReceived(f, p)
           m == HttpNumber(f, p)
           g == ndpi_check_http_tcp(r, p, m)
           e == HttpEnded(g, m)
<1>1. Handled(r, g, p) /\ Received(f, r, p, m)
  BY PacketHandled, Zenon
<1>2. ~(r.n > 20)
  <2>1. f.n \in Nat /\ f.checked \in Nat
    BY Zenon DEF HttpInv, HttpTyped
  <2>2. f.n <= 8
    BY <2>1 DEF HttpInv, HttpFresh, HttpLook, Followed, http_max_extra
  <2>3. r.n = f.n + 1
    BY <1>1, Zenon DEF Received
  <2> QED
    BY <2>1, <2>2, <2>3
<1>3. ndpi_search_http_tcp(r, p, m) = e
  BY <1>2, Zenon DEF ndpi_search_http_tcp
<1> HIDE DEF r, m, g
<1>4. HttpTyped(g) /\ m \in Nat /\ g.of[p.dir] = m
  BY <1>1, Zenon DEF Handled, Received, SameCount
<1>5. CASE ~HttpComplete(g)
  <2>1. e = g
    BY <1>5, Zenon DEF HttpEnded
  <2> HIDE DEF e
  <2>2. g.n = f.n + 1 /\ g.checked = f.checked
    BY <1>1, Zenon DEF Handled, SameCount, Received
  <2>3. Decided(f, g)
    BY <1>1, <1>5, <2>2, Zenon DEF Decided, Handled
  <2> QED
    BY <1>3, <2>1, <2>3, Zenon DEF r, m
<1>6. CASE HttpComplete(g)
  <2>1. /\ DOMAIN e = DOMAIN g /\ e.meta = g.meta /\ SameCount(g, e) /\ e.stage = g.stage
        /\ e.asym = g.asym /\ e.answered = g.answered /\ e.extra = FALSE /\ e.lower = g.lower
        /\ e.code = g.code /\ e.excluded = g.excluded
    BY <1>4, <1>6, Zenon DEF HttpEnded, SetRiskIf, SetRisk, HttpTyped, HttpShape, SameCount
  <2>2. e.risk \in [HttpRisk -> Nat] /\ \A x \in HttpRisk : e.risk[x] \in {g.risk[x], m}
    BY Zenon, <1>4, <1>6 DEF HttpEnded, SetRiskIf, SetRisk, HttpTyped, HttpShape
  <2> HIDE DEF e
  <2>3. HttpTyped(e)
    BY Zenon, <1>4, <2>1, <2>2 DEF HttpTyped, HttpShape, SameCount
  <2>4. HttpOneSided(e) <=> HttpOneSided(g)
    BY <2>1, Zenon DEF HttpOneSided, SameCount
  <2>5. HttpComplete(e)
    BY <1>6, <2>1, <2>4, Zenon DEF HttpComplete, SameCount
  <2>6. HttpSides(e) /\ HttpAlone(e)
    BY <1>1, <2>1, <2>4 DEF Handled, HttpSides, HttpAlone, SameCount
  <2>7. HttpCurrent(e)
    <3> SUFFICES ASSUME ~e.answered PROVE HttpCurrent(e)
      BY Zenon DEF HttpCurrent
    <3>1. g.stage \in {p.dir + 1, p.dir + 3} /\ ~g.answered
      BY <1>1, <1>6, <2>1, Zenon DEF Handled
    <3>2. p.dir \in {0, 1}
      BY HttpAssumption, Zenon DEF HttpPacketType
    <3>3. OfMessage(g, m)
      BY <1>1, <1>4, <3>1, <3>2, Zenon DEF Handled, HttpCurrent
    <3>4. \A x \in HttpResetRisk : x \in HttpRisk
      BY Zenon DEF HttpRisk
    <3>5. OfMessage(e, m)
      BY <2>1, <2>2, <3>3, <3>4, Zenon DEF OfMessage
    <3>6. \A d \in {0, 1} : e.stage \in {d + 1, d + 3} => d = p.dir
      BY <2>1, <3>1, <3>2
    <3>7. e.stage # 0 /\ e.of[p.dir] = m
      BY <1>4, <2>1, <3>1, <3>2 DEF SameCount
    <3> QED
      BY <3>5, <3>6, <3>7, Zenon DEF HttpCurrent
  <2>8. e.n = f.n + 1 /\ e.checked = f.checked
    BY <1>1, <2>1, Zenon DEF Handled, SameCount, Received
  <2>9. g.lower # "UNKNOWN"
    BY <1>1, <1>6, Zenon DEF Handled
  <2>10. Decided(f, e)
    BY <2>1, <2>3, <2>5, <2>6, <2>7, <2>8, <2>9, Zenon DEF Decided
  <2> QED
    BY <1>3, <2>10, Zenon DEF r, m
<1> QED
  BY <1>5, <1>6, Zenon

\* The search for a subprotocol changes the names only.
LEMMA SubprotocolDecided ==
    ASSUME NEW f, NEW e, NEW p, Decided(f, e)
    PROVE  LET g == HttpSubprotocol(e, p)
           IN  Decided(f, g) /\ (g.extra <=> e.extra) /\ (g.lower = "UNKNOWN" <=> e.lower = "UNKNOWN")
<1> DEFINE g == HttpSubprotocol(e, p)
<1>1. /\ DOMAIN g = DOMAIN e /\ g.meta = e.meta /\ g.risk = e.risk /\ SameCount(e, g)
      /\ g.stage = e.stage /\ g.asym = e.asym /\ g.answered = e.answered /\ g.extra = e.extra
      /\ g.code = e.code /\ g.excluded = e.excluded
      /\ (g.lower = "UNKNOWN" <=> e.lower = "UNKNOWN")
  BY Zenon DEF HttpSubprotocol, SetProtocol, Decided, HttpTyped, HttpShape, SameCount
<1> HIDE DEF g
<1>2. HttpTyped(g)
  BY <1>1, Zenon DEF Decided, HttpTyped, HttpShape, SameCount
<1>3. HttpCurrent(g) /\ HttpSides(g)
  BY <1>1 DEF Decided, HttpCurrent, HttpSides, OfMessage, SameCount
<1>4. (HttpComplete(g) <=> HttpComplete(e)) /\ (HttpOneSided(g) <=> HttpOneSided(e))
  BY <1>1, Zenon DEF HttpComplete, HttpOneSided, SameCount
<1>5. HttpAlone(g)
  BY <1>1, <1>4, Zenon DEF Decided, HttpAlone, SameCount
<1>6. Decided(f, g)
  BY <1>1, <1>2, <1>3, <1>4, <1>5, Zenon DEF Decided, SameCount
<1> QED
  BY <1>1, <1>6, Zenon DEF g

\* Counting an extra packet.
LEMMA CountedInv ==
    ASSUME NEW e, HttpTyped(e), HttpCurrent(e), HttpSides(e), HttpAlone(e), e.extra = TRUE,
           e.lower # "UNKNOWN", ~HttpComplete(e), e.n = e.checked + 2, e.checked < http_max_extra
    PROVE  HttpInv(HttpCounted(e))
<1> DEFINE g == HttpCounted(e)
<1>1. /\ DOMAIN g = DOMAIN e /\ g.meta = e.meta /\ g.risk = e.risk /\ g.n = e.n
      /\ g.dirs = e.dirs /\ g.messages = e.messages /\ g.of = e.of
      /\ g.parse_response = e.parse_response /\ g.checked = e.checked + 1
      /\ g.stage = e.stage /\ g.asym = e.asym /\ g.answered = e.answered
      /\ g.code = e.code /\ g.lower = e.lower
      /\ g.extra = (e.checked + 1 # http_max_extra)
  BY Zenon DEF HttpCounted, HttpTyped, HttpShape
<1> HIDE DEF g
<1>2. HttpTyped(g)
  <2>1. g.extra \in BOOLEAN /\ g.checked \in Nat
    BY <1>1 DEF HttpTyped
  <2> QED
    BY <1>1, <2>1, Zenon DEF HttpTyped, HttpShape
<1>3. HttpCurrent(g) /\ HttpSides(g)
  BY <1>1 DEF HttpCurrent, HttpSides, OfMessage
<1>4. (HttpComplete(g) <=> HttpComplete(e)) /\ (HttpOneSided(g) <=> HttpOneSided(e))
  BY <1>1, Zenon DEF HttpComplete, HttpOneSided
<1>5. HttpAlone(g)
  BY <1>1, <1>4, Zenon DEF HttpAlone
<1>6. HttpFresh(g)
  BY <1>1, Zenon DEF HttpFresh
<1>7. e.checked \in Nat
  BY Zenon DEF HttpTyped
<1>8. HttpLook(g)
  <2>1. g.extra <=> g.checked # http_max_extra
    BY Zenon, <1>1
  <2>2. e.checked < 8 /\ e.n = e.checked + 2 /\ g.checked = e.checked + 1 /\ g.n = e.n
    BY <1>1, Zenon DEF http_max_extra
  <2> QED
    BY <1>4, <1>7, <2>1, <2>2 DEF HttpLook, http_max_extra
<1> QED
  BY <1>2, <1>3, <1>5, <1>6, <1>8, Zenon DEF HttpInv, g
-----------------------------------------------------------------------------
(* The theorems.                                                           *)

\* The two kinds of a first state.
LEMMA HttpInitInv == HttpInit => HttpInv(h)
<1> SUFFICES ASSUME NEW a \in BOOLEAN, NEW b \in BOOLEAN PROVE HttpInv(NewHttp(a, b))
  BY DEF HttpInit
<1> DEFINE g == NewHttp(a, b)
<1>1. /\ g.meta = [x \in Field |-> 0] /\ g.risk = [x \in HttpRisk |-> 0] /\ g.stage = 0
      /\ g.asym = 0 /\ g.lower = "UNKNOWN" /\ g.upper = "UNKNOWN" /\ g.extra = FALSE
      /\ g.checked = 0 /\ g.n = 0 /\ g.dirs = {} /\ g.code = "none"
      /\ g.messages = 0 /\ g.of = [d \in {0, 1} |-> 0] /\ g.answered = FALSE
  BY Zenon DEF NewHttp
<1>2. HttpShape(g)
  BY Zenon DEF NewHttp, HttpShape
<1> HIDE DEF g
<1>3. HttpTyped(g)
  <2>1. g.extra \in BOOLEAN /\ g.answered \in BOOLEAN
    BY Zenon, <1>1
  <2>2. g.of \in [{0, 1} -> Nat] /\ g.dirs \in SUBSET {0, 1}
    BY <1>1
  <2> QED
    BY <1>1, <1>2, <2>1, <2>2 DEF HttpTyped
<1>4. HttpCurrent(g) /\ HttpSides(g)
  BY <1>1 DEF HttpCurrent, HttpSides, OfMessage, ResetField, Field, HttpRisk
<1>5. HttpAlone(g) /\ HttpLook(g)
  BY <1>1, Zenon DEF HttpAlone, HttpLook
<1>6. HttpFresh(g)
  BY <1>1, Zenon DEF HttpFresh, Field, StickyField
<1> QED
  BY <1>3, <1>4, <1>5, <1>6, Zenon DEF HttpInv, g

\* The dissection of the first packet, of an extra one, and an extra one that is bare.
LEMMA HttpStep == HttpInv(h) /\ [HttpNext]_h => HttpInv(h')
<1> SUFFICES ASSUME HttpInv(h), [HttpNext]_h PROVE HttpInv(h')
  BY Zenon
<1>1. CASE HttpFirst
  <2>1. PICK p \in HttpPacket : h' = HttpSubprotocol(
                    ndpi_search_http_tcp(HttpReceived(h, p), p, HttpNumber(h, p)), p)
    BY <1>1, Zenon DEF HttpFirst
  <2>2. h.lower = "UNKNOWN" /\ ~h.excluded
    BY <1>1, Zenon DEF HttpFirst
  <2> DEFINE e == ndpi_search_http_tcp(HttpReceived(h, p), p, HttpNumber(h, p))
  <2>3. Decided(h, e)
    BY <2>2, SearchDecided, Zenon DEF Followed
  <2> HIDE DEF e
  <2>4. Decided(h, h')
    BY <2>1, <2>3, SubprotocolDecided, Zenon DEF e
  <2>5. h.n = 0 /\ h.checked = 0
    BY <2>2, Zenon DEF HttpInv, HttpFresh
  <2>6. HttpFresh(h') /\ HttpLook(h')
    BY <2>4, <2>5 DEF Decided, HttpFresh, HttpLook, http_max_extra
  <2> QED
    BY <2>4, <2>6, Zenon DEF Decided, HttpInv
<1>2. CASE HttpExtra
  <2>1. PICK p \in HttpPacket : h' = HttpAgain(
                    ndpi_search_http_tcp(HttpReceived(h, p), p, HttpNumber(h, p)), p)
    BY <1>2, Zenon DEF HttpExtra
  <2> DEFINE e == ndpi_search_http_tcp(HttpReceived(h, p), p, HttpNumber(h, p))
             g == HttpSubprotocol(e, p)
  <2>2. h.extra /\ h.n = h.checked + 1 /\ h.checked < http_max_extra /\ h.checked \in Nat
    BY <1>2, Zenon DEF HttpExtra, HttpInv, HttpLook, HttpTyped
  <2>3. Decided(h, e)
    BY <2>2, SearchDecided, Zenon DEF Followed
  <2> HIDE DEF e
  <2>4. Decided(h, g) /\ (g.extra <=> e.extra) /\ (g.lower = "UNKNOWN" <=> e.lower = "UNKNOWN")
    BY <2>3, SubprotocolDecided, Zenon
  <2> HIDE DEF g
  <2>5. CASE e.extra
    <3>1. h' = HttpCounted(g)
      BY <2>1, <2>5, Zenon DEF HttpAgain, e, g
    <3>2. /\ HttpTyped(g) /\ HttpCurrent(g) /\ HttpSides(g) /\ HttpAlone(g)
          /\ g.lower # "UNKNOWN" /\ ~HttpComplete(g)
      BY <2>4, <2>5, Zenon DEF Decided
    <3>3. g.extra = TRUE
      BY <2>4, <2>5, <3>2, Zenon DEF HttpTyped
    <3>4. g.n = g.checked + 2 /\ g.checked < http_max_extra
      BY <2>2, <2>4 DEF Decided
    <3> QED
      BY Zenon, <3>1, <3>2, <3>3, <3>4, CountedInv
  <2>6. CASE ~e.extra
    <3>1. h' = e
      BY <2>1, <2>6, Zenon DEF HttpAgain, e
    <3>2. HttpFresh(e) /\ HttpLook(e)
      BY <2>3, <2>6, Zenon DEF Decided, HttpFresh, HttpLook
    <3> QED
      BY <2>3, <3>1, <3>2, Zenon DEF Decided, HttpInv
  <2> QED
    BY <2>5, <2>6, Zenon
<1>3. CASE HttpBare
  <2>1. PICK d \in {0, 1} : h' = HttpCounted([h EXCEPT !.n = @ + 1, !.dirs = @ \union {d}])
    BY Zenon, <1>3 DEF HttpBare
  <2> DEFINE e == [h EXCEPT !.n = @ + 1, !.dirs = @ \union {d}]
  <2>2. /\ h.extra /\ h.n = h.checked + 1 /\ h.checked < http_max_extra /\ h.checked \in Nat
        /\ h.lower # "UNKNOWN" /\ ~HttpComplete(h)
    BY <1>3, Zenon DEF HttpBare, HttpInv, HttpLook, HttpTyped, HttpFresh
  <2>3. /\ DOMAIN e = DOMAIN h /\ e.meta = h.meta /\ e.risk = h.risk /\ e.n = h.n + 1
        /\ e.dirs = h.dirs \union {d} /\ e.messages = h.messages /\ e.of = h.of
        /\ e.parse_response = h.parse_response /\ e.checked = h.checked
        /\ e.stage = h.stage /\ e.asym = h.asym /\ e.answered = h.answered
        /\ e.code = h.code /\ e.lower = h.lower /\ e.extra = h.extra
    BY Zenon DEF HttpInv, HttpTyped, HttpShape
  <2> HIDE DEF e
  <2>4. HttpTyped(e) /\ e.extra = TRUE
    <3>1. h.dirs \union {d} \in SUBSET {0, 1}
      BY Zenon DEF HttpInv, HttpTyped
    <3>2. e.extra = TRUE
      BY <2>2, <2>3, Zenon DEF HttpInv, HttpTyped
    <3> QED
      BY <2>3, <3>1, <3>2 DEF HttpInv, HttpTyped, HttpShape
  <2>5. HttpCurrent(e) /\ HttpSides(e)
    BY <2>3 DEF HttpInv, HttpCurrent, HttpSides, OfMessage
  <2>6. HttpOneSided(e) => HttpOneSided(h)
    BY <2>3, Zenon DEF HttpOneSided
  <2>7. ~HttpComplete(e)
    BY <2>2, <2>3, <2>6, Zenon DEF HttpComplete
  <2>8. HttpAlone(e)
    <3> SUFFICES ASSUME HttpOneSided(e) PROVE HttpAlone(e)
      BY Zenon DEF HttpAlone
    <3>1. PICK c \in {0, 1} : /\ h.dirs = {c} /\ h.stage \in {c + 1, c + 3} /\ h.messages >= 1
                              /\ h.asym = IF h.messages < 3 THEN h.messages - 1 ELSE 2
      BY <2>2, <2>6, Zenon DEF HttpInv, HttpAlone
    <3>2. e.dirs = {c}
      BY <2>3, <3>1, Zenon DEF HttpOneSided
    <3> QED
      BY Zenon, <2>3, <3>1, <3>2 DEF HttpAlone
  <2>9. e.n = e.checked + 2
    BY <2>2, <2>3
  <2>10. HttpInv(HttpCounted(e))
    BY Zenon, <2>2, <2>3, <2>4, <2>5, <2>7, <2>8, <2>9, CountedInv
  <2> QED
    BY <2>1, <2>10, Zenon DEF e
<1>4. CASE UNCHANGED h
  BY <1>4, Zenon
<1> QED
  BY <1>1, <1>2, <1>3, <1>4, Zenon DEF HttpNext

\* The invariant of the flow.
HttpInductive == HttpInv(h)

\* It holds in every state of the flow.
LEMMA HttpInvariant == HttpSpec => []HttpInductive
<1>1. HttpInit => HttpInductive
  BY HttpInitInv, Zenon DEF HttpInductive
<1>2. HttpInductive /\ [HttpNext]_h => HttpInductive'
  BY HttpStep, Zenon DEF HttpInductive
<1> QED
  BY <1>1, <1>2, PTL DEF HttpSpec

\* "We definitely don't want to mix data from different requests": until a request is
\* answered, whatever reset() clears is of one message, in a flow of any length.
THEOREM LastMessageIsKept == HttpSpec => []LastMessageKept
<1>1. HttpInductive => LastMessageKept
  <2> SUFFICES ASSUME HttpTyped(h), HttpCurrent(h), ~h.answered
               PROVE  \E m : OfMessage(h, m)
    BY Zenon DEF HttpInductive, HttpInv, LastMessageKept, OfMessage
  <2>1. h.stage = 0 \/ \E d \in {0, 1} : h.stage \in {d + 1, d + 3}
    BY DEF HttpTyped
  <2> QED
    BY <2>1, Zenon DEF HttpCurrent
<1> QED
  BY <1>1, HttpInvariant, PTL

\* In a capture of one side only, the extra dissection ends with the third message and,
\* as long as the host or the status is missing, not before.
THEOREM ThirdMessageEnds == HttpSpec => []ThreeEndOneSided
<1>1. HttpInductive => ThreeEndOneSided
  <2> SUFFICES ASSUME HttpTyped(h), HttpAlone(h), HttpLook(h), HttpOneSided(h),
                      h.parse_response, h.lower # "UNKNOWN", h.checked < http_max_extra,
                      h.meta["host_server_name"] = 0 \/ h.code = "none"
               PROVE  h.extra <=> h.messages < 3
    BY Zenon DEF HttpInductive, HttpInv, ThreeEndOneSided
  <2>1. h.asym = 2 <=> ~(h.messages < 3)
    BY DEF HttpAlone, HttpTyped
  <2>2. HttpComplete(h) <=> h.asym = 2
    BY Zenon DEF HttpComplete
  <2> QED
    BY <2>1, <2>2, Zenon DEF HttpLook
<1> QED
  BY <1>1, HttpInvariant, PTL
=============================================================================
