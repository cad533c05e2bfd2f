-------------------------- MODULE FlowClassifyProofs --------------------------
(***************************************************************************)
(* What proto_stack_update() does to any stack, and what the               *)
(* classification functions of ndpi_main.c preserve, for every stack size, *)
(* every set of protocols, every configuration and every answer of the     *)
(* tables they look into.                                                  *)
(***************************************************************************)
EXTENDS FlowClassify, Integers, TLAPS

\* A stack s of protocols of P as the library may hold it.
Stack(P, s) == s \in Seq(P) /\ WellFormedStack(s)

\* s holds p, unless it has been filled up.
Holds(s, p) == Len(s) < NDPI_PROTOCOL_STACK_SIZE - 1 => Contains(s, p)

\* t is a stack that records the verdict (lower, upper).
Records(P, t, lower, upper) ==
    /\ Stack(P, t)
    /\ Holds(t, upper)
    /\ lower # UNKNOWN => Holds(t, lower)

-----------------------------------------------------------------------------

\* proto_stack_push() keeps the stack bounded and free of repetitions, keeps
\* what it held, and adds the protocol unless the stack is full.
LEMMA PushStack ==
    ASSUME NEW P, UNKNOWN \notin P, NEW s, Stack(P, s), NEW p \in P
    PROVE  LET t == proto_stack_push(s, p)
           IN  /\ Stack(P, t)
               /\ Len(t) >= Len(s)
               /\ \A i \in DOMAIN s : i \in DOMAIN t /\ t[i] = s[i]
               /\ Holds(t, p)
<1> DEFINE t == proto_stack_push(s, p)
<1> USE StackSizeAssumption
<1>s. s \in Seq(P) /\ WellFormedStack(s)
  BY DEF Stack
<1>1. CASE Len(s) < NDPI_PROTOCOL_STACK_SIZE - 1 /\ ~(Len(s) > 0 /\ Top(s) = p)
  <2>1. t = Append(s, p)
    BY <1>1 DEF proto_stack_push
  <2>2. t \in Seq(P) /\ Len(t) = Len(s) + 1 /\ t[Len(t)] = p
        /\ \A i \in 1..Len(s) : t[i] = s[i]
    BY <2>1, <1>s
  <2>3. WellFormedStack(t)
    BY SMTT(60), <1>1, <1>s, <2>2 DEF WellFormedStack, Top
  <2> QED
    BY <2>2, <2>3, <1>s DEF Stack, Holds, Contains
<1>2. CASE ~(Len(s) < NDPI_PROTOCOL_STACK_SIZE - 1 /\ ~(Len(s) > 0 /\ Top(s) = p))
  <2>1. t = s
    BY <1>2 DEF proto_stack_push
  <2>2. Len(s) \in Nat
    BY <1>s
  <2>3. Len(s) < NDPI_PROTOCOL_STACK_SIZE - 1 => Len(s) \in DOMAIN s /\ s[Len(s)] = p
    BY <1>2, <1>s, <2>2 DEF Top
  <2> QED
    BY <2>1, <2>2, <2>3, <1>s DEF Stack, Holds, Contains
<1> QED
  BY <1>1, <1>2

\* Popping keeps a stack well formed.
LEMMA PopStack ==
    ASSUME NEW P, NEW s, Stack(P, s), Len(s) > 0
    PROVE  Stack(P, Pop(s)) /\ Len(Pop(s)) = Len(s) - 1
<1>s. s \in Seq(P) /\ WellFormedStack(s) /\ Len(s) \in Nat
  BY DEF Stack
<1>0. Len(s) - 1 \in Int /\ 1 \in Int /\ \A i \in 1..(Len(s) - 1) : s[i] \in P
  BY <1>s
<1>1. /\ Pop(s) \in Seq(P)
      /\ Len(Pop(s)) = Len(s) - 1
      /\ \A i \in 1..(Len(s) - 1) : Pop(s)[i] = s[i]
  <2> DEFINE n == Len(s) - 1
  <2>1. /\ SubSeq(s, 1, n) \in Seq(P)
        /\ Len(SubSeq(s, 1, n)) = IF 1 <= n THEN n - 1 + 1 ELSE 0
        /\ \A i \in 1..(n - 1 + 1) : SubSeq(s, 1, n)[i] = s[1 + i - 1]
    BY <1>s
  <2>2. Pop(s) = SubSeq(s, 1, n)
    BY DEF Pop
  <2>3. /\ Pop(s) \in Seq(P)
        /\ Len(Pop(s)) = IF 1 <= n THEN n - 1 + 1 ELSE 0
        /\ \A i \in 1..(n - 1 + 1) : Pop(s)[i] = s[1 + i - 1]
    BY <2>1, <2>2, Zenon
  <2>4. n \in Int /\ 0 <= n /\ n - 1 + 1 = n /\ \A i \in 1..n : 1 + i - 1 = i
    BY <1>s
  <2> HIDE DEF n
  <2>5. Len(Pop(s)) = n
    BY <2>3, <2>4
  <2>6. \A i \in 1..n : Pop(s)[i] = s[i]
    BY <2>3, <2>4, Zenon
  <2> QED
    BY <2>3, <2>5, <2>6 DEF n
<1>2. WellFormedStack(Pop(s))
  BY SMTT(60), <1>1, <1>s, StackSizeAssumption DEF WellFormedStack
<1> QED
  BY <1>1, <1>2 DEF Stack

\* The last lines of proto_stack_update().
LEMMA PushPairStack ==
    ASSUME NEW P, UNKNOWN \notin P, NEW s, Stack(P, s),
           NEW lower \in P \union {UNKNOWN}, NEW upper \in P
    PROVE  LET t == PushPair(s, lower, upper)
           IN  /\ Records(P, t, lower, upper)
               /\ \A i \in DOMAIN s : i \in DOMAIN t /\ t[i] = s[i]
<1>s. s \in Seq(P) /\ Len(s) \in Nat
  BY DEF Stack
<1>1. CASE lower = UNKNOWN \/ (Len(s) > 0 /\ s[1] = lower)
  <2>1. PushPair(s, lower, upper) = proto_stack_push(s, upper)
    BY <1>1 DEF PushPair
  <2>2. lower # UNKNOWN => 1 \in DOMAIN s /\ s[1] = lower
    BY <1>1, <1>s
  <2> QED
    BY <2>1, <2>2, PushStack DEF Holds, Contains, Records
<1>2. CASE ~(lower = UNKNOWN \/ (Len(s) > 0 /\ s[1] = lower))
  <2> DEFINE m == proto_stack_push(s, lower)
             t == proto_stack_push(m, upper)
  <2>1. PushPair(s, lower, upper) = t
    BY <1>2 DEF PushPair
  <2>2. lower \in P
    BY <1>2
  <2>3. /\ Stack(P, m)
        /\ Len(m) >= Len(s)
        /\ \A i \in DOMAIN s : i \in DOMAIN m /\ m[i] = s[i]
        /\ Holds(m, lower)
    BY <2>2, PushStack
  <2>4. /\ Stack(P, t)
        /\ Len(t) >= Len(m)
        /\ \A i \in DOMAIN m : i \in DOMAIN t /\ t[i] = m[i]
        /\ Holds(t, upper)
    BY <2>3, PushStack
  <2>5. Len(m) \in Nat /\ Len(t) \in Nat
    BY <2>3, <2>4 DEF Stack
  <2>6. Holds(t, lower)
    BY <2>3, <2>4, <2>5, StackSizeAssumption DEF Holds, Contains
  <2> HIDE DEF m, t
  <2> QED
    BY <2>1, <2>3, <2>4, <2>6 DEF Records
<1> QED
  BY <1>1, <1>2

\* The RDP case on a short stack.
LEMMA AddToShortStack ==
    ASSUME NEW P, UNKNOWN \notin P, "TLS" \in P, NEW s, Stack(P, s),
           NEW lower \in P \union {UNKNOWN}, NEW upper \in P
    PROVE  Records(P, AddToShort(s, lower, upper), lower, upper)
<1>s. s \in Seq(P) /\ Len(s) \in Nat
  BY DEF Stack
<1>1. CASE Len(s) = 1 /\ Top(s) = upper /\ lower = "TLS"
  <2> DEFINE t == PushPair(s, UNKNOWN, "TLS")
  <2>1. AddToShort(s, lower, upper) = t
    BY <1>1 DEF AddToShort
  <2>2. /\ Records(P, t, UNKNOWN, "TLS")
        /\ \A i \in DOMAIN s : i \in DOMAIN t /\ t[i] = s[i]
    BY PushPairStack
  <2>3. 1 \in DOMAIN s /\ s[1] = upper
    BY <1>1, <1>s DEF Top
  <2>4. Holds(t, upper)
    BY <2>2, <2>3 DEF Holds, Contains
  <2> HIDE DEF t
  <2> QED
    BY <1>1, <2>1, <2>2, <2>4 DEF Records
<1>2. CASE ~(Len(s) = 1 /\ Top(s) = upper /\ lower = "TLS")
  <2>1. AddToShort(s, lower, upper) = PushPair(s, lower, upper)
    BY <1>2 DEF AddToShort
  <2> QED
    BY <2>1, PushPairStack
<1> QED
  BY <1>1, <1>2

\* What the new pair replaces is popped first.
LEMMA AddReplacingStack ==
    ASSUME NEW P, UNKNOWN \notin P, "TLS" \in P, NEW s, Stack(P, s),
           NEW lower \in P \union {UNKNOWN}, NEW upper \in P
    PROVE  Records(P, AddReplacing(s, lower, upper), lower, upper)
<1>s. s \in Seq(P) /\ Len(s) \in Nat
  BY DEF Stack
<1>1. CASE AddReplacing(s, lower, upper) = AddToShort(s, lower, upper)
  BY <1>1, AddToShortStack
<1>2. CASE Len(s) > 0 /\ AddReplacing(s, lower, upper) = AddToShort(Pop(s), lower, upper)
  <2>1. Stack(P, Pop(s))
    BY <1>2, PopStack
  <2> QED
    BY <1>2, <2>1, AddToShortStack
<1>3. \/ AddReplacing(s, lower, upper) = AddToShort(s, lower, upper)
      \/ Len(s) > 0 /\ AddReplacing(s, lower, upper) = AddToShort(Pop(s), lower, upper)
  BY SMTT(60), <1>s DEF AddReplacing
<1> QED
  BY <1>1, <1>2, <1>3

\* proto_stack_update() keeps the stack well formed and, unless it fills up,
\* leaves both protocols of the legacy (lower, upper) pair in it: the pops of
\* the special cases never lose the verdict being recorded.
THEOREM UpdateStack ==
    ASSUME NEW P, UNKNOWN \notin P, {"TLS", "DTLS", "SRTP"} \subseteq P,
           NEW s, Stack(P, s),
           NEW lower \in P \union {UNKNOWN}, NEW upper \in P
    PROVE  Records(P, proto_stack_update(s, lower, upper), lower, upper)
<1>s. s \in Seq(P) /\ Len(s) \in Nat /\ upper # UNKNOWN
  BY DEF Stack
<1>t. "TLS" \in P /\ "DTLS" \in P /\ "SRTP" \in P
  OBVIOUS
<1>1. CASE lower = "SRTP"
  <2>1. proto_stack_update(s, lower, upper) = AddReplacing(s, upper, "SRTP")
    BY <1>1 DEF proto_stack_update
  <2>2. Records(P, AddReplacing(s, upper, "SRTP"), upper, "SRTP")
    BY <1>t, AddReplacingStack
  <2> QED
    BY <1>1, <1>s, <2>1, <2>2 DEF Records
<1>2. CASE lower = UNKNOWN /\ upper \in {"TLS", "DTLS"} /\ Len(s) >= 2
  <2>1. proto_stack_update(s, lower, upper) = AddReplacing(s, upper, Top(s))
    BY <1>2 DEF proto_stack_update, UNKNOWN
  <2>2. Top(s) \in P
    BY <1>2, <1>s DEF Top
  <2>3. Records(P, AddReplacing(s, upper, Top(s)), upper, Top(s))
    BY <1>t, <2>2, AddReplacingStack
  <2> QED
    BY <1>2, <1>s, <2>1, <2>3 DEF Records
<1>3. CASE ~(lower = "SRTP") /\ ~(lower = UNKNOWN /\ upper \in {"TLS", "DTLS"} /\ Len(s) >= 2)
  <2>1. proto_stack_update(s, lower, upper) = AddReplacing(s, lower, upper)
    BY <1>3 DEF proto_stack_update
  <2> QED
    BY <1>t, <2>1, AddReplacingStack
<1> QED
  BY <1>1, <1>2, <1>3

-----------------------------------------------------------------------------
(* The classification functions.                                           *)

\* The verdict of c and the stack that records it agree with each other and
\* with the state.
GoodVerdict(c) ==
    /\ c \in Classification
    /\ WellFormedStack(c.protocol_stack)
    /\ c.upper # UNKNOWN => Holds(c.protocol_stack, c.upper)
    /\ c.lower # UNKNOWN => Holds(c.protocol_stack, c.lower)
    /\ c.upper = UNKNOWN => c.lower = UNKNOWN
    /\ c.state = "INSPECTING" => c.upper = UNKNOWN /\ c.protocol_stack = <<>>
    /\ c.state \in {"PARTIAL", "MONITORING"} => c.upper # UNKNOWN

\* The library has given up on c exactly when it has closed it, or observes it.
GoodGiveup(c) ==
    /\ c.state = "CLASSIFIED" => c.already_gaveup
    /\ c.already_gaveup => c.state \in {"CLASSIFIED", "MONITORING"}
    /\ "already_classified" \notin c.errors
    /\ c.errors # {} => c.already_gaveup /\ c.state = "MONITORING"

Good(c) == GoodVerdict(c) /\ GoodGiveup(c)

\* c may still be classified.
Open(c) == c.state \in {"INSPECTING", "PARTIAL"}

SameVerdict(c, d) ==
    /\ d.upper = c.upper /\ d.lower = c.lower /\ d.confidence = c.confidence
    /\ d.protocol_stack = c.protocol_stack /\ d.state = c.state

\* c and d differ only in the detected protocols and the confidence.
OnlyVerdictDiffers(c, d) ==
    /\ d \in Classification
    /\ d.protocol_stack = c.protocol_stack /\ d.state = c.state
    /\ d.already_gaveup = c.already_gaveup
    /\ d.protocol_was_guessed = c.protocol_was_guessed
    /\ d.errors = c.errors

-----------------------------------------------------------------------------

\* ndpi_int_change_protocol() leaves a protocol in detected_protocol_stack[0]
\* whenever it is given one.
LEMMA ChangeProtocol ==
    ASSUME NEW c \in Classification,
           NEW upper \in ProtocolOrUnknown, NEW lower \in ProtocolOrUnknown,
           NEW conf \in Confidence,
           upper # UNKNOWN \/ lower # UNKNOWN
    PROVE  LET d == ndpi_int_change_protocol(c, upper, lower, conf)
           IN  OnlyVerdictDiffers(c, d) /\ d.upper \in Protocol
  BY ZenonT(60), ProtocolAssumption
     DEF ndpi_int_change_protocol, OnlyVerdictDiffers, Classification, ProtocolOrUnknown

\* ndpi_reconcile_protocols() replaces a verdict only by another protocol.
LEMMA Reconcile ==
    ASSUME NEW c \in Classification, c.upper \in Protocol, NEW e \in Environment
    PROVE  LET d == ndpi_reconcile_protocols(c, e)
           IN  OnlyVerdictDiffers(c, d) /\ d.upper \in Protocol
<1> DEFINE d == ndpi_reconcile_protocols(c, e)
           Changed(r) == OnlyVerdictDiffers(c, r) /\ r.upper \in Protocol
<1>p. /\ "MSTEAMS_CALL" \in Protocol /\ "MSTEAMS" \in Protocol /\ "STUN" \in Protocol
      /\ "TLS" \in Protocol /\ UNKNOWN \notin Protocol /\ "TELEGRAM" \in Protocol
  BY ProtocolAssumption DEF NamedProtocol
<1>c. /\ c.lower \in ProtocolOrUnknown /\ c.upper \in ProtocolOrUnknown
      /\ c.confidence \in Confidence /\ "DPI_PARTIAL" \in Confidence
      /\ e.by_ip \in ProtocolOrUnknown
  BY DEF Classification, Environment, Confidence
<1>1. Changed(c)
  BY DEF OnlyVerdictDiffers
<1>2. \A m \in ProtocolOrUnknown : Changed(ndpi_reconcile_msteams_udp(c, m, e))
  BY SMTT(60), <1>1, <1>p, <1>c, ChangeProtocol DEF ndpi_reconcile_msteams_udp, ProtocolOrUnknown
<1>3. \A u \in Protocol, l \in ProtocolOrUnknown :
         Changed(ndpi_int_change_protocol(c, u, l, "DPI_PARTIAL"))
  BY SMTT(60), <1>p, <1>c, ChangeProtocol DEF ProtocolOrUnknown
<1> HIDE DEF Changed
<1>4. \/ d = c
      \/ \E m \in ProtocolOrUnknown : d = ndpi_reconcile_msteams_udp(c, m, e)
      \/ \E u \in Protocol, l \in ProtocolOrUnknown :
            d = ndpi_int_change_protocol(c, u, l, "DPI_PARTIAL")
  <2>1. e.by_ip \in MicrosoftService => e.by_ip \in Protocol
    BY <1>c DEF MicrosoftService, ProtocolOrUnknown, UNKNOWN
  <2>2. "TLS" \in ProtocolOrUnknown /\ "STUN" \in ProtocolOrUnknown
    BY <1>p DEF ProtocolOrUnknown
  <2> QED
    BY <1>c, <1>p, <2>1, <2>2 DEF ndpi_reconcile_protocols
<1>5. Changed(d)
  <2> HIDE DEF d
  <2> QED
    BY <1>1, <1>2, <1>3, <1>4
<1> QED
  BY <1>5 DEF Changed

\* ndpi_set_detected_protocol() on a flow that is not in MONITORING records a
\* verdict in all three places: the pair, the stack and the state.
LEMMA DetectedVerdict ==
    ASSUME NEW c, GoodVerdict(c), NEW e \in Environment,
           NEW upper \in ProtocolOrUnknown, NEW lower \in ProtocolOrUnknown,
           NEW conf \in Confidence,
           upper # UNKNOWN \/ lower # UNKNOWN
    PROVE  LET d == Detected(c, upper, lower, conf, e)
           IN  /\ GoodVerdict(d)
               /\ d.state = "PARTIAL"
               /\ d.already_gaveup = c.already_gaveup
               /\ d.errors = c.errors
               /\ d.protocol_was_guessed = c.protocol_was_guessed
<1> DEFINE b == ndpi_int_change_protocol(c, upper, lower, conf)
           r == ndpi_reconcile_protocols(b, e)
           s == proto_stack_update(r.protocol_stack, r.lower, r.upper)
           d == [r EXCEPT !.protocol_stack = s, !.state = "PARTIAL"]
<1>0. Detected(c, upper, lower, conf, e) = d
  BY DEF Detected
<1>c. c \in Classification /\ Stack(Protocol, c.protocol_stack)
  BY DEF GoodVerdict, Classification, Stack
<1>p. UNKNOWN \notin Protocol /\ {"TLS", "DTLS", "SRTP"} \subseteq Protocol
  BY ProtocolAssumption DEF NamedProtocol
<1>1. OnlyVerdictDiffers(c, b) /\ b.upper \in Protocol
  BY <1>c, ChangeProtocol
<1>2. OnlyVerdictDiffers(b, r) /\ r.upper \in Protocol
  <2>1. b \in Classification
    BY <1>1 DEF OnlyVerdictDiffers
  <2> HIDE DEF b
  <2> QED
    BY <1>1, <2>1, Reconcile
<1> HIDE DEF b, r
<1>3. r \in Classification /\ r.lower \in Protocol \union {UNKNOWN}
  BY <1>2 DEF OnlyVerdictDiffers, Classification, ProtocolOrUnknown
<1>4. Stack(Protocol, r.protocol_stack)
  BY <1>c, <1>1, <1>2 DEF OnlyVerdictDiffers
<1>5. Records(Protocol, s, r.lower, r.upper)
  BY <1>2, <1>3, <1>4, <1>p, UpdateStack
<1> HIDE DEF s
<1>6. s \in Seq(Protocol) /\ WellFormedStack(s)
  BY <1>5 DEF Records, Stack
<1>7. /\ d \in Classification /\ d.upper = r.upper /\ d.lower = r.lower
      /\ d.protocol_stack = s /\ d.state = "PARTIAL"
      /\ d.already_gaveup = r.already_gaveup /\ d.errors = r.errors
      /\ d.protocol_was_guessed = r.protocol_was_guessed
  BY ZenonT(60), <1>3, <1>6 DEF Classification, FlowState
<1> HIDE DEF d
<1>8. d.upper # UNKNOWN
  BY <1>2, <1>7, <1>p
<1>9. GoodVerdict(d)
  BY <1>5, <1>6, <1>7, <1>8 DEF GoodVerdict, Records
<1> QED
  BY <1>0, <1>1, <1>2, <1>7, <1>9 DEF OnlyVerdictDiffers

\* The same for ndpi_set_detected_protocol() on an open flow.
LEMMA SetDetected ==
    ASSUME NEW c, Good(c), Open(c), NEW e \in Environment,
           NEW upper \in ProtocolOrUnknown, NEW lower \in ProtocolOrUnknown,
           NEW conf \in Confidence,
           upper # UNKNOWN \/ lower # UNKNOWN
    PROVE  LET d == ndpi_set_detected_protocol(c, upper, lower, conf, e)
           IN  Good(d) /\ d.state = "PARTIAL"
<1> DEFINE d == Detected(c, upper, lower, conf, e)
<1>1. ndpi_set_detected_protocol(c, upper, lower, conf, e) = d
  BY DEF ndpi_set_detected_protocol, Open
<1>2. /\ GoodVerdict(d) /\ d.state = "PARTIAL"
      /\ d.already_gaveup = c.already_gaveup /\ d.errors = c.errors
  BY DetectedVerdict DEF Good
<1> HIDE DEF d
<1> QED
  BY <1>1, <1>2 DEF Good, GoodGiveup, Open

\* internal_giveup() closes an open flow, leaves one in MONITORING as it is, and
\* may be called again on the latter without harm.
LEMMA InternalGiveup ==
    ASSUME NEW c, Good(c), c.state # "CLASSIFIED", NEW e \in Environment
    PROVE  LET d == internal_giveup(c, e)
           IN  /\ Good(d)
               /\ d.already_gaveup
               /\ d.state \in {"CLASSIFIED", "MONITORING"}
               /\ d.state = "CLASSIFIED" <=> Open(c)
               /\ c.state = "MONITORING" => SameVerdict(c, d)
<1> DEFINE b == [c EXCEPT !.already_gaveup = TRUE]
           f == FingerprintStep(b, e)
           d == internal_giveup(c, e)
<1>c. /\ c \in Classification /\ GoodVerdict(c) /\ GoodGiveup(c)
      /\ c.state \in {"INSPECTING", "PARTIAL", "MONITORING"}
  BY DEF Good, GoodVerdict, Classification, FlowState
<1>1. CASE c.already_gaveup
  <2>1. d = [c EXCEPT !.errors = c.errors \union {"already_called"}]
    BY <1>1 DEF internal_giveup
  <2>2. c.state = "MONITORING"
    BY <1>1, <1>c DEF GoodGiveup
  <2>3. /\ d \in Classification /\ SameVerdict(c, d)
        /\ d.already_gaveup = c.already_gaveup
        /\ d.errors = c.errors \union {"already_called"}
    BY <2>1, <1>c DEF Classification, SameVerdict, ErrorBranch
  <2> HIDE DEF d
  <2>4. GoodVerdict(d)
    BY <2>3, <1>c DEF GoodVerdict, SameVerdict
  <2>5. GoodGiveup(d)
    BY <2>2, <2>3, <1>1, <1>c DEF GoodGiveup, SameVerdict
  <2> QED
    BY <2>2, <2>3, <2>4, <2>5, <1>1 DEF Good, SameVerdict, Open, d
<1>2. CASE ~c.already_gaveup
  <2>1. d = CloseState(f)
    BY <1>2 DEF internal_giveup
  <2>2. /\ b \in Classification /\ SameVerdict(c, b) /\ b.already_gaveup
        /\ b.errors = c.errors
    BY ZenonT(60), <1>c DEF Classification, SameVerdict
  <2> HIDE DEF b
  <2>3. GoodVerdict(b)
    BY <2>2, <1>c DEF GoodVerdict, SameVerdict
  <2>e. b.errors = {}
    BY <2>2, <1>2, <1>c DEF GoodGiveup
  <2>4. /\ GoodVerdict(f) /\ f.already_gaveup
        /\ Open(b) => Open(f) /\ f.errors = {}
        /\ b.state = "MONITORING" =>
             SameVerdict(b, f) /\ f.errors \subseteq {"update_while_monitoring"}
    <3>1. CASE f = b
      BY <3>1, <2>2, <2>3, <2>e DEF SameVerdict
    <3>2. CASE f # b
      <4> DEFINE m == ndpi_get_master_proto(b, e)
      <4>1. f = ndpi_set_detected_protocol(b, FingerprintProtocol, m, "CUSTOM_RULE", e)
        BY <3>2 DEF FingerprintStep, ndpi_compute_ndpi_flow_fingerprint
      <4>2. m \in ProtocolOrUnknown
        BY <2>2, ProtocolAssumption
           DEF ndpi_get_master_proto, ndpi_tls_refine_master_protocol, Classification,
               ProtocolOrUnknown, NamedProtocol
      <4>3. /\ FingerprintProtocol \in ProtocolOrUnknown /\ FingerprintProtocol # UNKNOWN
            /\ "CUSTOM_RULE" \in Confidence
        BY ProtocolAssumption DEF ProtocolOrUnknown, Confidence
      <4> HIDE DEF m
      <4>4. CASE b.state = "MONITORING"
        <5>1. f = [b EXCEPT !.errors = b.errors \union {"update_while_monitoring"}]
          BY <4>1, <4>4 DEF ndpi_set_detected_protocol
        <5>2. /\ f \in Classification /\ SameVerdict(b, f)
              /\ f.already_gaveup = b.already_gaveup
              /\ f.errors = b.errors \union {"update_while_monitoring"}
          BY ZenonT(60), <5>1, <2>2 DEF Classification, SameVerdict, ErrorBranch
        <5> HIDE DEF f
        <5> QED
          BY <5>2, <2>2, <2>3, <2>e, <4>4 DEF GoodVerdict, SameVerdict, Open
      <4>5. CASE b.state # "MONITORING"
        <5>1. f = Detected(b, FingerprintProtocol, m, "CUSTOM_RULE", e)
          BY <4>1, <4>5 DEF ndpi_set_detected_protocol
        <5>2. /\ GoodVerdict(f) /\ f.state = "PARTIAL"
              /\ f.already_gaveup = b.already_gaveup /\ f.errors = b.errors
          BY <5>1, <4>2, <4>3, <2>3, DetectedVerdict
        <5> HIDE DEF f
        <5> QED
          BY <5>2, <2>2, <2>e, <4>5 DEF Open
      <4> QED
        BY <4>4, <4>5
    <3> QED
      BY <3>1, <3>2
  <2> HIDE DEF f
  <2>f. f \in Classification
    BY <2>4 DEF GoodVerdict
  <2>5. CASE c.state = "MONITORING"
    <3>1. d = f
      BY <2>1, <2>2, <2>4, <2>5 DEF CloseState, SameVerdict
    <3>2. SameVerdict(c, f) /\ f.state = "MONITORING"
      BY <2>2, <2>4, <2>5 DEF SameVerdict
    <3>3. GoodGiveup(f)
      BY <2>2, <2>4, <2>5, <3>2 DEF GoodGiveup, SameVerdict
    <3> QED
      BY <2>4, <2>5, <3>1, <3>2, <3>3 DEF Good, Open
  <2>6. CASE Open(c)
    <3>1. Open(f) /\ f.errors = {}
      BY <2>2, <2>4, <2>6 DEF Open, SameVerdict
    <3>2. d = [f EXCEPT !.state = "CLASSIFIED"]
      BY <2>1, <3>1 DEF CloseState, Open
    <3>3. /\ d \in Classification /\ d.state = "CLASSIFIED"
          /\ d.upper = f.upper /\ d.lower = f.lower /\ d.protocol_stack = f.protocol_stack
          /\ d.already_gaveup = f.already_gaveup /\ d.errors = f.errors
      BY <3>2, <2>f DEF Classification, FlowState
    <3>4. d.already_gaveup /\ d.errors = {}
      BY <3>1, <3>3, <2>4
    <3> HIDE DEF d
    <3>5. GoodVerdict(d)
      BY <3>3, <2>4 DEF GoodVerdict
    <3>6. GoodGiveup(d)
      BY <3>3, <3>4 DEF GoodGiveup
    <3> QED
      BY <3>3, <3>4, <3>5, <3>6, <2>6 DEF Good, Open, d
  <2> QED
    BY <2>5, <2>6, <1>c DEF Open
<1> QED
  BY <1>1, <1>2

\* A source of a guess that applies names a protocol.
LEMMA SourcesName ==
    ASSUME NEW c \in Classification, NEW e \in Environment, NEW i \in 1..6
    PROVE  LET src == GuessSources(c, e)[i]
           IN  /\ src.upper \in ProtocolOrUnknown /\ src.lower \in ProtocolOrUnknown
               /\ src.confidence \in Confidence
               /\ src.applies => src.upper # UNKNOWN
<1> DEFINE Named(src) ==
             /\ src.upper \in ProtocolOrUnknown /\ src.lower \in ProtocolOrUnknown
             /\ src.confidence \in Confidence
             /\ src.applies => src.upper # UNKNOWN
<1>p. /\ UNKNOWN \in ProtocolOrUnknown
      /\ \A p \in {"BITTORRENT", "OOKLA", MiningProtocol} :
            p \in ProtocolOrUnknown /\ p # UNKNOWN
      /\ c.lower \in ProtocolOrUnknown
      /\ e.fast \in ProtocolOrUnknown /\ e.by_ip \in ProtocolOrUnknown
      /\ e.by_port \in ProtocolOrUnknown
      /\ {"DPI_PARTIAL", "DPI_PARTIAL_CACHE", "MATCH_BY_IP", "MATCH_BY_PORT"} \subseteq Confidence
  BY ProtocolAssumption
     DEF ProtocolOrUnknown, NamedProtocol, Classification, Environment, Confidence
<1>1. Named(ByIp(c, e)) /\ Named(ByPort(e))
  BY ZenonT(60), <1>p DEF ByIp, ByPort, Source
<1>2. /\ Named(Source(e.fast # UNKNOWN, e.fast, UNKNOWN, "DPI_PARTIAL"))
      /\ Named(Source("bittorrent_cache" \in e.hits, "BITTORRENT", UNKNOWN, "DPI_PARTIAL_CACHE"))
      /\ Named(Source("mining_cache" \in e.hits, MiningProtocol, UNKNOWN, "DPI_PARTIAL_CACHE"))
      /\ Named(Source("ookla_cache" \in e.hits, "OOKLA", UNKNOWN, "DPI_PARTIAL_CACHE"))
  BY ZenonT(60), <1>p DEF Source
<1> HIDE DEF Named
<1>3. /\ Named(GuessSources(c, e)[1]) /\ Named(GuessSources(c, e)[2])
      /\ Named(GuessSources(c, e)[3]) /\ Named(GuessSources(c, e)[4])
      /\ Named(GuessSources(c, e)[5]) /\ Named(GuessSources(c, e)[6])
  BY <1>1, <1>2 DEF GuessSources
<1>4. i = 1 \/ i = 2 \/ i = 3 \/ i = 4 \/ i = 5 \/ i = 6
  OBVIOUS
<1>5. Named(GuessSources(c, e)[i])
  BY <1>3, <1>4
<1> QED
  BY <1>5 DEF Named

\* The first source that applies is one that applies, and before the others.
LEMMA FirstApplicable ==
    ASSUME NEW A \in SUBSET (1..6), A # {}
    PROVE  LET i == CHOOSE i \in A : \A j \in A : i <= j
           IN  i \in A /\ \A j \in A : i <= j
<1>1. \E i \in A : \A j \in A : i <= j
  <2>1. CASE 1 \in A
    BY <2>1
  <2>2. CASE 1 \notin A /\ 2 \in A
    BY <2>2
  <2>3. CASE 1 \notin A /\ 2 \notin A /\ 3 \in A
    BY <2>3
  <2>4. CASE 1 \notin A /\ 2 \notin A /\ 3 \notin A /\ 4 \in A
    BY <2>4
  <2>5. CASE 1 \notin A /\ 2 \notin A /\ 3 \notin A /\ 4 \notin A /\ 5 \in A
    BY <2>5
  <2>6. CASE 1 \notin A /\ 2 \notin A /\ 3 \notin A /\ 4 \notin A /\ 5 \notin A
    <3>1. PICK x \in A : TRUE
      BY ZenonT(60)
    <3>2. x = 6
      BY <3>1, <2>6
    <3>3. \A j \in A : 6 <= j
      BY <2>6
    <3> QED
      BY <3>1, <3>2, <3>3
  <2> QED
    BY <2>1, <2>2, <2>3, <2>4, <2>5, <2>6
<1> QED
  BY ZenonT(60), <1>1

\* A guess is recorded like any other verdict.
LEMMA GuessedVerdict ==
    ASSUME NEW c, Good(c), Open(c), NEW e \in Environment
    PROVE  Good(Guessed(c, e)) /\ Open(Guessed(c, e))
<1>c. c \in Classification
  BY DEF Good, GoodVerdict
<1>1. CASE Applicable(c, e) = {}
  BY <1>1 DEF Guessed
<1>2. CASE Applicable(c, e) # {}
  <2> DEFINE i   == CHOOSE i \in Applicable(c, e) : \A j \in Applicable(c, e) : i <= j
             src == GuessSources(c, e)[i]
             b   == ndpi_set_detected_protocol(c, src.upper, src.lower, src.confidence, e)
             d   == [b EXCEPT !.protocol_was_guessed = TRUE]
  <2>1. Guessed(c, e) = d
    BY <1>2 DEF Guessed
  <2>2. i \in Applicable(c, e)
    <3>1. Applicable(c, e) \in SUBSET (1..6)
      BY DEF Applicable
    <3> QED
      BY <3>1, <1>2, FirstApplicable
  <2> HIDE DEF i
  <2>3. i \in 1..6 /\ src.applies
    BY <2>2 DEF Applicable
  <2>4. /\ src.upper \in ProtocolOrUnknown /\ src.lower \in ProtocolOrUnknown
        /\ src.confidence \in Confidence /\ src.upper # UNKNOWN
    BY <1>c, <2>3, SourcesName
  <2> HIDE DEF src
  <2>5. Good(b) /\ b.state = "PARTIAL"
    BY <2>4, SetDetected
  <2> HIDE DEF b
  <2>6. b \in Classification
    BY <2>5 DEF Good, GoodVerdict
  <2>7. /\ d \in Classification /\ SameVerdict(b, d)
        /\ d.already_gaveup = b.already_gaveup /\ d.errors = b.errors
    BY ZenonT(60), <2>6 DEF Classification, SameVerdict
  <2> HIDE DEF d
  <2>8. Good(d) /\ d.state = "PARTIAL"
    BY <2>5, <2>7 DEF Good, GoodVerdict, GoodGiveup, SameVerdict
  <2> QED
    BY <2>1, <2>8 DEF Open
<1> QED
  BY <1>1, <1>2

\* ndpi_internal_detection_giveup() closes every flow that is not observed in
\* MONITORING, and changes nothing about one that is closed or observed.
THEOREM GiveupCloses ==
    ASSUME NEW c, Good(c), NEW e \in Environment
    PROVE  LET d == ndpi_internal_detection_giveup(c, e)
           IN  /\ Good(d)
               /\ d.already_gaveup
               /\ d.state \in {"CLASSIFIED", "MONITORING"}
               /\ ~Open(c) => SameVerdict(c, d)
<1> DEFINE d == ndpi_internal_detection_giveup(c, e)
<1>c. c.state \in FlowState
  BY DEF Good, GoodVerdict, Classification
<1>1. CASE c.state = "CLASSIFIED"
  <2>1. d = c
    BY <1>1 DEF ndpi_internal_detection_giveup
  <2> QED
    BY <2>1, <1>1 DEF Good, GoodGiveup, SameVerdict
<1>2. CASE c.state # "CLASSIFIED" /\ c.upper # UNKNOWN
  <2>1. d = internal_giveup(c, e)
    BY <1>2 DEF ndpi_internal_detection_giveup
  <2>2. ~Open(c) => c.state = "MONITORING"
    BY <1>2, <1>c DEF Open, FlowState
  <2> QED
    BY <2>1, <2>2, <1>2, InternalGiveup
<1>3. CASE c.state # "CLASSIFIED" /\ c.upper = UNKNOWN
  <2>1. d = internal_giveup(Guessed(c, e), e)
    BY <1>3 DEF ndpi_internal_detection_giveup
  <2>2. Open(c)
    BY <1>3, <1>c DEF Open, FlowState, Good, GoodVerdict
  <2>3. Good(Guessed(c, e)) /\ Open(Guessed(c, e))
    BY <2>2, GuessedVerdict
  <2>4. Guessed(c, e).state # "CLASSIFIED"
    BY <2>3 DEF Open
  <2> QED
    BY <2>1, <2>2, <2>3, <2>4, InternalGiveup
<1> QED
  BY <1>1, <1>2, <1>3

\* Good classifications are open, observed or closed.
LEMMA Cases ==
    ASSUME NEW c, Good(c)
    PROVE  /\ Open(c) \/ c.state = "MONITORING" \/ c.state = "CLASSIFIED"
           /\ ~c.already_gaveup => c.state # "CLASSIFIED"
           /\ Open(c) => ~c.already_gaveup
           /\ c.state = "CLASSIFIED" => c.already_gaveup
           /\ c.state \in {"PARTIAL", "MONITORING"} => c.upper # UNKNOWN
           /\ Open(c) /\ c.upper # UNKNOWN => c.state = "PARTIAL"
           /\ c.upper = UNKNOWN => c.state \in {"INSPECTING", "CLASSIFIED"}
           /\ c \in Classification
  BY DEF Good, GoodVerdict, GoodGiveup, Open, Classification, FlowState

-----------------------------------------------------------------------------
(* The confidence of a verdict.                                             *)

ByAddress == {"MATCH_BY_PORT", "MATCH_BY_IP"}

\* The confidence c may have after a verdict (upper, conf) was recorded.
ClaimedAs(c, upper, conf) ==
    /\ c.confidence \in {conf, "DPI_PARTIAL"}
    /\ conf \in ByAddress => c.confidence = conf /\ c.upper = upper

\* ndpi_set_detected_protocol() records the confidence it is given, unless
\* reconciliation replaces it by DPI_PARTIAL, which it never does to a match by
\* port or by IP.
LEMMA DetectedConfidence ==
    ASSUME NEW c \in Classification, NEW e \in Environment,
           NEW upper \in Protocol, NEW lower \in ProtocolOrUnknown, NEW conf \in Confidence
    PROVE  LET d == Detected(c, upper, lower, conf, e)
           IN  ClaimedAs(d, upper, conf)
<1> DEFINE b == ndpi_int_change_protocol(c, upper, lower, conf)
           r == ndpi_reconcile_protocols(b, e)
           s == proto_stack_update(r.protocol_stack, r.lower, r.upper)
           d == [r EXCEPT !.protocol_stack = s, !.state = "PARTIAL"]
<1>0. Detected(c, upper, lower, conf, e) = d
  BY DEF Detected
<1>u. upper # UNKNOWN /\ upper \in ProtocolOrUnknown
  BY ProtocolAssumption DEF ProtocolOrUnknown
<1>1. b \in Classification /\ b.upper \in Protocol
  BY <1>u, ChangeProtocol DEF OnlyVerdictDiffers
<1>2. b.upper = upper /\ b.confidence = conf
  BY <1>u DEF ndpi_int_change_protocol, Classification
<1> HIDE DEF b
<1>3. \A u \in ProtocolOrUnknown, l \in ProtocolOrUnknown, k \in Confidence :
         ndpi_int_change_protocol(b, u, l, k).confidence = k
  BY <1>1 DEF ndpi_int_change_protocol, Classification
<1>4. r.confidence \in {conf, "DPI_PARTIAL"}
  <2>1. /\ "MSTEAMS_CALL" \in ProtocolOrUnknown /\ "MSTEAMS" \in ProtocolOrUnknown
        /\ "TLS" \in ProtocolOrUnknown /\ "STUN" \in ProtocolOrUnknown
        /\ b.upper \in ProtocolOrUnknown /\ b.lower \in ProtocolOrUnknown
        /\ e.by_ip \in ProtocolOrUnknown /\ "DPI_PARTIAL" \in Confidence
        /\ b.confidence \in Confidence
    BY <1>1, ProtocolAssumption
       DEF NamedProtocol, ProtocolOrUnknown, Classification, Environment, Confidence
  <2> QED
    BY <1>2, <1>3, <2>1 DEF ndpi_reconcile_protocols, ndpi_reconcile_msteams_udp
<1>5. conf \in ByAddress => r = b
  BY <1>2 DEF ndpi_reconcile_protocols, ByAddress
<1>6. r \in Classification
  BY <1>1, Reconcile DEF OnlyVerdictDiffers
<1> HIDE DEF r, s
<1>7. d.confidence = r.confidence /\ d.upper = r.upper
  BY <1>6 DEF Classification
<1> HIDE DEF d
<1> QED
  BY <1>0, <1>2, <1>4, <1>5, <1>7 DEF ClaimedAs

\* c was not guessed: at most a dissector repeats the guess by IP.
Plain(c, ip) ==
    /\ ~c.protocol_was_guessed
    /\ c.confidence # "DPI_PARTIAL_CACHE"
    /\ c.confidence \in ByAddress => c.upper = ip
    /\ c.upper = UNKNOWN => c.confidence = "UNKNOWN"

\* c was guessed, from the sources the configuration allows, in its order.
FromGuess(c, port, ip) ==
    /\ c.protocol_was_guessed
    /\ c.upper # UNKNOWN
    /\ c.confidence \notin {"UNKNOWN", "NBPF", "DPI_CACHE", "DPI"}
    /\ c.confidence = "MATCH_BY_PORT" =>
         /\ "BY_PORT" \in GuessOnGiveup
         /\ ~(GuessIpBeforePort /\ "BY_IP" \in GuessOnGiveup /\ ip # UNKNOWN)
    /\ c.confidence = "MATCH_BY_IP" =>
         /\ "BY_IP" \in GuessOnGiveup
         /\ ~(~GuessIpBeforePort /\ "BY_PORT" \in GuessOnGiveup /\ port # UNKNOWN)

\* A verdict that is not a guess leaves the flow without one.
LEMMA PlainDetected ==
    ASSUME NEW c, Good(c), Open(c), NEW ip, Plain(c, ip), NEW e \in Environment,
           NEW upper \in Protocol, NEW lower \in ProtocolOrUnknown, NEW conf \in Confidence,
           conf # "DPI_PARTIAL_CACHE", conf \in ByAddress => upper = ip
    PROVE  LET d == ndpi_set_detected_protocol(c, upper, lower, conf, e)
           IN  Plain(d, ip) /\ Good(d) /\ d.state = "PARTIAL"
<1> DEFINE d == Detected(c, upper, lower, conf, e)
<1>1. ndpi_set_detected_protocol(c, upper, lower, conf, e) = d
  BY DEF ndpi_set_detected_protocol, Open
<1>2. upper # UNKNOWN /\ upper \in ProtocolOrUnknown
  BY ProtocolAssumption DEF ProtocolOrUnknown
<1>3. GoodVerdict(d) /\ d.state = "PARTIAL" /\ d.protocol_was_guessed = c.protocol_was_guessed
  BY <1>2, DetectedVerdict DEF Good
<1>4. ClaimedAs(d, upper, conf)
  BY DetectedConfidence DEF Good, GoodVerdict
<1>5. Good(d)
  BY <1>1, <1>2, SetDetected
<1> HIDE DEF d
<1>6. d.upper # UNKNOWN
  BY <1>3 DEF GoodVerdict
<1>7. d.confidence \in ByAddress => d.upper = ip
  BY <1>4 DEF ClaimedAs, ByAddress
<1>8. Plain(d, ip)
  BY <1>3, <1>4, <1>6, <1>7 DEF Plain, ClaimedAs
<1> QED
  BY <1>1, <1>3, <1>5, <1>8

\* What internal_giveup() may do to the verdict: nothing, or the custom rule on
\* the fingerprint replaces one that is no match by port or by IP.
LEMMA GiveupConfidence ==
    ASSUME NEW c, Good(c), c.state # "CLASSIFIED", NEW e \in Environment
    PROVE  LET d == internal_giveup(c, e)
           IN  /\ d.protocol_was_guessed = c.protocol_was_guessed
               /\ \/ d.upper = c.upper /\ d.confidence = c.confidence
                  \/ /\ d.upper # UNKNOWN
                     /\ d.confidence \in {"CUSTOM_RULE", "DPI_PARTIAL"}
<1> DEFINE b == [c EXCEPT !.already_gaveup = TRUE]
           f == FingerprintStep(b, e)
           d == internal_giveup(c, e)
           Same(x) == x.upper = c.upper /\ x.confidence = c.confidence
           Ruled(x) == x.upper # UNKNOWN /\ x.confidence \in {"CUSTOM_RULE", "DPI_PARTIAL"}
<1>c. c \in Classification /\ GoodVerdict(c)
  BY DEF Good, GoodVerdict
<1>1. CASE c.already_gaveup
  <2>1. d = [c EXCEPT !.errors = c.errors \union {"already_called"}]
    BY <1>1 DEF internal_giveup
  <2> QED
    BY <2>1, <1>c DEF Classification
<1>2. CASE ~c.already_gaveup
  <2>1. d = CloseState(f)
    BY <1>2 DEF internal_giveup
  <2>2. /\ b \in Classification /\ SameVerdict(c, b)
        /\ b.protocol_was_guessed = c.protocol_was_guessed
    BY ZenonT(60), <1>c DEF Classification, SameVerdict
  <2> HIDE DEF b
  <2>3. GoodVerdict(b)
    BY <2>2, <1>c DEF GoodVerdict, SameVerdict
  <2>4. /\ f \in Classification
        /\ f.protocol_was_guessed = c.protocol_was_guessed
        /\ Same(f) \/ Ruled(f)
    <3>1. CASE f = b
      BY <3>1, <2>2 DEF SameVerdict
    <3>2. CASE f # b
      <4> DEFINE m == ndpi_get_master_proto(b, e)
      <4>1. f = ndpi_set_detected_protocol(b, FingerprintProtocol, m, "CUSTOM_RULE", e)
        BY <3>2 DEF FingerprintStep, ndpi_compute_ndpi_flow_fingerprint
      <4>2. m \in ProtocolOrUnknown
        BY <2>2, ProtocolAssumption
           DEF ndpi_get_master_proto, ndpi_tls_refine_master_protocol, Classification,
               ProtocolOrUnknown, NamedProtocol
      <4>3. /\ FingerprintProtocol \in ProtocolOrUnknown /\ FingerprintProtocol # UNKNOWN
            /\ FingerprintProtocol \in Protocol /\ "CUSTOM_RULE" \in Confidence
        BY ProtocolAssumption DEF ProtocolOrUnknown, Confidence
      <4> HIDE DEF m
      <4>4. CASE b.state = "MONITORING"
        <5>1. f = [b EXCEPT !.errors = b.errors \union {"update_while_monitoring"}]
          BY <4>1, <4>4 DEF ndpi_set_detected_protocol
        <5> QED
          BY ZenonT(60), <5>1, <2>2 DEF Classification, SameVerdict, ErrorBranch
      <4>5. CASE b.state # "MONITORING"
        <5>1. f = Detected(b, FingerprintProtocol, m, "CUSTOM_RULE", e)
          BY <4>1, <4>5 DEF ndpi_set_detected_protocol
        <5>2. /\ GoodVerdict(f) /\ f.state = "PARTIAL"
              /\ f.protocol_was_guessed = b.protocol_was_guessed
          BY <5>1, <4>2, <4>3, <2>3, DetectedVerdict
        <5>3. ClaimedAs(f, FingerprintProtocol, "CUSTOM_RULE")
          BY <5>1, <4>2, <4>3, <2>2, DetectedConfidence
        <5> HIDE DEF f
        <5> QED
          BY <5>2, <5>3, <2>2 DEF GoodVerdict, ClaimedAs
      <4> QED
        BY <4>4, <4>5
    <3> QED
      BY <3>1, <3>2
  <2> HIDE DEF f
  <2>5. d.upper = f.upper /\ d.confidence = f.confidence
        /\ d.protocol_was_guessed = f.protocol_was_guessed
    BY <2>1, <2>4 DEF CloseState, Classification
  <2> HIDE DEF d
  <2> QED
    BY <2>4, <2>5 DEF d
<1> QED
  BY <1>1, <1>2

\* What the confidence of a source says about the configuration.
LEMMA GuessOrder ==
    ASSUME NEW c \in Classification, NEW e \in Environment, NEW i \in 1..6,
           GuessSources(c, e)[i].applies,
           \A j \in 1..6 : GuessSources(c, e)[j].applies => i <= j
    PROVE  LET src == GuessSources(c, e)[i]
           IN  /\ src.confidence \in
                     {"DPI_PARTIAL", "DPI_PARTIAL_CACHE", "MATCH_BY_IP", "MATCH_BY_PORT"}
               /\ src.confidence = "MATCH_BY_PORT" =>
                    /\ "BY_PORT" \in GuessOnGiveup
                    /\ ~(GuessIpBeforePort /\ "BY_IP" \in GuessOnGiveup /\ e.by_ip # UNKNOWN)
               /\ src.confidence = "MATCH_BY_IP" =>
                    /\ "BY_IP" \in GuessOnGiveup
                    /\ ~(~GuessIpBeforePort /\ "BY_PORT" \in GuessOnGiveup /\ e.by_port # UNKNOWN)
<1> DEFINE S == GuessSources(c, e)
<1>f. \A a, u, l, k : Source(a, u, l, k).confidence = k /\ (Source(a, u, l, k).applies <=> a)
  BY Zenon DEF Source
<1>1. /\ S[1].confidence = "DPI_PARTIAL"
      /\ S[2].confidence = "DPI_PARTIAL_CACHE"
      /\ S[3].confidence = "DPI_PARTIAL_CACHE"
      /\ S[4].confidence = "DPI_PARTIAL_CACHE"
  BY <1>f DEF GuessSources
<1>i. /\ ByIp(c, e).confidence = "MATCH_BY_IP"
      /\ ByIp(c, e).applies <=> "BY_IP" \in GuessOnGiveup /\ e.by_ip # UNKNOWN
  BY Zenon DEF ByIp, Source
<1>p. /\ ByPort(e).confidence = "MATCH_BY_PORT"
      /\ ByPort(e).applies <=> "BY_PORT" \in GuessOnGiveup /\ e.by_port # UNKNOWN
  BY Zenon DEF ByPort, Source
<1>2. CASE GuessIpBeforePort
  <2>1. /\ S[5].confidence = "MATCH_BY_IP" /\ S[6].confidence = "MATCH_BY_PORT"
        /\ S[5].applies <=> "BY_IP" \in GuessOnGiveup /\ e.by_ip # UNKNOWN
        /\ S[6].applies <=> "BY_PORT" \in GuessOnGiveup /\ e.by_port # UNKNOWN
    <3>1. S[5] = ByIp(c, e) /\ S[6] = ByPort(e)
      BY <1>2 DEF GuessSources
    <3> HIDE DEF S
    <3> QED
      BY Zenon, <1>i, <1>p, <3>1
  <2> HIDE DEF S
  <2>2. i = 6 => ~S[5].applies
    BY DEF S
  <2>3. S[i].applies
    BY DEF S
  <2> QED
    BY <1>1, <1>2, <2>1, <2>2, <2>3 DEF S
<1>3. CASE ~GuessIpBeforePort
  <2>1. /\ S[6].confidence = "MATCH_BY_IP" /\ S[5].confidence = "MATCH_BY_PORT"
        /\ S[6].applies <=> "BY_IP" \in GuessOnGiveup /\ e.by_ip # UNKNOWN
        /\ S[5].applies <=> "BY_PORT" \in GuessOnGiveup /\ e.by_port # UNKNOWN
    <3>1. S[6] = ByIp(c, e) /\ S[5] = ByPort(e)
      BY <1>3 DEF GuessSources
    <3> HIDE DEF S
    <3> QED
      BY Zenon, <1>i, <1>p, <3>1
  <2> HIDE DEF S
  <2>2. i = 6 => ~S[5].applies
    BY DEF S
  <2>3. S[i].applies
    BY DEF S
  <2> QED
    BY <1>1, <1>3, <2>1, <2>2, <2>3 DEF S
<1> QED
  BY <1>2, <1>3

\* A guess comes from the first source that applies: by port before by IP, or
\* the other way round, as guess_ip_before_port says.
LEMMA GuessedFrom ==
    ASSUME NEW c, Good(c), Open(c), NEW e \in Environment
    PROVE  LET g == Guessed(c, e)
           IN  g = c \/ FromGuess(g, e.by_port, e.by_ip)
<1>c. c \in Classification /\ GoodVerdict(c)
  BY DEF Good, GoodVerdict
<1>1. CASE Applicable(c, e) = {}
  BY <1>1 DEF Guessed
<1>2. CASE Applicable(c, e) # {}
  <2> DEFINE i   == CHOOSE k \in Applicable(c, e) : \A j \in Applicable(c, e) : k <= j
             src == GuessSources(c, e)[i]
             d   == ndpi_set_detected_protocol(c, src.upper, src.lower, src.confidence, e)
             g   == [d EXCEPT !.protocol_was_guessed = TRUE]
  <2>g. Guessed(c, e) = g
    BY <1>2 DEF Guessed
  <2>a. Applicable(c, e) \in SUBSET (1..6)
    BY DEF Applicable
  <2>1. i \in Applicable(c, e) /\ \A j \in Applicable(c, e) : i <= j
    BY <1>2, <2>a, FirstApplicable
  <2> HIDE DEF i
  <2>3. i \in 1..6 /\ src.applies
    BY <2>1 DEF Applicable
  <2>4. /\ src.upper \in ProtocolOrUnknown /\ src.lower \in ProtocolOrUnknown
        /\ src.confidence \in Confidence /\ src.upper # UNKNOWN
    BY <1>c, <2>3, SourcesName
  <2>5. /\ src.confidence \in {"DPI_PARTIAL", "DPI_PARTIAL_CACHE", "MATCH_BY_IP", "MATCH_BY_PORT"}
        /\ src.confidence = "MATCH_BY_PORT" =>
             /\ "BY_PORT" \in GuessOnGiveup
             /\ ~(GuessIpBeforePort /\ "BY_IP" \in GuessOnGiveup /\ e.by_ip # UNKNOWN)
        /\ src.confidence = "MATCH_BY_IP" =>
             /\ "BY_IP" \in GuessOnGiveup
             /\ ~(~GuessIpBeforePort /\ "BY_PORT" \in GuessOnGiveup /\ e.by_port # UNKNOWN)
    <3>1. \A j \in 1..6 : GuessSources(c, e)[j].applies => i <= j
      BY <2>1 DEF Applicable
    <3> QED
      BY <1>c, <2>3, <3>1, GuessOrder
  <2>6. d = Detected(c, src.upper, src.lower, src.confidence, e)
    BY DEF ndpi_set_detected_protocol, Open
  <2> HIDE DEF src
  <2>u. src.upper \in Protocol
    BY <2>4 DEF ProtocolOrUnknown
  <2>7. GoodVerdict(d) /\ d.state = "PARTIAL"
    BY <2>4, <2>6, <1>c, DetectedVerdict
  <2>8. ClaimedAs(d, src.upper, src.confidence)
    BY <2>4, <2>6, <2>u, <1>c, DetectedConfidence
  <2> HIDE DEF d
  <2>9. d.upper # UNKNOWN /\ d \in Classification
    BY <2>7 DEF GoodVerdict
  <2>10. g.upper = d.upper /\ g.confidence = d.confidence /\ g.protocol_was_guessed
    BY <2>9 DEF Classification
  <2> HIDE DEF g
  <2>11. FromGuess(g, e.by_port, e.by_ip)
    BY <2>5, <2>8, <2>9, <2>10 DEF FromGuess, ClaimedAs
  <2> QED
    BY <2>g, <2>11
<1> QED
  BY <1>1, <1>2
-----------------------------------------------------------------------------
(* The mark and the confidence of a guess, step by step.                    *)

\* A flow that was not guessed, or one closed by a guess.
GuessedOrPlain(c, port, ip) ==
    \/ Plain(c, ip)
    \/ FromGuess(c, port, ip) /\ c.state = "CLASSIFIED"

\* Closing a flow that was not guessed leaves it so.
LEMMA PlainGiveup ==
    ASSUME NEW c, Good(c), c.state # "CLASSIFIED", NEW ip, Plain(c, ip), NEW e \in Environment
    PROVE  Plain(internal_giveup(c, e), ip)
<1> DEFINE d == internal_giveup(c, e)
<1>1. /\ d.protocol_was_guessed = c.protocol_was_guessed
      /\ \/ d.upper = c.upper /\ d.confidence = c.confidence
         \/ d.upper # UNKNOWN /\ d.confidence \in {"CUSTOM_RULE", "DPI_PARTIAL"}
  BY GiveupConfidence
<1> HIDE DEF d
<1>2. Plain(d, ip)
  BY <1>1 DEF Plain, ByAddress
<1> QED
  BY <1>2 DEF d

\* ndpi_internal_detection_giveup() marks what it guesses, and closes the flow.
LEMMA GiveupGuesses ==
    ASSUME NEW c, Good(c), NEW e \in Environment,
           GuessedOrPlain(c, e.by_port, e.by_ip)
    PROVE  GuessedOrPlain(ndpi_internal_detection_giveup(c, e), e.by_port, e.by_ip)
<1> DEFINE d == ndpi_internal_detection_giveup(c, e)
<1>1. CASE c.state = "CLASSIFIED"
  BY <1>1 DEF ndpi_internal_detection_giveup
<1>2. CASE c.state # "CLASSIFIED" /\ c.upper # UNKNOWN
  <2>1. d = internal_giveup(c, e) /\ Plain(c, e.by_ip)
    BY <1>2 DEF ndpi_internal_detection_giveup, GuessedOrPlain
  <2> QED
    BY <1>2, <2>1, PlainGiveup DEF GuessedOrPlain
<1>3. CASE c.state # "CLASSIFIED" /\ c.upper = UNKNOWN
  <2> DEFINE g == Guessed(c, e)
  <2>1. d = internal_giveup(g, e) /\ Plain(c, e.by_ip)
    BY <1>3 DEF ndpi_internal_detection_giveup, GuessedOrPlain
  <2>2. Open(c)
    BY <1>3, Cases
  <2>3. Good(g) /\ Open(g)
    BY <2>2, GuessedVerdict
  <2>4. g = c \/ FromGuess(g, e.by_port, e.by_ip)
    BY <2>2, GuessedFrom
  <2> HIDE DEF g
  <2>5. g.state # "CLASSIFIED"
    BY <2>3 DEF Open
  <2>6. CASE g = c
    BY <2>1, <2>3, <2>5, <2>6, PlainGiveup DEF GuessedOrPlain
  <2>7. CASE FromGuess(g, e.by_port, e.by_ip)
    <3>1. d.state = "CLASSIFIED"
      BY Zenon, <2>1, <2>3, <2>5, InternalGiveup
    <3>2. /\ d.protocol_was_guessed = g.protocol_was_guessed
          /\ \/ d.upper = g.upper /\ d.confidence = g.confidence
             \/ d.upper # UNKNOWN /\ d.confidence \in {"CUSTOM_RULE", "DPI_PARTIAL"}
      BY Zenon, <2>1, <2>3, <2>5, GiveupConfidence
    <3> HIDE DEF d
    <3>3. FromGuess(d, e.by_port, e.by_ip)
      BY <2>7, <3>2 DEF FromGuess
    <3> QED
      BY Zenon, <3>1, <3>3 DEF GuessedOrPlain, d
  <2> QED
    BY <2>4, <2>6, <2>7
<1> QED
  BY <1>1, <1>2, <1>3
=============================================================================
