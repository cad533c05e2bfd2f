------------------------------ MODULE FlowRisks ------------------------------
(***************************************************************************)
(* ndpi_utils.c, ndpi_main.c: the risks of a flow, the messages that       *)
(* explain them, and the exceptions that mask them.                        *)
(*                                                                         *)
(* flow->risk is the set of the risks raised and flow->risk_infos the      *)
(* messages kept, each under the risk it explains.  A 64 bit mask is the   *)
(* set of risks it lets through.  The masks configured for the host name   *)
(* and for the two addresses of the flow are chosen once: they come from   *)
(* the configuration, which is loaded before the first packet.  The text   *)
(* of a message is a member of RiskMessage; two messages joined with ";"   *)
(* are a set of two.  Memory never runs out.                               *)
(***************************************************************************)
EXTENDS Lists

CONSTANTS Risk,          \* the risks, enum ndpi_risk_enum
          RiskMessage,   \* the texts that explain a risk
          EnabledRisk,   \* cfg.flowrisk_bitmask
          InfoRisk,      \* cfg.flowrisk_info_bitmask
          Desktop,       \* NDPI_DESKTOP_OR_FILE_SHARING_SESSION
          Unsafe,        \* NDPI_UNSAFE_PROTOCOL
          RiskMask,      \* the masks the configuration may hold, and no mask
          MAX_NUM_RISK_INFOS,
          RiskMaxSteps   \* bound: calls on one flow

NoMessage == "none"

ASSUME RiskAssumption ==
  /\ Desktop \in Risk /\ Unsafe \in Risk
  /\ EnabledRisk \subseteq Risk
  /\ InfoRisk \subseteq Risk
  /\ RiskMask \subseteq SUBSET Risk /\ Risk \in RiskMask
  /\ MAX_NUM_RISK_INFOS \in Nat /\ RiskMaxSteps \in Nat
  /\ NoMessage \notin RiskMessage

VARIABLE k   \* what the flow knows of its risks

\* A mask of -1 lets every risk through.
NoMask == Risk

NewRisks(host, client, server) ==
  [risk |-> {}, risk_shadow |-> {}, risk_mask |-> {}, infos |-> <<>>,
   host_risk_mask_evaluated |-> FALSE, ip_risk_mask_evaluated |-> FALSE,
   named |-> FALSE, monitoring |-> FALSE,
   host_mask |-> host, ip_mask |-> <<client, server>>, steps |-> 0]

ndpi_isset_risk(f, x) == x \in f.risk

Info(x, m) == [id |-> x, info |-> {m}]

\* One more message, while there is room for it.
StoreInfo(f, x, m) ==
  IF Len(f.infos) < MAX_NUM_RISK_INFOS
  THEN [f EXCEPT !.infos = Append(@, Info(x, m))]
  ELSE f

\* The first message kept for the risk x, 0 when there is none.
InfoOf(f, x) ==
  LET at == {i \in DOMAIN f.infos : f.infos[i].id = x}
  IN IF at = {} THEN 0 ELSE CHOOSE i \in at : \A j \in at : i <= j

\* The message at a place is made longer.
LongerInfo(s, n, m) == [s EXCEPT ![n] = [id |-> @.id, info |-> @.info \union {m}]]

\* Wrong on purpose: a new risk is kept whatever the mask says.
RaiseNew_AnyMask(f, x, m) ==
  LET g == [f EXCEPT !.risk = @ \union {x}]
  IN IF x \in InfoRisk /\ m # NoMessage THEN StoreInfo(g, x, m) ELSE g

\* The risk is new.  Only an exception that came with the host name is looked
\* at, and a message is kept whenever the flow has a risk, this one or another.
RaiseNew(f, x, m) ==
  LET v == IF f.host_risk_mask_evaluated THEN {x} \intersect f.risk_mask ELSE {x}
      g == [f EXCEPT !.risk = @ \union v]
  IN IF g.risk # {} /\ x \in InfoRisk /\ m # NoMessage
     THEN StoreInfo(g, x, m)
     ELSE g

\* The risk is there already: its message is made longer, or a first one is kept.
RaiseAgain(f, x, m) ==
  IF x \notin InfoRisk \/ m = NoMessage THEN f
  ELSE IF InfoOf(f, x) # 0
  THEN [f EXCEPT !.infos = LongerInfo(@, InfoOf(f, x), m)]
  ELSE StoreInfo(f, x, m)

ndpi_set_risk(f, x, m) ==
  IF x \notin EnabledRisk THEN f
  ELSE IF ndpi_isset_risk(f, x) THEN RaiseAgain(f, x, m)
  ELSE RaiseNew(f, x, m)

\* for(i...) if(id == r) { shift down; num--; }: the entry that moves to the place of the one
\* dropped is passed over, so that of a row of entries for x every second one stays.
DroppedAt(s, x, i) ==
  /\ s[i].id = x
  /\ Cardinality({j \in 1..i : \A n \in j..i : s[n].id = x}) % 2 = 1

DropInfo(s, x) == EntriesAt(s, {i \in DOMAIN s : ~DroppedAt(s, x, i)})

ndpi_unset_risk(f, x) ==
  IF ~ndpi_isset_risk(f, x) THEN f
  ELSE [f EXCEPT !.risk = @ \ {x},
                 !.infos = IF x \in InfoRisk THEN DropInfo(@, x) ELSE @]

\* ndpi_check_hostname_risk_exception: a name that matches no exception leaves the
\* mask as it is.  A mask that lets nothing through takes the messages away.
HostExceptions(f) ==
  IF f.host_risk_mask_evaluated \/ ~f.named THEN f
  ELSE LET mask == f.risk_mask \intersect f.host_mask
       IN [f EXCEPT !.risk_mask = mask,
                    !.infos = IF mask = {} THEN <<>> ELSE @,
                    !.host_risk_mask_evaluated = TRUE]

\* ndpi_check_ipv4_exception, ndpi_check_ipv6_exception: the client, the server.
AddressExceptions(f) ==
  IF f.ip_risk_mask_evaluated THEN f
  ELSE [f EXCEPT !.risk_mask = (@ \intersect f.ip_mask[1]) \intersect f.ip_mask[2],
                 !.ip_risk_mask_evaluated = TRUE]

ndpi_handle_risk_exceptions(f) ==
  IF f.risk = {} THEN f
  ELSE LET g == IF f.host_risk_mask_evaluated \/ f.ip_risk_mask_evaluated THEN f
                ELSE [f EXCEPT !.risk_mask = NoMask]
           e == AddressExceptions(HostExceptions(g))
       IN [e EXCEPT !.risk = @ \intersect e.risk_mask]

Evaluated(f) ==
  IF f.risk = {} \/ f.risk = f.risk_shadow THEN f
  ELSE LET g == ndpi_handle_risk_exceptions(f)
       IN [g EXCEPT !.risk_shadow = g.risk]

\* The risks of the protocols just set are raised after the exceptions: remote has
\* the message of RDP or AnyDesk, unsafe is what the breed of a protocol says.
ndpi_reconcile_protocols(f, remote, unsafe) ==
  LET e == Evaluated(f)
      g == IF remote = NoMessage THEN e ELSE ndpi_set_risk(e, Desktop, remote)
  IN IF unsafe THEN ndpi_set_risk(g, Unsafe, NoMessage) ELSE g

RiskInit == \E host, client, server \in RiskMask : k = NewRisks(host, client, server)

\* The flow after one more call.
RiskCall(f) ==
  /\ k.steps < RiskMaxSteps
  /\ k' = [f EXCEPT !.steps = @ + 1]

\* A dissector raises a risk.
RiskSet == \E x \in Risk, m \in RiskMessage \union {NoMessage} :
  RiskCall(ndpi_set_risk(k, x, m))

\* A dissector takes a risk back: reset() in http.c, a new server name in tls.c.
RiskUnset == \E x \in Risk : RiskCall(ndpi_unset_risk(k, x))

\* ndpi_hostname_sni_set: the flow has a name now.
RiskName == /\ ~k.named
            /\ RiskCall([k EXCEPT !.named = TRUE])

\* ndpi_set_detected_protocol: nothing changes while the flow is monitored.
RiskClassify == \E remote \in RiskMessage \union {NoMessage}, unsafe \in BOOLEAN :
  /\ ~k.monitoring
  /\ RiskCall(ndpi_reconcile_protocols(k, remote, unsafe))

\* The flow goes to NDPI_STATE_MONITORING: there is no classification after it.
RiskMonitor == /\ ~k.monitoring
               /\ RiskCall([k EXCEPT !.monitoring = TRUE])

RiskNext == RiskSet \/ RiskUnset \/ RiskName \/ RiskClassify \/ RiskMonitor

RiskSpec == RiskInit /\ [][RiskNext]_k

-----------------------------------------------------------------------------
\* The fields have their types and the messages fit their array.
RiskTypeOK ==
  /\ k.risk \subseteq Risk /\ k.risk_shadow \subseteq Risk /\ k.risk_mask \subseteq Risk
  /\ k.infos \in Seq([id : Risk, info : SUBSET RiskMessage])
  /\ Len(k.infos) <= MAX_NUM_RISK_INFOS
  /\ k.steps \in 0..RiskMaxSteps

\* Once the exception of the host name was looked at, no risk is reported that the
\* masks of the name, the client and the server hold back: neither one raised
\* before (ndpi_handle_risk_exceptions) nor one raised later (ndpi_set_risk).  The
\* messages explain the risks: outside the risks an exception holds back, a message
\* belongs to a risk the flow has, and a risk has one message at most, so that
\* ndpi_unset_risk, which passes over the entry after the one it drops, leaves none
\* behind.
RisksExplained ==
  /\ k.host_risk_mask_evaluated =>
       /\ k.risk \subseteq k.host_mask \intersect k.ip_mask[1] \intersect k.ip_mask[2]
       /\ k.ip_risk_mask_evaluated
  /\ \A i \in DOMAIN k.infos :
       LET x == k.infos[i].id
       IN \/ k.ip_risk_mask_evaluated /\ x \notin k.risk_mask
          \/ /\ x \in k.risk
             /\ \A j \in DOMAIN k.infos : k.infos[j].id = x => j = i
=============================================================================
