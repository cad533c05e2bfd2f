------------------------------ MODULE MCVerdicts ------------------------------
(***************************************************************************)
(* What decides about a flow and what an application is told of it, for    *)
(* TLC: each of the small dissectors, the rules a new flow is guessed      *)
(* from, the risks of a flow, the serializer, and the flow table of the    *)
(* reader.  They share no state: a behaviour is one of the part it chose   *)
(* at its start.                                                           *)
(***************************************************************************)
EXTENDS Dissectors, FlowRisks, MCSerializer, ReaderFlows, MCRules

VARIABLE part

verdictsVars == <<part, d, f, g, k, z, reader, rules>>

\* Two conversations, one of them seen in both directions, in different roots.
MCReaderKeys ==
    {[vlan |-> 0, proto |-> 6, src |-> 1, dst |-> 2], [vlan |-> 0, proto |-> 6, src |-> 2, dst |-> 1],
     [vlan |-> 1, proto |-> 6, src |-> 1, dst |-> 2]}

\* A live capture, one that exports to a dissector of packets, and a file whose report is split.
MCReaderOptions ==
    {[live_capture |-> TRUE, enable_flow_stats |-> TRUE, extcap |-> FALSE, analysis_duration |-> 7],
     [live_capture |-> TRUE, enable_flow_stats |-> FALSE, extcap |-> TRUE, analysis_duration |-> 7],
     [live_capture |-> FALSE, enable_flow_stats |-> TRUE, extcap |-> FALSE, analysis_duration |-> 0]}

\* Exceptions for nothing, one risk, the other, and all.
MCMasks == {{}, {"desktop"}, {"unsafe"}, Risk}

-----------------------------------------------------------------------------
(* A part that was not chosen stays at one of its initial states.          *)

IdleDissector ==
  /\ d = "zmq"
  /\ f = CHOOSE flow \in FlowsOf("zmq") : TRUE
  /\ g = Mirrored(f)

IdleRisks == k = NewRisks(NoMask, NoMask, NoMask)

IdleSer == z = [NewSerializer("json", 4) EXCEPT !.sc = "json_tree"]

IdleReader == reader = NewReader(CHOOSE options \in ReaderOptions : TRUE)

VerdictsInit ==
  /\ part \in {"dissectors", "risks", "serializer", "reader", "rules"}
  /\ IF part = "dissectors" THEN DissectInit ELSE IdleDissector
  /\ IF part = "risks" THEN RiskInit ELSE IdleRisks
  /\ IF part = "serializer" THEN SerInit ELSE IdleSer
  /\ IF part = "reader" THEN ReaderInit ELSE IdleReader
  /\ RulesInit

VerdictsNext ==
  \/ part = "dissectors" /\ DissectNext /\ UNCHANGED <<part, k, z, reader, rules>>
  \/ part = "risks" /\ RiskNext /\ UNCHANGED <<part, d, f, g, z, reader, rules>>
  \/ part = "serializer" /\ SerNext /\ UNCHANGED <<part, d, f, g, k, reader, rules>>
  \/ part = "reader" /\ ReaderNext /\ UNCHANGED <<part, d, f, g, k, z, rules>>
  \/ part = "rules" /\ RulesNext /\ UNCHANGED <<part, d, f, g, k, z, reader>>

VerdictsSpec == VerdictsInit /\ [][VerdictsNext]_verdictsVars
=============================================================================
