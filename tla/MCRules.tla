------------------------------- MODULE MCRules -------------------------------
(***************************************************************************)
(* Rules for TLC: three built-in protocols, of which the last is disabled, *)
(* two of them with a default port, and rules for them and for protocols   *)
(* of their own on the same ports, the same networks and the same names.   *)
(***************************************************************************)
EXTENDS CustomRules

MCRange(low, high) == [port_low |-> low, port_high |-> high, is_custom |-> FALSE]

MCBuiltIn ==
    << [name |-> "HTTP", tcp |-> << MCRange(1, 1) >>, udp |-> << >>],
       [name |-> "TLS", tcp |-> << MCRange(3, 3) >>, udp |-> << MCRange(3, 3) >>],
       [name |-> "SIP", tcp |-> << MCRange(2, 2) >>, udp |-> << >>] >>

MCRuleNets == [n \in {<< 0 >>, << 1, 0 >>} |-> IF n = << 0 >> THEN 1 ELSE 2]

MCRuleHosts == [host \in {"com", "org"} |-> IF host = "com" THEN 2 ELSE 3]

MCPrivate == {<< 1, 1 >>}

MCPortElem(l4, low, high) == [kind |-> l4, low |-> low, high |-> high]

MCIp(net, port) == [kind |-> "ip", net |-> net, port |-> port]

MCElemRule(name, id, elems) == [proto |-> name, user_id |-> id, elems |-> elems]

MCRuleSet ==
    {MCElemRule("A", 0, << MCPortElem("tcp", 3, 3), MCPortElem("tcp", 2, 2), MCPortElem("tcp", 4, 4) >>),
     MCElemRule("A", 6, << MCIp(<< 0, 1 >>, 8), MCIp(<< 0, 1 >>, 4), MCIp(<< 0, 1 >>, 3),
                           MCIp(<< 1 >>, 0) >>),
     MCElemRule("B", 5, << MCPortElem("tcp", 1, 4), MCPortElem("udp", 0, 0),
                           [kind |-> "host", host |-> "com"] >>),
     MCElemRule("B", 0, << MCIp(<< 1, 0 >>, 1), [kind |-> "key", key |-> "ja4"],
                           [kind |-> "host", host |-> "net"] >>),
     MCElemRule("B", 4, << MCPortElem("udp", 2, 2) >>),
     MCElemRule("SIP", 0, << MCPortElem("tcp", 2, 2), MCPortElem("udp", 3, 3), [kind |-> "bad"],
                             MCIp(<< 0, 1 >>, 0) >>),
     MCElemRule("TLS", 0, << MCPortElem("udp", 4, 4), [kind |-> "key", key |-> "ja4"] >>)}

MCFlow(l4, sport, dport, client, server) ==
    [l4 |-> l4, sport |-> sport, dport |-> dport, client |-> client, server |-> server]

MCGuessFlows ==
    {MCFlow("tcp", 9, port, << 1, 1 >>, << 1, 0 >>) : port \in 1 .. 4}
    \union {MCFlow("tcp", 4, 9, << 1, 0 >>, << 1, 1 >>), MCFlow("udp", 9, 3, << 1, 0 >>, << 0, 1 >>),
            MCFlow("udp", 4, 9, << 0, 0 >>, << 0, 1 >>)}

\* One built-in rule on the port of a protocol with a higher identifier is enough.
MCPortRules == {MCElemRule("HTTP", 0, << MCPortElem("tcp", 3, 3) >>),
                MCElemRule("A", 0, << MCPortElem("tcp", 2, 2) >>)}
=============================================================================
