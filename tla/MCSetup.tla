------------------------------ MODULE MCSetup ------------------------------
(* Setup for TLC.                                                          *)
EXTENDS Setup

Line(p, q, timing, net, n) ==
    [port |-> p, queue |-> q, vlan |-> "vlan" \in net, ip |-> "ip" \in net,
     period |-> timing[1], offset |-> timing[2], size |-> n]

\* With WORD = 64 the cycle of periods 9 and 10 does not fit the word, the cycles of
\* all other pairs do; offset 7 lies beyond some of the periods.  A payload of 1200
\* bytes does not fit twice into a buffer.
MCFlowConfigs ==
    {Line(0, 0, <<4, 0>>, {}, 8),         Line(0, 0, <<6, 7>>, {"ip"}, 8),
     Line(0, 1, <<6, 0>>, {"ip"}, 1200),  Line(0, 1, <<9, 7>>, {"vlan"}, 8),
     Line(1, 0, <<4, 7>>, {"vlan", "ip"}, 8), Line(1, 0, <<10, 0>>, {}, 1200),
     Line(1, 1, <<10, 7>>, {"ip"}, 8),    Line(1, 1, <<4, 7>>, {"vlan", "ip"}, 1200)}

\* Two ports whose devices have as many queues as the program uses, or four of each
\* kind like the I210 and I225 of src/README.txt.
MCDevices == {[tx |-> 2, rx |-> 1], [tx |-> 4, rx |-> 4]}

\* One port, with as many queues as the program uses.
OnePortConfigs == {f \in MCFlowConfigs : f.port = 0}
OneDevice == {[tx |-> 2, rx |-> 1]}
=============================================================================
