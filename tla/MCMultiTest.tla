----------------------------- MODULE MCMultiTest -----------------------------
(* The environments of package.xml with one or two hosts on each side.  The  *)
(* one for two initiators and two targets is named there, too, although its *)
(* second target has the name of the first.                                  *)
EXTENDS MultiTest

CONSTANT disconnect_rpcs  \* the server that these tests do not have

MCPairs == {0, 1} \X {0, 1}
MCServers == MCPairs \cup {disconnect_rpcs}
MCRootOf == [p \in MCPairs |-> p]
MCDiscOf == [p \in MCPairs |-> disconnect_rpcs]
MCAppOn == [p \in MCPairs |-> p]
MCIfaces == {"init", "tgt"} \X {0, 1}

MCEnvironments ==
  [inits : {1, 2}, tgts : {1, 2}, netem : {"never"}]
  \cup {[inits |-> 1, tgts |-> 2, netem |-> at] : at \in {"before", "after"}}
  \cup {[inits |-> 2, tgts |-> 1, netem |-> at] : at \in {"before", "after"}}
MCDurations == [p \in MCPairs |-> {"quick", "stuck"}]

MCParams == [mtu |-> 9000, tso |-> "on", lro |-> "off",
             if_delay_msec |-> 5, if_loss_proc |-> 1, if_corruption_prob |-> 2]
=============================================================================
