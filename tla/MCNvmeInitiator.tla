-------------------------- MODULE MCNvmeInitiator --------------------------
(* Three wrapper objects of one agent: they share the root server of the     *)
(* test and, as every object names its server "disconnect_rpcs", that one    *)
(* too.  The first is also disconnected without the wrapper; only deletes of *)
(* the first two may outlast the five minutes.                               *)
EXTENDS NvmeInitiator

CONSTANTS i1, i2, i3, root1, disc1

SharedRootOf == [i \in {i1, i2, i3} |-> root1]
SharedDiscOf == [i \in {i1, i2, i3} |-> disc1]
UnevenDurations == [i \in {i1, i2, i3} |->
                      CASE i = i1 -> {"quick", "slow", "stuck"}
                        [] i = i2 -> {"quick", "stuck"}
                        [] OTHER  -> {"quick", "slow"}]
=============================================================================
