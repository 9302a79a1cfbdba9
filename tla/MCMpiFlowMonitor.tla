------------------------- MODULE MCMpiFlowMonitor -------------------------
(* Instance of MpiFlowMonitor: two processes, the hosts 0 and 1 on one of  *)
(* them and 2 on the other.  Two flows leave host 0, one for each process, *)
(* one comes to it from the other process, and a sink acknowledges one.    *)
EXTENDS MpiFlowMonitor

Tuple(src, dst, port) == [src |-> src, dst |-> dst, port |-> port]

TwoWays == {Tuple(0, 1, 20), Tuple(0, 2, 20), Tuple(2, 0, 20), Tuple(2, 0, DiscardPort)}
===========================================================================
