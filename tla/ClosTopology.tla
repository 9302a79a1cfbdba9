--------------------------- MODULE ClosTopology ---------------------------
(***************************************************************************)
(* The static shape of the Clos fabric that class ClosTopology builds      *)
(* (scratch/swarm/swarm.{h,cc}): the switches, the cables between them,    *)
(* and the arithmetic that turns a flat switch number, as a scenario file  *)
(* writes it, into a pod and an index, and a cable into interface numbers. *)
(*                                                                         *)
(* A switch is a pair.  For edge and aggregation switches it is            *)
(* <<pod, index in the pod>>; for a core it is <<column, row>>, where the  *)
(* column is the index of the aggregation switch that the core is cabled   *)
(* to in every pod.                                                        *)
(***************************************************************************)
EXTENDS Integers

CONSTANTS
    SwitchRadix,    \* topolgoy_descriptor::switchRadix
    NumPods,        \* topolgoy_descriptor::numPods
    NumServers      \* topolgoy_descriptor::numServers, servers of one ToR

ASSUME RadixAssumption == SwitchRadix \in Nat /\ SwitchRadix >= 2 /\ SwitchRadix % 2 = 0
ASSUME PodsAssumption == NumPods \in Nat \ {0}
ASSUME ServersAssumption == NumServers \in Nat \ {0}

(* numAggAndEdgeeSwitchesPerPod: edges per pod, aggregates per pod, and    *)
(* cores per aggregate.                                                    *)
Half == SwitchRadix \div 2

Pods == 0 .. NumPods - 1
Idx == 0 .. Half - 1
Servers == 0 .. NumServers - 1

Edge == Pods \X Idx
Agg == Pods \X Idx
Core == Idx \X Idx

(* The two kinds of cable a link command may name: edge to aggregate of    *)
(* one pod, and aggregate to core of one column.                           *)
EdgeLink == [tier : {"edge"}, pod : Pods, edge : Idx, agg : Idx]
CoreLink == [tier : {"core"}, pod : Pods, agg : Idx, row : Idx]
Link == EdgeLink \cup CoreLink

EdgeCable(p, e, a) == [tier |-> "edge", pod |-> p, edge |-> e, agg |-> a]
CoreCable(p, a, r) == [tier |-> "core", pod |-> p, agg |-> a, row |-> r]

---------------------------------------------------------------------------
(* Flat numbers.                                                           *)

FlatIndex(p, i) == p * Half + i
CoreIndex(col, row) == row * Half + col
PodAndIndex(flat) == <<flat \div Half, flat % Half>>

(* Mutant: the pods' ranges of levels overlap by one.                      *)
TorLevelOverlapping(p, e) == p * ((SwitchRadix \div 2) - 1) + e

(* torLevelMapper: the WCMP level of a destination 10.p.e.x, one level for *)
(* every ToR.                                                              *)
TorLevel(p, e) == (p * SwitchRadix) \div 2 + e

(* getLinkInterfaceIndices on flat numbers: the interface of the lower     *)
(* switch and the one of the upper switch.                                 *)
EdgeAggInterfaces(ei, aj) ==
    <<NumServers + PodAndIndex(aj)[2] + 1, PodAndIndex(ei)[2] + 1>>

AggCoreInterfaces(ai, cj) ==
    <<(cj \div Half) + Half + 1, PodAndIndex(ai)[1] + 1>>

===========================================================================
