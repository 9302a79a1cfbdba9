------------------------ MODULE FabricInterfaces -------------------------
(***************************************************************************)
(* ClosTopology::createFabricInterfaces: three nests of loops add one      *)
(* interface after the other to the switches, and ns-3 numbers them in the *)
(* order in which they are added, from 1 after the loopback.  Everything   *)
(* that configures a switch later (doEcmp, setupCoreRouting, the link      *)
(* commands and their mitigation) computes those numbers instead of        *)
(* looking them up.  One action is one iteration of an innermost loop.     *)
(***************************************************************************)
EXTENDS ClosTopology

VARIABLES
    phase,          \* which nest of loops runs
    pod, i, j,      \* its loop variables, outermost first
    edgeIfs, aggIfs, coreIfs,   \* interfaces of every switch, loopback included
    edgeServerIf,   \* number of the edge's interface to each of its servers
    edgeAggIf,      \* ... to each aggregate of its pod
    aggEdgeIf,      \* number of the aggregate's interface to each edge
    aggCoreIf,      \* ... to each core row
    coreAggIf       \* number of the core's interface to each pod

position == <<phase, pod, i, j>>
counters == <<edgeIfs, aggIfs, coreIfs>>
numbers == <<edgeServerIf, edgeAggIf, aggEdgeIf, aggCoreIf, coreAggIf>>
interfacesVars == <<position, counters, numbers>>

(* An installed internet stack has the loopback interface, number 0; the   *)
(* number 0 stands for "not created yet" elsewhere.                        *)
InterfacesInit ==
    /\ phase = "server" /\ pod = 0 /\ i = 0 /\ j = 0
    /\ edgeIfs = [s \in Edge |-> 1]
    /\ aggIfs = [s \in Agg |-> 1]
    /\ coreIfs = [c \in Core |-> 1]
    /\ edgeServerIf = [s \in Edge |-> [k \in Servers |-> 0]]
    /\ edgeAggIf = [s \in Edge |-> [a \in Idx |-> 0]]
    /\ aggEdgeIf = [s \in Agg |-> [e \in Idx |-> 0]]
    /\ aggCoreIf = [s \in Agg |-> [r \in Idx |-> 0]]
    /\ coreAggIf = [c \in Core |-> [p \in Pods |-> 0]]

(* The next iteration of three nested loops whose innermost runs to limit. *)
Advance(limit, nextPhase) ==
    \/ /\ j + 1 < limit
       /\ j' = j + 1
       /\ UNCHANGED <<phase, pod, i>>
    \/ /\ j + 1 = limit /\ i + 1 < Half
       /\ j' = 0 /\ i' = i + 1
       /\ UNCHANGED <<phase, pod>>
    \/ /\ j + 1 = limit /\ i + 1 = Half /\ pod + 1 < NumPods
       /\ j' = 0 /\ i' = 0 /\ pod' = pod + 1
       /\ UNCHANGED phase
    \/ /\ j + 1 = limit /\ i + 1 = Half /\ pod + 1 = NumPods
       /\ j' = 0 /\ i' = 0 /\ pod' = 0
       /\ phase' = nextPhase

(* An edge's interface to its j-th server.                                 *)
AddServerInterface ==
    LET s == <<pod, i>> IN
    /\ phase = "server"
    /\ edgeIfs' = [edgeIfs EXCEPT ![s] = @ + 1]
    /\ edgeServerIf' = [edgeServerIf EXCEPT ![s][j] = edgeIfs[s]]
    /\ Advance(NumServers, "aggEdge")
    /\ UNCHANGED <<aggIfs, coreIfs, edgeAggIf, aggEdgeIf, aggCoreIf, coreAggIf>>

(* Mutant: the cable between edge i and aggregate j, loops swapped on one  *)
(* side only.                                                              *)
AddAggEdgeInterfacesCrossed ==
    LET s == <<pod, i>>
        a == <<pod, j>> IN
    /\ phase = "aggEdge"
    /\ edgeIfs' = [edgeIfs EXCEPT ![s] = @ + 1]
    /\ aggIfs' = [aggIfs EXCEPT ![a] = @ + 1]
    /\ edgeAggIf' = [edgeAggIf EXCEPT ![s][i] = edgeIfs[s]]
    /\ aggEdgeIf' = [aggEdgeIf EXCEPT ![a][j] = aggIfs[a]]
    /\ Advance(Half, "aggCore")
    /\ UNCHANGED <<coreIfs, edgeServerIf, aggCoreIf, coreAggIf>>

(* The two interfaces of the cable between aggregate i and edge j.         *)
AddAggEdgeInterfaces ==
    LET s == <<pod, j>>
        a == <<pod, i>> IN
    /\ phase = "aggEdge"
    /\ edgeIfs' = [edgeIfs EXCEPT ![s] = @ + 1]
    /\ aggIfs' = [aggIfs EXCEPT ![a] = @ + 1]
    /\ edgeAggIf' = [edgeAggIf EXCEPT ![s][i] = edgeIfs[s]]
    /\ aggEdgeIf' = [aggEdgeIf EXCEPT ![a][j] = aggIfs[a]]
    /\ Advance(Half, "aggCore")
    /\ UNCHANGED <<coreIfs, edgeServerIf, aggCoreIf, coreAggIf>>

(* The two interfaces of the cable between aggregate i and core row j.     *)
AddAggCoreInterfaces ==
    LET a == <<pod, i>>
        c == <<i, j>> IN
    /\ phase = "aggCore"
    /\ aggIfs' = [aggIfs EXCEPT ![a] = @ + 1]
    /\ coreIfs' = [coreIfs EXCEPT ![c] = @ + 1]
    /\ aggCoreIf' = [aggCoreIf EXCEPT ![a][j] = aggIfs[a]]
    /\ coreAggIf' = [coreAggIf EXCEPT ![c][pod] = coreIfs[c]]
    /\ Advance(Half, "done")
    /\ UNCHANGED <<edgeIfs, edgeServerIf, edgeAggIf, aggEdgeIf>>

InterfacesNext == AddServerInterface \/ AddAggEdgeInterfaces \/ AddAggCoreInterfaces

---------------------------------------------------------------------------
(* Properties.                                                             *)

(* Where an interface exists, its number is the one that the rest of the   *)
(* code computes: getLinkInterfaceIndices for the two ends of a cable,     *)
(* doEcmp for the host routes of an edge.                                  *)
NumbersAsComputed ==
    /\ \A s \in Edge, k \in Servers : edgeServerIf[s][k] \in {0, k + 1}
    /\ \A p \in Pods, e, a \in Idx :
        LET ends == EdgeAggInterfaces(FlatIndex(p, e), FlatIndex(p, a)) IN
        /\ edgeAggIf[<<p, e>>][a] \in {0, ends[1]}
        /\ aggEdgeIf[<<p, a>>][e] \in {0, ends[2]}
    /\ \A p \in Pods, a, r \in Idx :
        LET ends == AggCoreInterfaces(FlatIndex(p, a), CoreIndex(a, r)) IN
        /\ aggCoreIf[<<p, a>>][r] \in {0, ends[1]}
        /\ coreAggIf[<<a, r>>][p] \in {0, ends[2]}

(* No two ToRs share a WCMP level, and every level is below the number of  *)
(* levels given to the WCMP stacks (installWcmpStack), once traffic can    *)
(* flow.                                                                   *)
LevelsAreDistinct ==
    phase = "done" => \A s, t \in Edge :
        /\ TorLevel(s[1], s[2]) < (NumPods * SwitchRadix) \div 2
        /\ TorLevel(s[1], s[2]) = TorLevel(t[1], t[2]) => s = t

===========================================================================
