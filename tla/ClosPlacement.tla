-------------------------- MODULE ClosPlacement ---------------------------
(***************************************************************************)
(* On which MPI process ("system") every node of the fabric is placed:     *)
(* createCoreMPI, createPodMPI and createServers of ClosTopology           *)
(* (scratch/swarm/swarm.cc), under the options that setupSwarmSimulator    *)
(* accepts.  The loops over pods and servers carry a counter from one ToR  *)
(* to the next, so one action is one iteration of them.                    *)
(***************************************************************************)
EXTENDS ClosTopology

CONSTANT MaxProcs   \* bound on the numbers of processes given as options

ASSUME ProcsAssumption == MaxProcs \in Nat \ {0}

VARIABLES
    options,    \* the command line, and the number of processes started
    placing,    \* "cores", "pods", "servers", "placed" or "trapped"
    tor,        \* flat number of the ToR of this iteration
    sysIdCounter,
    coreSystem, aggSystem, edgeSystem, serverSystem     \* GetSystemId of the nodes

systems == <<coreSystem, aggSystem, edgeSystem, serverSystem>>
placementVars == <<options, placing, tor, sysIdCounter, systems>>

NumTors == NumPods * Half

Options == [mpi : BOOLEAN, podProcs : 1 .. MaxProcs, coreProcs : 1 .. MaxProcs,
            offloadCore : BOOLEAN, offloadAggs : BOOLEAN, count : 1 .. 2 * MaxProcs]

(* The assertions of setupSwarmSimulator.  With the aggregates offloaded   *)
(* only, the number of processes is not compared with anything.            *)
Accepted(o) ==
    \/ ~o.mpi /\ o.count = 1
    \/ o.mpi /\ o.offloadCore /\ o.count = o.coreProcs + o.podProcs
    \/ o.mpi /\ ~o.offloadCore /\ o.offloadAggs /\ o.podProcs % 2 = 0
    \/ /\ o.mpi /\ ~o.offloadCore /\ ~o.offloadAggs
       /\ o.count = IF o.podProcs > o.coreProcs THEN o.podProcs ELSE o.coreProcs

PlacementInit ==
    /\ options \in {o \in Options : Accepted(o)}
    /\ placing = "cores"
    /\ tor = 0 /\ sysIdCounter = 0
    /\ coreSystem = [c \in Core |-> 0]
    /\ aggSystem = [s \in Agg |-> 0]
    /\ edgeSystem = [s \in Edge |-> 0]
    /\ serverSystem = [s \in Edge |-> 0]

---------------------------------------------------------------------------
(* Mutant: the cores are dealt out to one process too many.                *)
CoreOffloadedTooFar(k) ==
    IF k = 0 THEN 0 ELSE options.podProcs + (k % (options.count - options.podProcs + 1))

(* param_first_core_0 is set.                                              *)
CoreOffloaded(k) ==
    IF k = 0 THEN 0 ELSE options.podProcs + (k % (options.count - options.podProcs))

CreateCores ==
    /\ placing = "cores"
    /\ placing' = "pods"
    /\ coreSystem' = [c \in Core |->
            LET k == CoreIndex(c[1], c[2]) IN
            IF ~options.mpi THEN 0
            ELSE IF options.offloadCore THEN CoreOffloaded(k)
            ELSE k % options.count]
    /\ UNCHANGED <<options, tor, sysIdCounter, aggSystem, edgeSystem, serverSystem>>

(* sysIdStep: how many ToRs go to one process.                             *)
Step(procs) == IF NumTors \div procs = 0 THEN 1 ELSE NumTors \div procs

NextTor(following) ==
    IF tor + 1 < NumTors
    THEN tor' = tor + 1 /\ UNCHANGED placing
    ELSE tor' = 0 /\ placing' = following

(* Mutant: the counter stands still for the first aggregate of pod 1 too.  *)
TogetherTwice(s) == options.offloadAggs /\ s \in {<<1, 0>>, <<1, 1>>}

(* param_second_agg_0 is set, param_first_agg_0 is not.                    *)
Together(s) == options.offloadAggs /\ s = <<1, 1>>

PodProcs == IF options.offloadAggs THEN options.podProcs \div 2 ELSE options.podProcs

(* The edge and the aggregate of one index.  The continue for the pair     *)
(* that is to stay together also skips the increment of the counter.       *)
CreatePair ==
    LET s == PodAndIndex(tor)
        system == sysIdCounter \div Step(PodProcs)
        away == options.offloadAggs /\ ~Together(s)
    IN
    /\ placing = "pods" /\ options.mpi /\ PodProcs # 0
    /\ edgeSystem' = [edgeSystem EXCEPT ![s] = system]
    /\ aggSystem' = [aggSystem EXCEPT ![s] = IF away THEN system + PodProcs ELSE system]
    /\ sysIdCounter' = IF tor + 1 = NumTors THEN 0
                       ELSE IF Together(s) THEN sysIdCounter ELSE sysIdCounter + 1
    /\ NextTor("servers")
    /\ UNCHANGED <<options, coreSystem, serverSystem>>

CreatePodsSequential ==
    /\ placing = "pods" /\ ~options.mpi
    /\ placing' = "servers"
    /\ UNCHANGED <<options, tor, sysIdCounter, systems>>

(* One process for the pods, and the aggregates offloaded to half of it:   *)
(* sysIdStep is a division by zero.                                        *)
CreatePodsTrap ==
    /\ placing = "pods" /\ options.mpi /\ PodProcs = 0
    /\ placing' = "trapped"
    /\ UNCHANGED <<options, tor, sysIdCounter, systems>>

(* Mutant: as many ToRs on a process as there are pods on it.              *)
CreateServersOfTorByPod ==
    /\ placing = "servers"
    /\ serverSystem' = [serverSystem EXCEPT ![PodAndIndex(tor)] = sysIdCounter \div Step(NumPods)]
    /\ sysIdCounter' = sysIdCounter + 1
    /\ NextTor("placed")
    /\ UNCHANGED <<options, coreSystem, aggSystem, edgeSystem>>

(* createServers: the servers of one ToR, with or without MPI.             *)
CreateServersOfTor ==
    /\ placing = "servers"
    /\ serverSystem' =
        [serverSystem EXCEPT ![PodAndIndex(tor)] = sysIdCounter \div Step(options.podProcs)]
    /\ sysIdCounter' = sysIdCounter + 1
    /\ NextTor("placed")
    /\ UNCHANGED <<options, coreSystem, aggSystem, edgeSystem>>

PlacementNext ==
    \/ CreateCores
    \/ CreatePair \/ CreatePodsSequential \/ CreatePodsTrap
    \/ CreateServersOfTor

PlacementSpec == PlacementInit /\ [][PlacementNext]_placementVars

(* getSystemIdOfServer: computed anew wherever a process asks whether a    *)
(* server is its own.                                                      *)
SystemIdOfServer(host) ==
    LET step == IF NumTors > options.podProcs THEN NumTors \div options.podProcs ELSE 1
    IN  IF ~options.mpi THEN 0 ELSE (host \div NumServers) \div step

---------------------------------------------------------------------------
(* Properties.                                                             *)

(* The assertion of printSystemIds, which setupClosTopology calls: every   *)
(* server is on the process that getSystemIdOfServer computes.             *)
SystemIdsAsAsserted ==
    placing = "placed" => \A s \in Edge, k \in Servers :
        serverSystem[s] = SystemIdOfServer(FlatIndex(s[1], s[2]) * NumServers + k)

(* Under MPI it holds: so exactly one process takes a server for its own,  *)
(* and installs its applications and its probe.                            *)
ServersWhereComputed == options.mpi => SystemIdsAsAsserted

(* "We will put all nodes belonging to the same pod in the same LP"        *)
(* (createTopology): with the aggregates not offloaded and whole pods to   *)
(* every process, no cable between an edge, its aggregates and its servers *)
(* joins two processes, and so the assertion of the link commands holds    *)
(* on all of them.  "If super-mpi is to be used, then each pod would be    *)
(* split in half": then each process has nodes of one pod only.            *)
PodsTogether ==
    placing = "placed" /\ options.mpi /\ ~options.offloadAggs =>
        /\ NumPods % options.podProcs = 0 =>
            \A s, t \in Edge : s[1] = t[1] =>
                edgeSystem[s] = aggSystem[t] /\ edgeSystem[s] = serverSystem[t]
        /\ options.podProcs = 2 * NumPods /\ Half % 2 = 0 =>
            \A s, t \in Edge :
                /\ edgeSystem[s] = edgeSystem[t] => s[1] = t[1]
                /\ edgeSystem[s] = aggSystem[s] /\ edgeSystem[s] = serverSystem[s]

(* Every node is on a process that was started, when the number of         *)
(* processes for the pods divides the number of ToRs or exceeds it.  (The  *)
(* case without a comparison in Accepted needs one.)                       *)
Divides(procs) == procs # 0 /\ (NumTors % procs = 0 \/ NumTors < procs)

ProcessesExist ==
    placing = "placed" /\ options.mpi /\ options.podProcs <= options.count
            /\ Divides(PodProcs) /\ Divides(options.podProcs) =>
        /\ \A c \in Core : coreSystem[c] < options.count
        /\ \A s \in Edge : /\ aggSystem[s] < options.count
                           /\ edgeSystem[s] < options.count
                           /\ serverSystem[s] < options.count

(* The two cables between pods and cores that the options want to be able  *)
(* to command: "core index 0 and aggregation index 0 will always go to the *)
(* same systemId", unless the aggregates are offloaded; and the pair of    *)
(* edge and aggregate of pod 1 when they are (swarm.h).                    *)
CommandedCablesAreLocal ==
    placing = "placed" /\ options.mpi =>
        /\ ~options.offloadAggs => coreSystem[<<0, 0>>] = aggSystem[<<0, 0>>]
        /\ \A s \in Edge : aggSystem[s] = edgeSystem[s] <=> (options.offloadAggs => s = <<1, 1>>)

===========================================================================
