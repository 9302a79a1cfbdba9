-------------------------- MODULE FlowExperiment --------------------------
(***************************************************************************)
(* A run of swarm with a flow file (scratch/swarm/swarm.{h,cc}): the       *)
(* scheduler of every process, the dispatcher that starts an application   *)
(* for the flows of its own hosts, the port counters of the processes, and *)
(* the all-to-all streams of --scream.  The applications' own events       *)
(* interleave with those of the schedulers in every order.                 *)
(***************************************************************************)
EXTENDS FlowScheduler, SingleFlowApplication

CONSTANTS
    HostsPerProc,   \* consecutive hosts of one process: see ClosPlacement
    MaxNumber,      \* bound on the number of flows announced
    StartPort,      \* TCP_LOCAL_START_PORT
    LastPort,       \* UINT16_MAX
    FirstEphemeral  \* of the ports, up to LastPort, that TCP gives to a socket bound to none

(* An application per process and number of the flow.                      *)
AppIds == Procs \X (1 .. MaxNumber)

ASSUME ExperimentAssumption ==
    /\ Apps = AppIds
    /\ HostsPerProc \in Nat \ {0} /\ MaxNumber \in Nat
    /\ StartPort \in Nat /\ LastPort \in Nat /\ StartPort <= LastPort
    /\ FirstEphemeral \in StartPort .. LastPort
    /\ NumHosts - 1 <= LastPort - FirstEphemeral + 1

VARIABLES
    portMap,    \* of each process: the next port of every host
    streams,    \* ports of --scream: where i's stream is sent, where j listens
    clients     \* the ports that the clients of the streams hold on their own host

vars == <<flowVars, appVars, portMap, streams, clients>>

(* Mutant: every process takes every host for its own.                     *)
IsLocalAll(p, host) == TRUE

(* getLocalHost: the test that a process makes on every host it deals with.*)
IsLocal(p, host) == host \div HostsPerProc = p

Running == failure = "none" /\ phase = "running"
Over == failure # "none" \/ phase = "failed"

---------------------------------------------------------------------------
PortRange == LastPort - StartPort + 1

(* Mutant: the counter does not turn.                                      *)
PortAfterCallsOn(first, n) == first + n

(* A host's counter after n calls of getNextPort, which returns it and     *)
(* counts on; at the last port it starts again from the first.             *)
PortAfterCalls(first, n) ==
    IF first + n <= LastPort THEN first + n
    ELSE StartPort + ((first + n - StartPort) % PortRange)

(* addHostToPortMap, called for every server by every process.             *)
FirstPort(p, host) == StartPort

Init ==
    /\ SchedulerInit
    /\ numFlows \in 0 .. MaxNumber
    /\ AppInit
    /\ portMap = [p \in Procs |-> [h \in Hosts |-> FirstPort(p, h)]]
    /\ streams = {}
    /\ clients = [h \in Hosts |-> {}]

Pair == {ij \in Hosts \X Hosts : ij[1] # ij[2]}

(* Calls of getNextPort(j) before the one for the stream from i to j.      *)
CallsBefore(ij) == Cardinality({i \in Hosts : i < ij[1] /\ i # ij[2]})

(* Mutant: a process takes a port for the streams of its own hosts only.   *)
StreamPortLocal(p, ij) ==
    PortAfterCalls(portMap[p][ij[2]], Cardinality({i \in Hosts :
        i < ij[1] /\ i # ij[2] /\ (IsLocal(p, i) \/ IsLocal(p, ij[2]))}))

StreamPort(p, ij) == PortAfterCalls(portMap[p][ij[2]], CallsBefore(ij))

(* doAllToAllTcp: unidirectionalCbrBetweenHosts for all pairs in every     *)
(* process.  It takes a port before it looks which ends are its own.       *)
DoAllToAllTcp ==
    /\ phase = "setup" /\ streams = {}
    /\ \E owner \in [Hosts -> Procs] :
        /\ \A h \in Hosts : IsLocal(owner[h], h)
        /\ streams' = {[from |-> ij[1], to |-> ij[2],
                        sentTo |-> StreamPort(owner[ij[1]], ij),
                        listensOn |-> StreamPort(owner[ij[2]], ij)] : ij \in Pair}
    /\ portMap' = [p \in Procs |-> [h \in Hosts |->
                        PortAfterCalls(portMap[p][h], NumHosts - 1)]]
    /\ UNCHANGED <<flowVars, appVars, clients>>

SetUp ==
    /\ \/ \E src, d \in Hosts, percent \in Shifts : Migrate(src, d, percent)
       \/ Begin
    /\ ~Over
    /\ UNCHANGED <<appVars, portMap, streams, clients>>

(* The n-th of the flows that process p dispatches by this step, and those *)
(* among them whose source is its own.                                     *)
NewFlows(p) == currentIdx[p] + 1 .. currentIdx'[p]
Taken(p) == {n \in NewFlows(p) : IsLocal(p, dispatched'[p][n].flow.src)}

(* Mutant: the port is not counted on.                                     *)
PortOfFlowFirst(p, n) == portMap[p][dispatched'[p][n].flow.src]

PortOfFlow(p, n) ==
    LET host == dispatched'[p][n].flow.src IN
    PortAfterCalls(portMap[p][host],
        Cardinality({m \in Taken(p) : m < n /\ dispatched'[p][m].flow.src = host}))

(* dispatchAndSchedule with the dispatcher closHostFlowDispatcher.  The    *)
(* applications that it starts have their first event at this same time,   *)
(* so before the next event of the scheduler.                              *)
Dispatch(p) ==
    /\ Running
    /\ \A n \in 1 .. MaxNumber : app[<<p, n>>].step # "installed"
    /\ DispatchAndSchedule(p)
    /\ app' = [a \in Apps |->
            IF a[1] = p /\ a[2] \in Taken(p)
            THEN [NoApp EXCEPT !.step = "installed",
                               !.host = dispatched'[p][a[2]].flow.src,
                               !.port = PortOfFlow(p, a[2]),
                               !.size = dispatched'[p][a[2]].flow.size]
            ELSE app[a]]
    /\ portMap' = [portMap EXCEPT ![p] = [h \in Hosts |->
            PortAfterCalls(@[h], Cardinality(
                {n \in Taken(p) : dispatched'[p][n].flow.src = h}))]]
    /\ UNCHANGED <<failure, streams, clients>>

Ephemeral == FirstEphemeral .. LastPort

(* startApplications: on host h the sinks of the streams to it begin to    *)
(* listen, each on its port, and the clients of those from it, which have  *)
(* no "Local" address, are given free ephemeral ports.  They keep them to  *)
(* the end, and like the socket of a flow they use the host's one address. *)
StartStreams(h) ==
    LET free == {port \in Ephemeral : ~PortBusy(h, port)} IN
    /\ Running /\ streams # {} /\ clients[h] = {}
    /\ \/ Cardinality(free) < NumHosts - 1 /\ failure' = "bind" /\ UNCHANGED clients
       \/ \E ports \in SUBSET free :
            /\ Cardinality(ports) = NumHosts - 1
            /\ IF \E s \in streams :
                    s.to = h /\ (PortBusy(h, s.listensOn) \/ s.listensOn \in ports)
               THEN failure' = "bind" /\ UNCHANGED clients
               ELSE clients' = [clients EXCEPT ![h] = ports] /\ UNCHANGED failure
    /\ UNCHANGED <<flowVars, app, portMap, streams>>

(* A port is taken by a flow's socket, by the sink of a stream or by the   *)
(* client of one.                                                          *)
PortTaken(host, port) ==
    \/ PortBusy(host, port)
    \/ clients[host] # {} /\ \E s \in streams : s.to = host /\ s.listensOn = port
    \/ port \in clients[host]

AppEvent(a) ==
    /\ Running
    /\ \/ StartApplication(a, PortTaken(app[a].host, app[a].port))
       \/ ConnectionSucceeded(a)
       \/ ConnectionFailed(a)
       \/ StartSending(a)
       \/ \E taken \in BOOLEAN : SendPacket(a, taken)
       \/ SocketReleased(a)
    /\ UNCHANGED <<flowVars, portMap, streams, clients>>

Next ==
    \/ DoAllToAllTcp
    \/ SetUp
    \/ \E p \in Procs : Dispatch(p)
    \/ \E h \in Hosts : StartStreams(h)
    \/ \E a \in Apps : AppEvent(a)

(* The simulator runs every event that is scheduled, provided that --end   *)
(* leaves the time for it.  Of TCP: Connect is answered, and a buffer that *)
(* is full has room again and again.                                       *)
AppStep(A) == Running /\ A /\ UNCHANGED <<flowVars, portMap, streams, clients>>
Fairness ==
    /\ WF_vars(SetUp /\ phase' = "running")
    /\ \A p \in Procs : WF_vars(Dispatch(p))
    /\ \A a \in Apps :
        /\ WF_vars(AppStep(\/ StartApplication(a, PortTaken(app[a].host, app[a].port))
                           \/ ConnectionSucceeded(a) \/ ConnectionFailed(a)
                           \/ StartSending(a)))
        /\ SF_vars(AppStep(SendPacket(a, TRUE)))

Spec == Init /\ [][Next]_vars /\ Fairness

---------------------------------------------------------------------------
(* Properties.                                                             *)

TypeOK ==
    /\ phase \in {"setup", "running", "failed"}
    /\ numFlows \in 0 .. MaxNumber /\ migrates \in 0 .. MaxMigrates
    /\ DOMAIN migrations \subseteq Hosts
    /\ now \in [Procs -> 0 .. MaxTime]
    /\ event \in [Procs -> {NoEvent} \cup 0 .. MaxTime]
    /\ currentIdx \in [Procs -> 0 .. MaxNumber]
    /\ app \in [Apps -> App]
    /\ failure \in {"none", "bind", "connect"}
    /\ portMap \in [Procs -> [Hosts -> StartPort .. LastPort]]
    /\ clients \in [Hosts -> SUBSET Ephemeral]

(* unidirectionalCbrBetweenHosts: the process of the client and that of    *)
(* the server agree on the port without a word between them.               *)
StreamsReachTheirSinks == \A s \in streams : s.sentTo = s.listensOn

(* The ports of a host are taken in turn: Bind fails only on a host of     *)
(* which the flows and the streams to it have used up all ports since, or, *)
(* with --scream, all those below the ones that its clients hold.          *)
PortsApart == IF streams = {} THEN PortRange ELSE FirstEphemeral - StartPort

BindFailsOnlyWhenPortsRunOut ==
    failure = "bind" => \E h \in Hosts :
        Cardinality({a \in Apps : app[a].host = h})
            + Cardinality({s \in streams : s.to = h}) > PortsApart

(* Each flow of the file is started by one process, once, and is sent in   *)
(* full, unless the run ends before.                                       *)
Started(n) == \E p \in Procs : app[<<p, n>>].step # "absent"
StillActive(n) == \E p \in Procs : app[<<p, n>>].step \notin {"absent", "closed"}
Closed(n) == \E p \in Procs : app[<<p, n>>].step = "closed"

Promise == INSTANCE FlowPromise WITH
    waiting <- {n \in 1 .. numFlows : ~Started(n)},
    active <- {n \in 1 .. numFlows : StillActive(n)},
    finished <- {n \in 1 .. numFlows : Closed(n)},
    over <- Over

KeepsPromise == Promise!Spec

===========================================================================
