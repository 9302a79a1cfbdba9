# SWARM-SIM in TLA+

This directory is a verification project for SWARM-SIM, a set of ns-3 modules
and drivers that simulate data-centre networks (Clos fabrics) with link
failures and their mitigation. It holds TLA+ modules translated from the source
under `src/`, TLC configurations that check them on small instances, and proofs
that TLAPS checks for every size.

## The system

| Part | Where | State | Operations |
|---|---|---|---|
| WCMP routing | `src/src/wcmp/model` | route list, interface states, weights per interface and level, cache of hash values | notifications of the IPv4 stack, `AddNetworkRouteTo`, `SetInterfaceWeight`, `MultiLpm`, `choose`, `LookupWcmp`, `RouteInput` |
| Clos topology | `src/scratch/swarm/swarm.{h,cc}` | nodes, cables, interface numbers, static routes | set-up (`createTopology` .. `doEcmp`), `doDisableLink`, `doEnableLink`, `doUpdateWcmp`, mitigation |
| Scenario parser | `scenario_parser.h` | none | reads LINK_DOWN, LINK_UP, SET_WCMP, SET_RATE, SET_DELAY, SET_LOSS, MIGRATE and calls the topology or the flow scheduler |
| Flow scheduler | `flow_scheduler.{h,cc}` | next flow, its index, migrations | `begin`, `dispatchAndSchedule`, `getNextFlow`, `migrateTo`, `migrateBack` |
| Single-flow application | `src/src/single-flow-application` | socket, bytes sent, cached packet, events | start, connect callbacks, send loop, stop |
| MPI flow monitor | `src/src/flowmon-mpi` | flow statistics, tracked packets, flow identifiers | probe callbacks on send, receive, drop |
| Offline experiments | `src/scratch/offline` | none of its own | builds four-node networks, averages results |

They interact as follows. The scenario parser calls the topology, which changes
interfaces of ns-3's `Ipv4L3Protocol`. That notifies both routing protocols of
the node: ns-3's `Ipv4StaticRouting`, which throws away the routes bound to an
interface that goes down, and `WcmpStaticRouting`, which records the state and
keeps its routes. Mitigation then rewrites WCMP weights on *other* switches, and
on LINK_UP adds static routes again. A packet asks static routing first
(priority 0) and WCMP next (priority -20). All commands of a script are executed
while `parseSecnarioScript` reads it (`swarm.cc:1393`), before `Simulator::Run`
(line 1423) and so before the first packet; the `schedule` templates that could
time them (lines 1140-1154) are never called. Everything after that is a callback
or event of a simulator; within one process the only concurrency is that of
events: an application's send may come between two dispatches.

An MPI run has several processes, each with a part of the nodes. Every process
builds the whole topology, reads the whole flow file and the whole script, and
then starts only what belongs to its own hosts; the processes exchange packets
and nothing else. So they have to compute alike whatever both sides of a
connection must know: on which process a server is, which port a stream uses,
which flow starts next.

What is hard: state about one cable is kept in three places (interface states,
static routes of the upper switch, WCMP weights of every other edge or of the
aggregates of other pods) and must agree after any sequence of commands; WCMP
keeps copies of the stack's state; `choose()` aborts the whole simulation when
nothing is usable; interface numbers are computed in many places instead of
being looked up; the cache is never invalidated; what the processes of a run
compute separately must agree; a send that TCP refuses is repeated; the first
line of a flow file may announce more flows than it lists. `PROJECT.json` lists every such
hazard at its line, with the property that covers it.

What makes each part correct:
- WCMP: a lookup returns an entry that is up, has a weight and is not the
  incoming interface, each for its exact share of the hash values.
- Set-up: nodes are on the processes that the rest of the code computes; each
  number computed for an interface or a cable is its number; routes lead where
  cables lead.
- Link commands: zero weights are those of cables that are down; working cables
  have their routes.
- Forwarding: after any link commands a packet is never dropped, takes the
  up-down path, and with one failure always arrives.
- Flows: every flow is started once, at its time, by one process, and is sent in
  full; ports agree between processes, and clash only when a host has used up
  its range or, with `--scream`, the ports below those of its clients.
- Monitor: every packet is counted once for its flow, whatever process it is
  received on. The receiver's process writes the last reception of a flow, and as
  its start the time its first packet was sent; when the sender is on another
  process, the time at which the first packet *received* was sent.

## Modules

| Module | Models | State and actions |
|---|---|---|
| `ClosTopology` | shape and arithmetic of the fabric | operators only: `PodAndIndex`, `TorLevel`, `EdgeAggInterfaces`, ... |
| `ClosPlacement` | nodes on MPI processes, for every accepted combination of the options | `coreSystem`, `aggSystem`, `edgeSystem`, `serverSystem`, the counter of the loops; `CreateCores`, `CreatePair`, `CreateServersOfTor` |
| `FabricInterfaces` | `createFabricInterfaces`, iteration by iteration | loop variables and the number of every interface |
| `ClosSetup` | `setupClosTopology`: the two modules above with cables, addresses and routes between and after them | the maps of cables, server addresses, `setup`; `CreateNodes`, `CreateLinks`, `AssignServerIps`, `CreateFabricInterfaces`, `SetupRoutes` |
| `ClosFabric` | link commands and SET_WCMP with all they change | `linkUp`, the weights `edgeWeight`/`aggWeight`, the static routes `aggStatic`/`coreStatic`; `DisableLink`, `EnableLink`, `UpdateEdgeWcmp`, `UpdateAggWcmp` |
| `ClosForwarding` | one packet crossing `ClosFabric` after its commands have run | `status`, `at`, `via`, ...; `Inject`, `Step` (`AtEdge`, `AtAgg`, `AtCore`), `Command` |
| `MultiLpm` | the pass of `MultiLpm`, iteration by iteration | `longest`, `shortest`, `entries` |
| `WeightedChoose` | the two loops of `WcmpWeights::choose` | `sum`, `upEntries`, `pos` |
| `WeightShare` | what `choose` computes, as one expression | `TotalWeight`, `Pick` |
| `WcmpLookup` | one `LookupWcmp`: `MultiLpm`, the erasing of the incoming interface, `WeightedChoose` | the variables of both, `stage`, `kept`; `LpmStep`, `CallChoose`, `ChooseStep` |
| `WcmpSwitch` | the static configuration of one switch | constants and their assumptions |
| `WcmpRouter` | one `WcmpStaticRouting` with its `WcmpWeights` and cache | `ipv4Up` (the stack), `known`, `states`, `weights`, `routes`, `cache`; notifications, route installation, weight updates, `RouteInput` |
| `WcmpPolicy` | abstract specification of `WcmpRouter` without the cache | interfaces that are up, weights last set, the answer |
| `FlowScheduler` | the scheduler of every process, the flow file and MIGRATE | per process `currentIdx`, `current` (`m_current_flow`), `event`, `now`; `migrations`, `dispatched`; `Migrate`, `Begin`, `DispatchAndSchedule` |
| `SingleFlowApplication` | the applications that send one flow each | per application a record: the pending event, bytes sent, the kept packet, the port; `StartApplication`, `ConnectionSucceeded`, `ConnectionFailed`, `StartSending`, `SendPacket`, `SocketReleased` |
| `FlowExperiment` | the two modules above with the dispatcher, the port counters and `--scream` | also `portMap`, `streams`, `clients`; `SetUp`, `DoAllToAllTcp`, `StartStreams`, `Dispatch`, `AppEvent` |
| `FlowPromise` | abstract specification of `FlowExperiment` | the sets of flows waiting, active and finished, and whether the run is over |
| `MpiFlowMonitor` | classifiers, probes and statistics of several processes | per process `flowMap`, `lastNewFlowId`, `pktId`, `stats`, `tracked`, and the `packets` with their tags; `Send`, `Deliver`, `Drop`, `Lose`, `Advance` |
| `MCMpiFlowMonitor` | the instance of it that TLC checks | |
| `*_proofs` | theorems about the module of that name | |

`ClosForwarding` extends `ClosFabric`, and `ClosSetup` extends `FabricInterfaces`
and `ClosPlacement`; all of them extend `ClosTopology`. `WcmpLookup` shows that
the loops compute what `WcmpRouter` states in one expression. `WcmpRouter`
implements `WcmpPolicy` by the refinement mapping
`up <- ipv4Up, weight <- KnownWeight`; `FlowExperiment` implements `FlowPromise`
by `waiting`, `active`, `finished` <- the numbers of the flows that no process
has started, that an application is sending, and that are closed.

Modelling decisions worth knowing:
- A command with its mitigation and the notifications it causes runs to
  completion, so it is one action, and so is every event of the simulator. The two
  interfaces of a cable go up and down together in a command; `linkUp` is both.
- `ClosForwarding` runs commands only before the packet is sent. LINK_DOWN and
  LINK_UP always mitigate: the parser passes `true` for `auto_mitigate`
  (`scenario_parser.h:92`, `98`), and nothing else calls them.
- A server cable cannot be named by a command, and a same-ToR packet uses host
  routes only; in `ClosForwarding` servers appear as their ToR.
- In `ClosForwarding` the hash is a free choice among the entries that
  `choose()` can return, which `WcmpLookup` establishes. Packets do not
  change routing state (the cache is off, its default), so one packet, sent
  after any commands, shows what can happen to any.
- A weight of a switch towards its own ToR or, for an aggregate, its own pod
  exists in the code's table and in the model, though no lookup reads it.
- In `FlowScheduler` a line of the file is a record, and a read past the end
  leaves `m_current_flow` as it was, so the n-th read gives `Line(n)`. Random
  numbers (`rand() % 100`) are free choices. The file is read one flow ahead, so
  `dispatchAndSchedule` is one action that reads, dispatches and schedules. MIGRATE
  takes effect while the script is read, before `begin`.
- A first line of the file is either one that `traffic_gen.py` writes (`Header`:
  the number of flows over an estimate that may be longer) or any other
  (`HandWritten`).
- TCP is outside the repository. Of it, `SingleFlowApplication` has a port that is
  taken while a socket is open, an answer to Connect of either kind, and a Send
  that takes a whole packet or nothing of it.
- Of the streams of `--scream`, `FlowExperiment` has the ports: the sink's, taken
  from the server's counter, and the one that ns-3 gives the client, which binds
  to none (from 49152 up, `FirstEphemeral`). Both are held on the host's one
  address from `startApplications`' time to the end and can make a flow's Bind
  fail. What the streams send is not modelled.
- `SendOutgoingLogger` aborts for a broadcast and for a packet that has a tag
  already (`ipv4-mpi-flow-probe.cc:242-253`). A packet that leaves a host here is
  unicast and new, so `SendTagged` has neither.
- The processes of `FlowExperiment` and `MpiFlowMonitor` have no common clock;
  a packet is not received before it is sent. A switch has no probe, so a packet
  it drops is lost without a trace.
- ns-3 itself (`Ipv4L3Protocol`, `Ipv4StaticRouting`, the sockets, the event
  queue) is not in the repository; the definitions that stand for it are marked
  external in the map.

## Runs

Runs that pass:

| Run | Instance | Distinct states | Shows |
|---|---|---|---|
| `fabric_commands` | radix 4, 2 pods, 3 mitigated commands mixed with SET_WCMP | 679,225 | working cables keep their routes whatever weights are written |
| `forwarding` | radix 4, 2 pods, 3 link commands before the packet | 749,549 | zero weights are those of cables that are down; no silent loss, the up-down path, aborts only where stated; liveness `OneFailureDelivers` |
| `forwarding_backup` | radix 4, 2 pods, 2 commands, SET_WCMP of weight 3, backup paths | 708,069 | where a packet is lost in spite of a backup path, and when the path is used |
| `setup` | radix 4, 4 pods, 3 servers, up to 8 processes for cores and for pods | 71,536 | placement, cables, interface numbers, routes and levels fit together |
| `lookup` | all tables of up to 3 routes, 3 prefix lengths, 2 metrics, 3 weights, 5 hash values | 1,066,813 | a lookup is right from the table to the entry, with exact shares |
| `router` | 4 interfaces, 2 levels, 3 changes, with the cache and without | 302,091 | copies of state agree, `KeepsPolicy`; a cached flow never moves, not even off an interface that went down |
| `flows` | 3 hosts on 2 processes, 1 flow, 2 MIGRATE, 5 ports of which 2 ephemeral | 571,224 | flows on time, none altered but those of migrated sources; the processes agree on the ports of the two streams of each server |
| `flows_complete` | 2 processes with a host each, up to 3 flows announced over a file of 1 or 2, 3 ports of which 1 ephemeral | 146,188 | each flow once and sent whole, no packet lost or doubled, Bind fails only when ports ran out; no sorted file fails the scheduler; `KeepsPromise`: all are sent in the end |
| `monitor` | 2 processes, 3 hosts, 4 flows, 3 packets, clocks to 2 | 4,168,340 | no abort, flows and packets told apart, counts add up, which times are written, what stays tracked |

Runs that show where the code departs from what its comments say (details under
`findings` in `PROJECT.json`):

| Run | What TLC finds |
|---|---|
| `fabric_restored_shares` | a link that came back has weight 1 beside uplinks of weight 100, where `doEcmp`'s comment promises ECMP |
| `flow_migration` | MIGRATE changes the destination of a flow, where the comment of `m_migrations` says that it is sent from another host |
| `flow_header` | a generated file announces more flows than it lists, and its last flow is dispatched again |

`CHECK_DEADLOCK FALSE` in every configuration: a packet ends, a loop ends, the
flows and the numbers of commands and packets are bounded, so every behaviour
stops.

Bounds and why they suffice. Radix 4 is the default and the smallest with two
aggregates per pod and two cores per aggregate, so that a packet has a choice at
both tiers; with backup paths it has the case that hurts, a single backup route
that may be the failed one. Two pods have all kinds of path; that more than one
other pod must mitigate is covered by the proofs, which are for any number of
pods (and radix 4 with 3 pods and two commands, radix 6 with one pod and three,
were checked besides). Three commands (`MaxChanges`) reach two failures and the
repair of one of them, which adds the route of the other again. In
`forwarding_backup` two commands are a failure and a weight set by hand, without
which no packet is sent to it; that a LINK_UP brings back the route of the failed
cable besides takes a third, and is covered by the proof.
`TimeToLive` exceeds the longest up-down path,
so that a loop is seen as such. `setup` has four pods of two ToRs: process counts
that divide the pods, the ToRs and neither, and that exceed both. In `lookup`,
three routes show a longer prefix followed by a shorter, an equal and a better
one, and the incoming interface among the best; the hash values lie before, at
and behind the boundaries of the shares, and wrap around small totals. In `router`, the hash values 0 and 150 fall on different
sides of equal shares of 100 and of shares that a weight of 0 or 1 leaves. In
`flows`, the third host gives every server two streams, so that a process has to
count one between two hosts of another process, and two MIGRATE allow scripts
there and back. In `flows_complete`, sizes of one and a half packets, arrival
times that are equal, ascending or (unsorted) descending, a file shorter and
longer than announced, and three ports for up to three flows, a stream and its
client, so that the counter turns, meets the client's port, and Bind can fail.
In `monitor`, as many numbers per
process (`IdSpan` 2) as it has flows, a flow within a process and one in each
direction between them, acknowledgements, and any end of the monitored time from
before the beginning to the last instant.

Fairness. In `ClosForwarding`, `WF_vars(Step)`: the simulator always executes its
next event, so a packet that arrived is forwarded; commands come before it and
need no fairness. In `FlowExperiment`, weak fairness
of the end of the set-up, of each scheduler's pending event and of each
application's pending event, for the same reason, and of the answer to Connect;
strong fairness of the Send that TCP takes, because a full buffer empties again
and again while a connection lasts. `Simulator::Stop` is not modelled, so the
liveness half of `KeepsPromise` is about runs whose `--end` leaves enough time.
All other runs check safety only.

## Proofs

| Theorem | Assumes | Says |
|---|---|---|
| `FabricTypeCorrect` | constants' assumptions | `FabricTypeOK` is invariant |
| `WeightsMirrorLinksCorrect` | `ManualWeights = {}` (no SET_WCMP) | zero weights are those of cables that are down |
| `UpLinksHaveRoutesCorrect` | constants' assumptions | a cable that is up has its route |
| `TypeCorrect` (`ClosForwarding_proofs`) | constants' assumptions | `TypeOK` |
| `NoSilentLossCorrect`, `PacketOnPathCorrect`, `UpDownPathCorrect` | no SET_WCMP, time to live of at least 4 | a packet follows the up-down path and is never dropped |
| `OneFailureHarmlessCorrect` | also two or more aggregates per pod | with one cable down it does not abort either |
| `EdgeAbortsOnlyWhenCutCorrect` | as the previous row | an edge aborts only when no aggregate joins the two ToRs |
| `BackupDeliversCorrect` | backup paths, weights set by hand are positive, two or more aggregates per pod, time to live of at least 6 | with one edge cable down, a packet is lost only at an aggregate that has its direct route although the cable is down, or that has no third edge to push the packet to |
| `BackupOnlyWhenDownCorrect` | constants' assumptions | only an aggregate whose direct cable is down pushes a packet to another edge than its own |
| `ServersWhereComputedCorrect`, `PodsTogetherCorrect`, `ProcessesExistCorrect`, `CommandedCablesAreLocalCorrect` (`ClosSetup_proofs`) | constants' assumptions | the placement, for any fabric and every accepted combination of the options |
| `NumbersAsComputedCorrect`, `NextCableExistsCorrect`, `RoutesFollowCablesCorrect`, `LevelsAreDistinctCorrect` (`ClosSetup_proofs`) | constants' assumptions | the numbers, cables, routes and WCMP levels of set-up, for any fabric |
| `ChooseChosenIsUsableCorrect`, `ChooseAbortsOnlyWithoutUsableCorrect` | naturals | `choose` for any entries, weights, hashes |
| `CollectsTheBestCorrect`, `InTableOrderCorrect` | metrics below 0xffffffff | `MultiLpm` within a lookup, for tables of any length |
| `ExactShareCorrect`, `ChooseExactShareCorrect` | as the two rows above | `choose` gives each entry exactly its weight's share of the residues, within a lookup and called alone |
| `LookupIsRightCorrect` | metrics below 0xffffffff | a whole lookup: the answer, the failure and the abort each exactly when they should be, and never a null |
| `StatesMirrorStackCorrect` | constants' assumptions | the router's copy of interface states |
| `CachedFlowNeverMovesCorrect` | constants' assumptions | with the cache, a flow keeps the answer of its first lookup, through every notification and update (an action property) |
| `KeepsPolicyCorrect` | constants' assumptions | without the cache `WcmpRouter` implements `WcmpPolicy` |
| `TypeOKCorrect`, `EachFlowOnTimeCorrect`, `SortedNeverFailsCorrect`, `ClosedWhenSentCorrect`, `PacketsConservedCorrect`, `StreamsReachTheirSinksCorrect` | constants' assumptions | the invariants of `FlowExperiment` for any number of processes, hosts, flows, and any files, sizes and ports |
| `BindFailsOnlyWhenPortsRunOutCorrect` | constants' assumptions | Bind fails only when some host has used up every port of the range or, with streams, every port below the ephemeral ones |
| `PromiseSafety` | constants' assumptions | every step of `FlowExperiment` is one of `FlowPromise` or leaves its variables alone |
| `NeverAbortsCorrect`, `NumbersTellFlowsApartCorrect` | constants' assumptions | no packet aborts a monitored run; flow numbers and packet tags are unique while they suffice |
| `TypeOKCorrect`, `CountsAddUpCorrect`, `WrittenOnceCorrect`, `TrackedIsUnknownHereCorrect`, `CompletionTimeIsKnownCorrect` (`MpiFlowMonitor_proofs`) | constants' assumptions | what the processes count and write of a flow, for any number of processes, flows and packets |

`WeightsMirrorLinks` and `UpLinksHaveRoutes` are inductive together with the type
invariant. `NoSilentLoss` is not: whether the next switch has a usable entry
depends on where the packet came from, so the proof strengthens it to
`PacketOnPath`, which says for each of the five places on an up-down path
over which cable the packet came and which of the cables ahead are up. That
these are up follows, at the moment a switch chooses, from `WeightsMirrorLinks`
(a positive weight promises the cable further on), and that they have a static
route from `UpLinksHaveRoutes`. The results about aborts are inductive relative to
that invariant.

`BackupDelivers` is about weights set by hand, which may send a packet to an
aggregate whose cable to the destination is down, so the path alone does not do:
`BackupInv` says that a weight is zero for cables that are down only
(`ZeroOnlyWhenDown`), and that the packet is on the path or the detour
(`OnBackupPath`: up, across, down, bounced to another edge, up again to an
aggregate whose cable is up) or lost at an aggregate of the two kinds the property
names. `BackupOnlyWhenDown` follows from `UpLinksHaveRoutes` alone, for any
weights and any number of failures: an aggregate with a route does not ask WCMP.

The set-up is straight-line code over nested loops. `InterfacesInv` says where the
loops stand (`PositionOK`), that the running count of interfaces of each node
is what the finished iterations have added (`CountersInv`), and that every number
given so far is the computed one (`NumbersInv`); `PlacementInv` says that each
node before the counters is where a formula in its position puts it. Both rest on
lemmas about quotients and remainders, as ToRs, pods and processes are numbered by
them. `SetupInv` joins the two with the maps of cables and addresses, each equal
to a closed expression once its loop is over, from which routes and levels follow.

For `MultiLpm`, the loop invariant relates `longest` and `shortest` to the best
row seen so far; for `choose`, it says that `upEntries` lists the entries that are
up in order with increasing totals of which `sum` is the last. `ExactShare` needs
more (`ShareInv`): each of those totals is `TotalWeight` of the entries up to it,
a fold over a set. That a total is the sum of its parts is an induction over sets,
which the library's theorems cannot give here (they take an operator); the lemmas
before `TotalUnfolds` make it from the well-foundedness of strict inclusion of
finite sets instead: of the sets for which the claim fails, if any, there is a
smallest.

`WcmpLookup_proofs` puts the two side by side and adds what is handed from one to
the other: the entries `choose` is called with are the best rows without the
incoming one. `KeepsPolicyCorrect` is a step-by-step simulation proof with the
invariant that all copies agree with the stack; it treats `TotalWeight` and `Pick`
as any two functions, so it does not depend on how weights share out hashes.
For the cache, `CacheInv` says that nothing is cached while the option is off; the action
property then follows action by action, since only `RouteInput` writes the cache,
and only for a hash that is not in it.

The invariant of `FlowExperiment` is a conjunction of parts that the modules keep
on their own and of one that joins them: `SchedulerInv` (types, `EachFlowOnTime`),
`AppsInv` (for each application, bytes and packets and the event that is
pending), `PortsInv` (before the run all processes have the same counters, the
reason why streams agree), and `Owned`: an application exists only for a flow
that its process has dispatched and whose source is its own host. `Owned` is what
makes `PromiseSafety` a step-by-step argument: no second process can start a flow,
as a host is local to one process.

`BindFailsOnlyWhenPortsRunOut` needs `TurnInv` besides: as long as a host has used
no more ports than the range has, its applications and sinks have exactly the
first ports of the range, each once, and the next port is the one after them; the
counting is by `Cardinality`, and independent of the order in which processes set
up streams and dispatch flows. The clients' ports are ephemeral, so they are none
of those as long as the count stays below `FirstEphemeral`.

For the monitor, the invariant says
that a process numbers its flows from its own base without gaps (`CountedOn`,
`NumbersApart`), that an untagged packet whose flow is not filtered was sent after
the end of the monitored time (`UntaggedIsLate`, so it arrives later still), and
that each tag was counted by the one process that numbers its flow (`TagsCounted`,
`TagsApart`).

On top of that, `JInv` relates the statistics to the packets: only the processes of
a flow's two ends have statistics of it (`StatsOfFlows`); either all packets of a
five-tuple are tagged or none is (`TaggedIsKnown`); what a process tracks is what
its own hosts have sent and have not received or dropped (`TrackedHere`); and the
counts and the first and last times of each flow are those of its packets
(`FlowsOK`). The counts are cardinalities of sets of packets, which one step changes
by one packet at most, so no sum over packets or processes is needed.

Model-checked only: the two liveness properties, `OneFailureDelivers` and the
liveness half of `KeepsPromise`, as liveness under fairness is out of the prover's
reach. Every safety invariant and action property of the passing runs is
proved. `PodsTogether` is proved and in no run.

## Not modelled, and the plan

Not modelled at all: SET_RATE, SET_DELAY and SET_LOSS, which set attributes of
ns-3 devices; parsing of tokens, logging, the animation, the text of the XML
output; `WcmpHasher`, a pure function whose value is an input everywhere;
`chooseEcmp`, `RouteOutput` and `NotifyRemoveAddress`, which nothing reaches; the
routing helper; echo applications (`--pingAll`) and with them ICMP; `Start` and
`Stop` of the monitor; the offline experiments and the throughput test, which only
drive ns-3 and average numbers.

Known of the code and outside the models: the cache grows without a bound
although the option's help calls it LRU; a route with the metric 0xffffffff would
not clear those of shorter prefixes; `chooseEcmp`'s index reaches `size()` for the
largest hash; the RED queues are installed before there is a link, so never;
`--podLps` without `--mpi` fails an assertion of a debug build; MIGRATE without a
flow file dereferences a null scheduler; delays are taken as nanoseconds under
`--micro`; an estimate in a generated file that is shorter than the number of
flows loses the end of its line.

What is left: a model of `Start` and `Stop` of the monitor should a driver begin
to use them, and of echo applications, which would bring ICMP into both the ports
and the monitor.
