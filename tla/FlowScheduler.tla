-------------------------- MODULE FlowScheduler ---------------------------
(***************************************************************************)
(* The FlowScheduler (scratch/swarm/flow_scheduler.{h,cc}) of every        *)
(* process of an MPI run.  Each of them reads the same flow file, one flow *)
(* at a time, and hands every flow to its dispatcher when its arrival time *)
(* has come.  MIGRATE commands change, before the run begins, the flows of *)
(* a host.  The file is the one that traffic_gen.py writes, or one written *)
(* by hand.  A line is a record; the n-th line read is Line(n), because a  *)
(* read past the end of the stream leaves m_current_flow as it was.        *)
(***************************************************************************)
EXTENDS Integers, Sequences, FiniteSets, FiniteSetsExt, Functions

CONSTANTS
    NumProcs,       \* MPI processes
    NumHosts,
    Sizes,          \* of flows, in bytes
    MaxTime,        \* bound on the arrival times
    MaxFlows,       \* bound on the lines of the file
    Estimates,      \* of the number of flows, made by traffic_gen.py before it writes them
    HandWritten,    \* other first lines
    Percents,       \* of the MIGRATE commands, there and back
    MaxMigrates     \* bound on the number of MIGRATE commands

ASSUME FlowAssumption ==
    /\ NumProcs \in Nat \ {0} /\ NumHosts \in Nat \ {0}
    /\ MaxTime \in Nat /\ MaxFlows \in Nat \ {0}
    /\ MaxMigrates \in Nat
    /\ Sizes \subseteq Nat /\ Estimates \subseteq Nat /\ HandWritten \subseteq Nat
    /\ Percents \subseteq 0 .. 100

Procs == 0 .. NumProcs - 1
Hosts == 0 .. NumHosts - 1
Flow == {f \in [src : Hosts, dst : Hosts, size : Sizes, at : 0 .. MaxTime] : f.src # f.dst}

Shifts == Percents \cup {-percent : percent \in Percents}

VARIABLES
    file,           \* the flows listed in the file
    numFlows,       \* its first line
    migrations,     \* m_migrations, the same in every process
    migrates,       \* MIGRATE commands seen so far
    phase,          \* "setup", "running", or "failed": an assertion did not hold
    now,            \* of each process: Simulator::Now()
    event,          \* when dispatchAndSchedule is to run, or NoEvent
    currentIdx,     \* current_idx
    current,        \* m_current_flow
    dispatched      \* what the dispatcher was given so far: each flow and when

flowVars == <<file, numFlows, migrations, migrates, phase,
              now, event, currentIdx, current, dispatched>>

NoEvent == -1

(* Mutant: at its end, the file is read from the start again.              *)
LineRewound(n) == file[1 + ((n - 1) % Len(file))]

Line(n) == file[IF n <= Len(file) THEN n ELSE Len(file)]

---------------------------------------------------------------------------
(* The first line of a generated file.  traffic_gen.py writes the estimate *)
(* there, goes back to the start when all flows are written, and writes    *)
(* their number over it: a longer estimate keeps its last digits.  (A      *)
(* shorter one loses the end of its line too; no such file is considered.) *)
Digits(n) == IF n < 10 THEN 1 ELSE IF n < 100 THEN 2 ELSE 3
Header(estimate, flows) ==
    LET kept == 10 ^ (Digits(estimate) - Digits(flows))
    IN  (flows * kept) + (estimate % kept)

Headers(flows) ==
    {Header(e, flows) : e \in {x \in Estimates : Digits(x) >= Digits(flows)}}

---------------------------------------------------------------------------
(* MIGRATE: migrateTraffic, migrateTo and migrateBack.                     *)

(* The map f with the value v for the key x.                               *)
Put(f, x, v) == [y \in DOMAIN f \cup {x} |-> IF y = x THEN v ELSE f[y]]

NoShares == [d \in {} |-> 0]
SharesOf(src) == IF src \in DOMAIN migrations THEN migrations[src] ELSE NoShares
ShareOf(src, d) == IF d \in DOMAIN SharesOf(src) THEN SharesOf(src)[d] ELSE 0

MigrateTo(src, d, percent) ==
    LET share == (ShareOf(src, d) + percent) % 256
    IN  migrations' = Put(migrations, src, Put(SharesOf(src), d, share)) /\ UNCHANGED phase

(* The inner map stays, empty, when its last entry is erased.              *)
MigrateBack(src, d, percent) ==
    LET left == ShareOf(src, d) - percent
        shares == Put(SharesOf(src), d, left)
    IN  IF left < 0
        THEN phase' = "failed" /\ UNCHANGED migrations
        ELSE /\ migrations' = Put(migrations, src,
                    IF left = 0 THEN Restrict(shares, DOMAIN shares \ {d}) ELSE shares)
             /\ UNCHANGED phase

Migrate(src, d, percent) ==
    /\ phase = "setup" /\ migrates < MaxMigrates
    /\ migrates' = migrates + 1
    /\ IF percent > 0 THEN MigrateTo(src, d, percent) ELSE MigrateBack(src, d, -percent)
    /\ UNCHANGED <<file, numFlows, now, event, currentIdx, current, dispatched>>

(* getMigrationSource for the random number r: the first entry, by host,   *)
(* with r <= sum, where the sum (8 bits) is that of the entries before it. *)
SumBefore(shares, d) == MapThenSumSet(LAMBDA x : shares[x], {x \in DOMAIN shares : x < d}) % 256

MigrationSource(src, r) ==
    LET reached == {d \in DOMAIN migrations[src] : r <= SumBefore(migrations[src], d)}
    IN  IF reached = {} THEN src ELSE Min(reached)

(* Mutant: the destination of the line is looked up, not its source.       *)
DestinationsByDestination(f) ==
    IF f.dst \in DOMAIN migrations
    THEN {MigrationSource(f.dst, r) : r \in 0 .. 99}
    ELSE {f.dst}

(* The destinations that getNextFlow may leave in m_current_flow.          *)
Destinations(f) ==
    IF f.src \in DOMAIN migrations
    THEN {MigrationSource(f.src, r) : r \in 0 .. 99}
    ELSE {f.dst}

---------------------------------------------------------------------------
SchedulerInit ==
    /\ file \in UNION {[1 .. n -> Flow] : n \in 1 .. MaxFlows}
    /\ numFlows \in Headers(Len(file)) \cup HandWritten
    /\ migrations = [s \in {} |-> NoShares] /\ migrates = 0
    /\ phase = "setup"
    /\ now = [p \in Procs |-> 0]
    /\ event = [p \in Procs |-> NoEvent]
    /\ currentIdx = [p \in Procs |-> 0]
    /\ current = [p \in Procs |-> [src |-> 0, dst |-> 0, size |-> 0, at |-> 0]]
    /\ dispatched = [p \in Procs |-> <<>>]

(* begin() in every process: the end of the set-up.                        *)
Begin ==
    /\ phase = "setup"
    /\ phase' = "running"
    /\ \E d \in [Procs -> Destinations(Line(1))] :
            current' = [p \in Procs |-> [Line(1) EXCEPT !.dst = d[p]]]
    /\ event' = [p \in Procs |-> Line(1).at]
    /\ UNCHANGED <<file, numFlows, migrations, migrates, now, currentIdx, dispatched>>

(* Mutant: the loop does not look at the arrival times.                    *)
DueAll(p, n) == n = numFlows - currentIdx[p]

(* The loop of dispatchAndSchedule takes n turns.                          *)
Due(p, n) ==
    /\ n <= numFlows - currentIdx[p]
    /\ \A i \in 1 .. n : Line(currentIdx[p] + i).at = event[p]
    /\ n < numFlows - currentIdx[p] => Line(currentIdx[p] + n + 1).at # event[p]

(* Simulator::Schedule with a delay of at - now, which must not be         *)
(* negative.                                                               *)
ScheduleAt(p, at) ==
    IF at < event[p]
    THEN phase' = "failed" /\ event' = [event EXCEPT ![p] = NoEvent]
    ELSE event' = [event EXCEPT ![p] = at] /\ UNCHANGED phase

(* dispatchAndSchedule.  The n-th flow read has the destination read[n];   *)
(* the first one was read before this event.                               *)
DispatchAndSchedule(p) ==
    LET first == currentIdx[p] IN
    /\ phase = "running" /\ event[p] # NoEvent
    /\ now' = [now EXCEPT ![p] = event[p]]
    /\ \E n \in 0 .. numFlows :
        /\ Due(p, n)
        /\ \E read \in {d \in [1 .. n + 1 -> Hosts] :
                            /\ d[1] = current[p].dst
                            /\ \A i \in 2 .. n + 1 : d[i] \in Destinations(Line(first + i))} :
            /\ dispatched' = [dispatched EXCEPT ![p] = @ \o
                    [i \in 1 .. n |-> [flow |-> [Line(first + i) EXCEPT !.dst = read[i]],
                                       at |-> event[p]]]]
            /\ current' = [current EXCEPT ![p] = [Line(first + n + 1) EXCEPT !.dst = read[n + 1]]]
        /\ currentIdx' = [currentIdx EXCEPT ![p] = @ + n]
        /\ IF first + n < numFlows
           THEN ScheduleAt(p, Line(first + n + 1).at)
           ELSE event' = [event EXCEPT ![p] = NoEvent] /\ UNCHANGED phase
    /\ UNCHANGED <<file, numFlows, migrations, migrates>>

SchedulerNext ==
    \/ \E src, d \in Hosts, percent \in Shifts : Migrate(src, d, percent)
    \/ Begin
    \/ \E p \in Procs : DispatchAndSchedule(p)

SchedulerSpec == SchedulerInit /\ [][SchedulerNext]_flowVars

---------------------------------------------------------------------------
(* Properties.                                                             *)

Sorted == \A i, j \in 1 .. Len(file) : i < j => file[i].at <= file[j].at

(* Every flow is handed over in the order of the file, at its arrival      *)
(* time, from its own source and with its own size, to its own destination *)
(* unless its source has been the subject of a MIGRATE; what has not been  *)
(* handed over yet is not overdue.                                         *)
EachFlowOnTime ==
    \A p \in Procs :
        /\ Len(dispatched[p]) = currentIdx[p]
        /\ \A n \in 1 .. currentIdx[p] :
            LET d == dispatched[p][n] IN
            /\ d.at = Line(n).at
            /\ [d.flow EXCEPT !.dst = Line(n).dst] = Line(n)
            /\ Line(n).src \notin DOMAIN migrations => d.flow.dst = Line(n).dst
        /\ phase = "running" /\ currentIdx[p] < numFlows =>
            /\ event[p] = Line(currentIdx[p] + 1).at
            /\ event[p] >= now[p]

(* A file sorted by arrival and no MIGRATE, which fails an assertion when  *)
(* it takes back more than was given: then no assertion of the scheduler   *)
(* fails, neither at equal times nor past the end of the file.             *)
SortedNeverFails == Sorted /\ migrates = 0 => phase # "failed"

(* m_migrations (flow_scheduler.h): of the flows that start from A, a      *)
(* percentage is sent "from B instead": their destination stays.           *)
MigrationKeepsDestination ==
    \A p \in Procs : \A n \in 1 .. Len(dispatched[p]) :
        dispatched[p][n].flow.dst = Line(n).dst

(* "The first line is the number of flows" (hpcc/traffic_gen/README.md),   *)
(* and the scheduler schedules "one at a time" (flow_scheduler.h): no line *)
(* is dispatched twice.                                                    *)
EachLineOnce == \A p \in Procs : currentIdx[p] <= Len(file)

===========================================================================
