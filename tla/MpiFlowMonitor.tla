-------------------------- MODULE MpiFlowMonitor --------------------------
(***************************************************************************)
(* The flow monitor of an MPI run (src/flowmon-mpi/model): in every        *)
(* process a classifier that numbers the flows of its own hosts, probes on *)
(* these hosts that tag the packets they send and look at the tags of      *)
(* those they get, and the statistics of the process, of which the flows   *)
(* sent and received are written in the end.  The processes share nothing  *)
(* but the packets.  Each has its own clock; a packet is never received    *)
(* before it is sent.                                                      *)
(***************************************************************************)
EXTENDS Integers, Sequences, FiniteSets, FiniteSetsExt

CONSTANTS
    NumProcs, NumHosts, HostsPerProc,
    FiveTuples,     \* of the packets: the hosts, and the port of the source
    DiscardPort,    \* TCP_DISCARD_PORT, from which a sink acknowledges
    NoAcks,         \* --noAcks
    Size,           \* of a packet
    IdSpan,         \* 2^26: the numbers for the flows of one process
    ProcSpan,       \* 2^6: the processes that have numbers of their own
    MaxTime,        \* bound on the clocks
    MaxPackets      \* bound on the packets sent

ASSUME MonitorAssumption ==
    /\ NumProcs \in Nat \ {0} /\ NumHosts \in Nat \ {0} /\ HostsPerProc \in Nat \ {0}
    /\ NumHosts <= NumProcs * HostsPerProc
    /\ NoAcks \in BOOLEAN /\ Size \in Nat \ {0}
    /\ IdSpan \in Nat \ {0} /\ ProcSpan \in Nat \ {0}
    /\ MaxTime \in Nat /\ MaxPackets \in Nat

ASSUME TupleAssumption ==
    \A t \in FiveTuples :
        t \in [src : 0 .. NumHosts - 1, dst : 0 .. NumHosts - 1, port : Nat] /\ t.src # t.dst

Procs == 0 .. NumProcs - 1
Hosts == 0 .. NumHosts - 1
ProcOf(host) == host \div HostsPerProc

VARIABLES
    until,          \* m_monitorUntil: --until, or what Seconds(MAXFLOAT) made of it
    now,            \* of each process
    flowMap,        \* m_flowMap of each process: the numbers of its tuples
    lastNewFlowId,  \* m_lastNewFlowId
    pktId,          \* m_flowPktIdMap: the number of the last packet of a flow
    stats,          \* m_flowStats of each process
    tracked,        \* m_trackedPackets of each process
    packets,        \* every packet sent so far, its tag, and what became of it: when, and by
                    \* the host of which process (-1: of none)
    aborted         \* a packet came of which ForwardUpLogger says "This should not happen!"

vars == <<until, now, flowMap, lastNewFlowId, pktId, stats, tracked, packets, aborted>>

NoTag == [flow |-> -1, packet |-> 0]
Fates == {"flying", "delivered", "dropped", "lost"}

(* Mutant: the processes number their flows alike.                         *)
SystemIdForgotten(p) == 0

(* SetSystemId: where the numbers of a process begin.                      *)
SystemId(p) == (p % ProcSpan) * IdSpan

NoStats == [timeFirstTx |-> 0, timeFirstRx |-> 0, timeLastRx |-> 0,
            txBytes |-> 0, rxBytes |-> 0, bytesDropped |-> 0]

Init ==
    /\ until \in -1 .. MaxTime
    /\ now = [p \in Procs |-> 0]
    /\ flowMap = [p \in Procs |-> [t \in {} |-> 0]]
    /\ lastNewFlowId = [p \in Procs |-> SystemId(p)]
    /\ pktId = [p \in Procs |-> [f \in {} |-> 0]]
    /\ stats = [p \in Procs |-> [f \in {} |-> NoStats]]
    /\ tracked = [p \in Procs |-> {}]
    /\ packets = <<>>
    /\ aborted = FALSE

(* The clock of a process that waits for nobody.                           *)
Advance(p) ==
    /\ ~aborted /\ now[p] < MaxTime
    /\ now' = [now EXCEPT ![p] = @ + 1]
    /\ UNCHANGED <<until, flowMap, lastNewFlowId, pktId, stats, tracked, packets, aborted>>

---------------------------------------------------------------------------
(* The map f with the value v for the key x.                               *)
Put(f, x, v) == [y \in DOMAIN f \cup {x} |-> IF y = x THEN v ELSE f[y]]

Filtered(t) == NoAcks /\ t.port = DiscardPort

StatsOf(p, f) == IF f \in DOMAIN stats[p] THEN stats[p][f] ELSE NoStats
Record(p, f, s) == stats' = [stats EXCEPT ![p] = Put(@, f, s)]

(* Mutant: the end of the monitored time counts for known flows too.       *)
IsMonitoredTillEnd(p, t) == ~Filtered(t) /\ now[p] <= until

(* Mutant: the last instant is not monitored any more.                     *)
IsMonitoredBefore(p, t) == ~Filtered(t) /\ (t \in DOMAIN flowMap[p] \/ now[p] < until)

(* Classify has a number for the tuple: it is known already, or it begins  *)
(* within the monitored time.                                              *)
IsMonitored(p, t) == ~Filtered(t) /\ (t \in DOMAIN flowMap[p] \/ now[p] <= until)

(* Mutant: a new flow gets the number before it is counted on.             *)
FlowIdOfLast(p, t) == IF t \in DOMAIN flowMap[p] THEN flowMap[p][t] ELSE lastNewFlowId[p]

(* A known tuple keeps its number; GetNewFlowId otherwise (32 bits).       *)
FlowIdOf(p, t) ==
    IF t \in DOMAIN flowMap[p] THEN flowMap[p][t]
    ELSE (lastNewFlowId[p] + 1) % (ProcSpan * IdSpan)

(* Classify, when it accepts the packet.                                   *)
Classify(p, t) ==
    LET f == FlowIdOf(p, t) IN
    IF t \in DOMAIN flowMap[p]
    THEN /\ pktId' = [pktId EXCEPT ![p][f] = @ + 1]
         /\ UNCHANGED <<flowMap, lastNewFlowId>>
    ELSE /\ flowMap' = [flowMap EXCEPT ![p] = Put(@, t, f)]
         /\ lastNewFlowId' = [lastNewFlowId EXCEPT ![p] = f]
         /\ pktId' = [pktId EXCEPT ![p] = Put(@, f, 0)]

(* ReportFirstTx.                                                          *)
AfterTx(s, t) ==
    [s EXCEPT !.timeFirstTx = IF s.txBytes = 0 THEN t ELSE @, !.txBytes = @ + Size]

(* SendOutgoingLogger: a host of p sends a packet of the tuple.            *)
SendTagged(p, t) ==
    /\ IsMonitored(p, t)
    /\ Classify(p, t)
    /\ LET f == FlowIdOf(p, t)
           tag == [flow |-> f, packet |-> pktId'[p][f]]
       IN  /\ packets' = Append(packets,
                    [tuple |-> t, tag |-> tag, sent |-> now[p], fate |-> "flying", at |-> -1, by |-> -1])
           /\ tracked' = [tracked EXCEPT ![p] = @ \cup {tag}]
           /\ Record(p, f, AfterTx(StatsOf(p, f), now[p]))

SendUntagged(p, t) ==
    /\ ~IsMonitored(p, t)
    /\ packets' = Append(packets,
            [tuple |-> t, tag |-> NoTag, sent |-> now[p], fate |-> "flying", at |-> -1, by |-> -1])
    /\ UNCHANGED <<flowMap, lastNewFlowId, pktId, stats, tracked>>

(* Mutant: the packet is noted where it goes.                              *)
SenderOfDestination(t) == ProcOf(t.dst)

Sender(t) == ProcOf(t.src)

Send(t) ==
    /\ ~aborted /\ Len(packets) < MaxPackets
    /\ SendTagged(Sender(t), t) \/ SendUntagged(Sender(t), t)
    /\ UNCHANGED <<until, now, aborted>>

---------------------------------------------------------------------------
Ends(n, fate, time, proc) ==
    packets' = [packets EXCEPT ![n].fate = fate, ![n].at = time, ![n].by = proc]

(* Mutant: the time of the first transmission is left to the sender.       *)
AfterRxSilent(s, sent, t) == [s EXCEPT !.rxBytes = @ + Size, !.timeLastRx = t]

(* ReportLastRx.                                                           *)
AfterRx(s, sent, t) ==
    [s EXCEPT !.timeFirstTx = IF s.timeFirstTx = 0 THEN sent ELSE @,
              !.timeFirstRx = IF s.rxBytes = 1 THEN t ELSE @,
              !.rxBytes = @ + Size,
              !.timeLastRx = t]

(* ForwardUpLogger: the destination of the n-th packet has received it.    *)
Deliver(n) ==
    LET k == packets[n]
        q == ProcOf(k.tuple.dst)
        f == k.tag.flow
    IN
    /\ ~aborted /\ k.fate = "flying" /\ now[q] >= k.sent
    /\ Ends(n, "delivered", now[q], q)
    /\ IF Filtered(k.tuple) \/ k.tag = NoTag
       THEN /\ aborted' = (~Filtered(k.tuple) /\ now[q] <= until)
            /\ UNCHANGED <<stats, tracked>>
       ELSE /\ Record(q, f, AfterRx(StatsOf(q, f), k.sent, now[q]))
            /\ tracked' = [tracked EXCEPT ![q] = @ \ {k.tag}]
            /\ UNCHANGED aborted
    /\ UNCHANGED <<until, now, flowMap, lastNewFlowId, pktId>>

(* ReportDrop: what it counts, and what it does not track any more.        *)
AfterDrop(s) == [s EXCEPT !.bytesDropped = @ + Size]

(* Mutant: the drop is counted, the packet still tracked.                  *)
ForgetNone(p, tag) == tracked[p]

Forget(p, tag) == tracked[p] \ {tag}

(* DropLogger, QueueDropLogger and QueueDiscDropLogger: a host drops the   *)
(* packet, its source before it has left or its destination.               *)
Drop(n, host) ==
    LET k == packets[n]
        p == ProcOf(host)
        f == k.tag.flow
    IN
    /\ ~aborted /\ k.fate = "flying" /\ now[p] >= k.sent
    /\ host \in {k.tuple.src, k.tuple.dst}
    /\ Ends(n, "dropped", now[p], p)
    /\ IF k.tag = NoTag
       THEN UNCHANGED <<stats, tracked>>
       ELSE /\ Record(p, f, AfterDrop(StatsOf(p, f)))
            /\ tracked' = [tracked EXCEPT ![p] = Forget(p, k.tag)]
    /\ UNCHANGED <<until, now, flowMap, lastNewFlowId, pktId, aborted>>

(* A switch, which has no probe, drops the packet.                         *)
Lose(n) ==
    /\ ~aborted /\ packets[n].fate = "flying"
    /\ Ends(n, "lost", packets[n].sent, -1)
    /\ UNCHANGED <<until, now, flowMap, lastNewFlowId, pktId, stats, tracked, aborted>>

Next ==
    \/ \E p \in Procs : Advance(p)
    \/ \E t \in FiveTuples : Send(t)
    \/ \E n \in DOMAIN packets : Deliver(n) \/ Lose(n)
    \/ \E n \in DOMAIN packets, host \in Hosts : Drop(n, host)

Spec == Init /\ [][Next]_vars

---------------------------------------------------------------------------
(* The flows that SerializeToXmlStream writes for a process.               *)
Written(p) ==
    {f \in DOMAIN stats[p] : stats[p][f].timeFirstTx # 0 /\ stats[p][f].timeLastRx # 0}

(* Properties.                                                             *)

TypeOK ==
    /\ \A p \in Procs :
        /\ DOMAIN flowMap[p] \subseteq FiveTuples
        /\ \A t \in DOMAIN flowMap[p] : ProcOf(t.src) = p /\ flowMap[p][t] \in DOMAIN pktId[p]
        /\ stats[p] \in [DOMAIN stats[p] ->
                [timeFirstTx : 0 .. MaxTime, timeFirstRx : 0 .. MaxTime, timeLastRx : 0 .. MaxTime,
                 txBytes : Nat, rxBytes : Nat, bytesDropped : Nat]]
    /\ \A n \in DOMAIN packets :
        packets[n].fate \in Fates /\ packets[n].at <= MaxTime /\ packets[n].tuple \in FiveTuples

(* "This should not happen!" (ForwardUpLogger): a packet that its sender   *)
(* left without a tag because its flow began too late is received too late *)
(* too, on whatever clock.                                                 *)
NeverAborts == ~aborted

(* As long as no process has more flows than there are numbers for it, and *)
(* there are no more processes than ProcSpan, no number is given twice in  *)
(* the whole run, and every packet has a tag of its own.                   *)
IdsSuffice ==
    /\ \A p \in Procs : Cardinality(DOMAIN flowMap[p]) <= IdSpan
    /\ NumProcs <= ProcSpan

NumbersTellFlowsApart ==
    IdsSuffice =>
        /\ \A p, q \in Procs : \A t \in DOMAIN flowMap[p], u \in DOMAIN flowMap[q] :
                flowMap[p][t] = flowMap[q][u] => t = u
        /\ \A m, n \in DOMAIN packets :
                m # n /\ packets[m].tag # NoTag => packets[m].tag # packets[n].tag

PacketsOf(t, fates) == {n \in DOMAIN packets : packets[n].tuple = t /\ packets[n].fate \in fates}
First(set) == packets[Min(set)]

(* A flow that begins within the monitored time is counted to its end: the *)
(* process of its source counts what was sent, that of its destination     *)
(* what was received, the two together what hosts dropped, each packet     *)
(* once, and no other process counts anything.                             *)
CountsAddUp ==
    IdsSuffice => \A t \in FiveTuples :
        LET all == PacketsOf(t, Fates)
            f == First(all).tag.flow
            p == ProcOf(t.src)
            q == ProcOf(t.dst)
            dropped == Size * Cardinality(PacketsOf(t, {"dropped"}))
        IN  all # {} /\ ~Filtered(t) /\ First(all).sent <= until =>
                /\ StatsOf(p, f).txBytes = Size * Cardinality(all)
                /\ StatsOf(q, f).rxBytes = Size * Cardinality(PacketsOf(t, {"delivered"}))
                /\ p = q => StatsOf(p, f).bytesDropped = dropped
                /\ p # q => /\ StatsOf(q, f).txBytes = 0 /\ StatsOf(p, f).rxBytes = 0
                            /\ StatsOf(p, f).bytesDropped + StatsOf(q, f).bytesDropped = dropped
                /\ \A r \in Procs \ {p, q} : f \notin DOMAIN stats[r]

(* get_fct.py asserts that no flow is in the results of two processes.     *)
WrittenOnce ==
    IdsSuffice => \A p, q \in Procs : p # q => Written(p) \cap Written(q) = {}

(* The flow completion time is taken from what the receiver's process      *)
(* writes: the flow is there once a packet has been received (and none of  *)
(* the two events was at time 0), the last reception is the real one, and  *)
(* the first transmission is that of the first packet to be received, or   *)
(* of the first to be sent when the sender is in the same process.         *)
Received(t) == PacketsOf(t, {"delivered"})
CompletionTimeIsKnown ==
    IdsSuffice => \A p \in Procs : \A t \in DOMAIN flowMap[p] :
        LET f == flowMap[p][t]
            q == ProcOf(t.dst)
            s == StatsOf(q, f)
        IN
        Received(t) # {} /\ (\A n \in PacketsOf(t, Fates) : packets[n].sent > 0) =>
            /\ f \in Written(q)
            /\ s.timeLastRx = Max({packets[n].at : n \in Received(t)})
            /\ q = p => s.timeFirstTx = First(PacketsOf(t, Fates)).sent
            /\ q # p => \E n \in Received(t) :
                    /\ s.timeFirstTx = packets[n].sent
                    /\ \A m \in Received(t) : packets[n].at <= packets[m].at

(* A process forgets a packet of its own exactly when a host of its own    *)
(* receives or drops it.  The end that a packet meets in another process,  *)
(* or in a switch, never takes it off m_trackedPackets: ReportLastRx and   *)
(* ReportDrop erase it from the map of the process they run in, which has  *)
(* no such packet.                                                         *)
TrackedIsUnknownHere ==
    IdsSuffice => \A p \in Procs :
        tracked[p] = {packets[n].tag : n \in {m \in DOMAIN packets :
                        /\ packets[m].tag # NoTag
                        /\ ProcOf(packets[m].tuple.src) = p /\ packets[m].by # p}}

===========================================================================
