-------------------------- MODULE ClosForwarding --------------------------
(***************************************************************************)
(* One packet crossing the fabric of ClosFabric after the commands of the  *)
(* scenario were executed: parseSecnarioScript runs them all before        *)
(* Simulator::Run.  A switch asks Ipv4StaticRouting first and              *)
(* WcmpStaticRouting next (priorities 0 and -20, installWcmpStack), an     *)
(* edge or an aggregate having both and a core only the first.  The hash   *)
(* of a packet is abstracted to a free choice among the entries that       *)
(* WcmpWeights::choose can return.  Packets do not influence each other's  *)
(* route, so a single packet shows all that can happen to one.             *)
(*                                                                         *)
(* A step is the arrival of the packet at a switch and what the switch     *)
(* does with it; between two steps it is on the cable "via".               *)
(***************************************************************************)
EXTENDS ClosFabric

CONSTANTS
    BackupPaths,    \* enableEdgeBounceBackup: enableAggregateBackupPaths is called
    TimeToLive      \* bound on the switches a packet may cross

ASSUME BackupAssumption == BackupPaths \in BOOLEAN
ASSUME TtlAssumption == TimeToLive \in Nat

VARIABLES
    status,   \* what became of the packet
    at,       \* the switch the packet is at, or is on its way to
    via,      \* the cable it comes over, NoCable from a server
    dst,      \* the ToR of its destination
    src,      \* the ToR of its source
    hops      \* cables crossed so far

packetVars == <<status, at, via, dst, src, hops>>
vars == <<fabricVars, packetVars>>

NoCable == [tier |-> "none"]

EdgeNode(s) == <<"edge", s[1], s[2]>>
AggNode(s) == <<"agg", s[1], s[2]>>
CoreNode(c) == <<"core", c[1], c[2]>>

Node == ({"edge", "agg"} \X Pods \X Idx) \cup ({"core"} \X Idx \X Idx)

Status == {"idle", "moving", "delivered", "dropped", "aborted"}

TypeOK ==
    /\ FabricTypeOK
    /\ status \in Status
    /\ at \in Node
    /\ via \in Link \cup {NoCable}
    /\ dst \in Edge /\ src \in Edge
    /\ hops \in 0 .. TimeToLive

Init ==
    /\ FabricInit
    /\ status = "idle"
    /\ src = <<0, 0>> /\ dst = <<0, 0>>
    /\ at = EdgeNode(src)
    /\ via = NoCable
    /\ hops = 0

---------------------------------------------------------------------------
(* What becomes of a packet in one step.                                   *)

Finish(outcome) ==
    /\ status' = outcome
    /\ UNCHANGED <<at, via, hops>>

(* Ipv4L3Protocol sends over a route: a packet bound for an interface that *)
(* is down is dropped, and so is one whose time to live is over.           *)
Send(cable, node) ==
    \/ /\ linkUp[cable] /\ hops < TimeToLive
       /\ at' = node /\ via' = cable /\ hops' = hops + 1
       /\ UNCHANGED status
    \/ /\ ~linkUp[cable] \/ hops = TimeToLive
       /\ Finish("dropped")

(* Mutant: entries on the incoming interface are not removed.              *)
WcmpForwardAnyInterface(entries, cable, node, weight) ==
    LET chosen == {i \in entries : linkUp[cable[i]] /\ weight[i] > 0}
    IN  \/ entries = {} /\ Finish("dropped")
        \/ entries # {} /\ chosen = {} /\ Finish("aborted")
        \/ \E i \in chosen : Send(cable[i], node[i])

(* LookupWcmp over the entries MultiLpm returns, each for one index of an  *)
(* interface of the switch.  cable[i] and node[i] are what the interface   *)
(* leads to, weight[i] its weight at the level of the destination.         *)
(*   - entries on the incoming interface are removed; nothing left: the    *)
(*     lookup fails and the packet has no route;                           *)
(*   - choose() aborts the simulation when the entries that are up have a  *)
(*     total weight of zero;                                               *)
(*   - otherwise some entry that is up and has a weight is taken.          *)
WcmpForward(entries, cable, node, weight) ==
    LET others == {i \in entries : cable[i] # via}
        chosen == {i \in others : linkUp[cable[i]] /\ weight[i] > 0}
    IN  \/ others = {} /\ Finish("dropped")
        \/ others # {} /\ chosen = {} /\ Finish("aborted")
        \/ \E i \in chosen : Send(cable[i], node[i])

(* An edge: host routes to its own servers, WCMP wildcards over the        *)
(* uplinks.                                                                *)
AtEdge(p, e) ==
    /\ at = <<"edge", p, e>>
    /\ \/ dst = <<p, e>> /\ Finish("delivered")
       \/ /\ dst # <<p, e>>
          /\ WcmpForward(Idx,
                 [a \in Idx |-> EdgeCable(p, e, a)],
                 [a \in Idx |-> <<"agg", p, a>>],
                 [a \in Idx |-> edgeWeight[<<p, e>>][a][dst]])

(* enableAggregateBackupPaths: WCMP routes for the own pod over the        *)
(* downlinks, except the one whose interface number is the pod's plus one. *)
BackupEntries(p) == IF BackupPaths THEN {e \in Idx : e + 1 # p + 1} ELSE {}

(* An aggregate: a /24 per edge of its pod, then WCMP, where a backup /16  *)
(* for the own pod is a longer match than the wildcards over the uplinks.  *)
AtAgg(p, a) ==
    /\ at = <<"agg", p, a>>
    /\ \/ /\ dst[1] = p /\ dst[2] \in aggStatic[<<p, a>>]
          /\ Send(EdgeCable(p, dst[2], a), EdgeNode(dst))
       \/ /\ dst[1] = p /\ dst[2] \notin aggStatic[<<p, a>>] /\ BackupEntries(p) # {}
          /\ WcmpForward(BackupEntries(p),
                 [e \in Idx |-> EdgeCable(p, e, a)],
                 [e \in Idx |-> <<"edge", p, e>>],
                 [e \in Idx |-> DefaultWeight])
       \/ /\ dst[1] = p => dst[2] \notin aggStatic[<<p, a>>] /\ BackupEntries(p) = {}
          /\ WcmpForward(Idx,
                 [r \in Idx |-> CoreCable(p, a, r)],
                 [r \in Idx |-> <<"core", a, r>>],
                 [r \in Idx |-> aggWeight[<<p, a>>][r][dst]])

(* A core: a /16 per pod and nothing else.                                 *)
AtCore(a, r) ==
    /\ at = <<"core", a, r>>
    /\ \/ dst[1] \in coreStatic[<<a, r>>] /\ Send(CoreCable(dst[1], a, r), <<"agg", dst[1], a>>)
       \/ dst[1] \notin coreStatic[<<a, r>>] /\ Finish("dropped")

Step ==
    /\ status = "moving"
    /\ \/ \E s \in Edge : AtEdge(s[1], s[2])
       \/ \E s \in Agg : AtAgg(s[1], s[2])
       \/ \E c \in Core : AtCore(c[1], c[2])
    /\ UNCHANGED <<fabricVars, dst, src>>

(* Traffic: a server under ToR s sends to a server under ToR t.            *)
Inject(s, t) ==
    /\ status = "idle"
    /\ status' = "moving"
    /\ src' = s /\ dst' = t
    /\ at' = EdgeNode(s) /\ via' = NoCable /\ hops' = 0
    /\ UNCHANGED fabricVars

(* The script: all of its commands run before traffic does.                *)
Command ==
    /\ status = "idle"
    /\ FabricNext
    /\ UNCHANGED packetVars

Next ==
    \/ Step
    \/ Command
    \/ \E s, t \in Edge : Inject(s, t)

(* The event queue of the simulator always executes its next event, so a   *)
(* packet that has arrived is forwarded.                                   *)
Spec == Init /\ [][Next]_vars /\ WF_vars(Step)

---------------------------------------------------------------------------
(* Properties.                                                             *)

(* No packet is lost silently, whatever the number of cables down: no      *)
(* switch gives one to an interface that is down, to a switch without a    *)
(* route or back where it came from ("to route packets without loss in the *)
(* event of a link failure, some WCMP weights need to be updated",         *)
(* swarm.h).                                                               *)
NoSilentLoss == status # "dropped"

(* ... and it takes the up-down path: two cables within a pod, without     *)
(* touching a core, four between pods (doEcmp).                            *)
UpDownPath ==
    /\ hops <= IF src[1] = dst[1] THEN 2 ELSE 4
    /\ src[1] = dst[1] => at[1] # "core"

(* The inductive form of the two: where a packet is, over which cable it   *)
(* came, and that the cables left on its way are up.                       *)
AtSource == at = EdgeNode(src) /\ via = NoCable /\ hops = 0

Rising(a) ==
    /\ at = <<"agg", src[1], a>> /\ via = EdgeCable(src[1], src[2], a) /\ hops = 1
    /\ src # dst
    /\ linkUp[EdgeCable(dst[1], dst[2], a)]

Crossing(a, r) ==
    /\ at = <<"core", a, r>> /\ via = CoreCable(src[1], a, r) /\ hops = 2
    /\ src[1] # dst[1]
    /\ linkUp[CoreCable(dst[1], a, r)]
    /\ linkUp[EdgeCable(dst[1], dst[2], a)]

Falling(a, r) ==
    /\ at = <<"agg", dst[1], a>> /\ via = CoreCable(dst[1], a, r) /\ hops = 3
    /\ src[1] # dst[1]
    /\ linkUp[EdgeCable(dst[1], dst[2], a)]

AtDestination(a) ==
    /\ at = EdgeNode(dst) /\ via = EdgeCable(dst[1], dst[2], a)
    /\ hops = IF src[1] = dst[1] THEN 2 ELSE 4

PacketOnPath ==
    \/ AtSource
    \/ \E a \in Idx : Rising(a) \/ AtDestination(a)
    \/ \E a, r \in Idx : Crossing(a, r) \/ Falling(a, r)

DownLinks == {l \in Link : ~linkUp[l]}
AtMostOneDown == \A k, l \in DownLinks : k = l

(* With at most one cable down, a packet does not meet choose()'s abort    *)
(* either: one failure is mitigated without loss.                          *)
OneFailureHarmless == AtMostOneDown => status \notin {"dropped", "aborted"}

(* ... so it reaches its destination.                                      *)
OneFailureDelivers == (status = "moving" /\ AtMostOneDown) ~> status = "delivered"

(* An edge aborts on a packet only when no aggregate index joins the       *)
(* source ToR to the destination ToR: then no up-down path is left.        *)
EdgeAbortsOnlyWhenCut ==
    status = "aborted" /\ at = EdgeNode(src) =>
        \A a \in Idx :
            \/ ~linkUp[EdgeCable(src[1], src[2], a)]
            \/ ~linkUp[EdgeCable(dst[1], dst[2], a)]

(* enableAggregateBackupPaths: when a direct route of an aggregate goes    *)
(* down, "everything destined for this pod will get pushed to another      *)
(* aggregate in the hope that it will reach its destination".  SET_WCMP    *)
(* may give weight to an aggregate whose cable to the destination is down. *)
(* With no other cable down, the hope is justified but in two cases: the   *)
(* aggregate has its direct route again, because LINK_UP of another of its *)
(* cables brought it back, or it has no third edge to push the packet to.  *)
Detours == BackupEntries(dst[1]) \ ({dst[2]} \cup IF src[1] = dst[1] THEN {src[2]} ELSE {})

LostAbove(a) ==
    /\ at = <<"agg", dst[1], a>>
    /\ ~linkUp[EdgeCable(dst[1], dst[2], a)]
    /\ dst[2] \in aggStatic[<<dst[1], a>>] \/ Detours = {}

BackupDelivers ==
    AtMostOneDown /\ (\A l \in CoreLink : linkUp[l]) /\ status \in {"dropped", "aborted"}
        => \E a \in Idx : LostAbove(a)

(* "This entry is never triggered if the direct paths are up": a packet    *)
(* that came down to another edge than its own has left an aggregate whose *)
(* direct cable is down.                                                   *)
BackupOnlyWhenDown ==
    \A e, a \in Idx :
        /\ status # "idle" /\ dst # <<dst[1], e>>
        /\ at = <<"edge", dst[1], e>> /\ via = EdgeCable(dst[1], e, a)
        => ~linkUp[EdgeCable(dst[1], dst[2], a)]

===========================================================================
