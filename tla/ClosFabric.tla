---------------------------- MODULE ClosFabric ----------------------------
(***************************************************************************)
(* The routing state of the whole fabric and the commands of a scenario    *)
(* that change it: LINK_DOWN, LINK_UP and SET_WCMP (scenario_parser.h),    *)
(* executed by ClosTopology::doDisableLink, doEnableLink and doUpdateWcmp  *)
(* (scratch/swarm/swarm.cc) with everything they call: the interface       *)
(* notifications, the static routes that ns-3 drops with an interface, the *)
(* WCMP weights that automatic mitigation rewrites all over the fabric,    *)
(* and the static routes it restores.  A command is executed as a whole    *)
(* while the script is parsed, so it is one action; LINK_DOWN and LINK_UP  *)
(* always carry auto_mitiagate = true there.                               *)
(***************************************************************************)
EXTENDS ClosTopology

CONSTANTS
    ManualWeights,  \* weights that SET_WCMP may write
    MaxChanges      \* bound on the number of commands of a behaviour

ASSUME ManualAssumption == ManualWeights \subseteq Nat
ASSUME BoundAssumption == MaxChanges \in Nat

VARIABLES
    linkUp,       \* are the two interfaces of a cable up?
    edgeWeight,   \* WCMP weight at an edge, for its uplink to aggregate a, per level
    aggWeight,    \* WCMP weight at an aggregate, for its uplink to core row r, per level
    aggStatic,    \* edges of the pod to which an aggregate has its /24 route
    coreStatic,   \* pods to which a core has its /16 route
    changes       \* number of commands executed so far

fabricVars == <<linkUp, edgeWeight, aggWeight, aggStatic, coreStatic, changes>>

DefaultWeight == 100     \* DEFAULT_WCMP_WEIGHT
DownWeight == 0
RestoredWeight == 1

Weights == {DownWeight, RestoredWeight, DefaultWeight} \cup ManualWeights

FabricTypeOK ==
    /\ linkUp \in [Link -> BOOLEAN]
    /\ edgeWeight \in [Edge -> [Idx -> [Edge -> Weights]]]
    /\ aggWeight \in [Agg -> [Idx -> [Edge -> Weights]]]
    /\ aggStatic \in [Agg -> SUBSET Idx]
    /\ coreStatic \in [Core -> SUBSET Pods]
    /\ changes \in 0 .. MaxChanges

(* The fabric as doEcmp and setupCoreRouting leave it.                     *)
FabricInit ==
    /\ linkUp = [l \in Link |-> TRUE]
    /\ edgeWeight = [s \in Edge |-> [a \in Idx |-> [t \in Edge |-> DefaultWeight]]]
    /\ aggWeight = [s \in Agg |-> [r \in Idx |-> [t \in Edge |-> DefaultWeight]]]
    /\ aggStatic = [s \in Agg |-> Idx]
    /\ coreStatic = [c \in Core |-> Pods]
    /\ changes = 0

---------------------------------------------------------------------------
(* Automatic mitigation.                                                   *)

(* Mutant: the loop over the other pods is missing.                        *)
EdgesMitigatingSamePodOnly(p, e) == {s \in Edge : s[1] = p /\ s[2] # e}

(* The edges that rewrite their weight towards ToR <<p, e>> when one of    *)
(* the ToR's uplinks changes: the others of its pod, and all of the other  *)
(* pods.                                                                   *)
EdgesMitigating(p, e) ==
    {s \in Edge : s[1] = p /\ s[2] # e} \cup {s \in Edge : s[1] # p}

(* Mutants: an edge rewrites all its uplinks, an aggregate all its rows.   *)
MitigatedEdgeWeightAllUplinks(l, w) ==
    [s \in Edge |-> [a \in Idx |-> [t \in Edge |->
        IF s \in EdgesMitigating(l.pod, l.edge) /\ t = <<l.pod, l.edge>>
        THEN w
        ELSE edgeWeight[s][a][t]]]]

MitigatedAggWeightAllRows(l, w) ==
    [s \in Agg |-> [r \in Idx |-> [t \in Edge |->
        IF s[1] # l.pod /\ s[2] = l.agg /\ t[1] = l.pod
        THEN w
        ELSE aggWeight[s][r][t]]]]

(* mitigateEdgeToAggregateLink: they do so on the uplink to the aggregate  *)
(* with the index of the one that the cable reaches.                       *)
MitigatedEdgeWeight(l, w) ==
    [s \in Edge |-> [a \in Idx |-> [t \in Edge |->
        IF s \in EdgesMitigating(l.pod, l.edge) /\ a = l.agg /\ t = <<l.pod, l.edge>>
        THEN w
        ELSE edgeWeight[s][a][t]]]]

(* mitigateAggregateToCoreLink: the aggregates of the same index in the    *)
(* other pods rewrite their weight on the uplink to the core, towards      *)
(* every ToR of the pod that the cable serves.                             *)
MitigatedAggWeight(l, w) ==
    [s \in Agg |-> [r \in Idx |-> [t \in Edge |->
        IF s[1] # l.pod /\ s[2] = l.agg /\ r = l.row /\ t[1] = l.pod
        THEN w
        ELSE aggWeight[s][r][t]]]]

Mitigate(l, w) ==
    \/ /\ l \in EdgeLink
       /\ edgeWeight' = MitigatedEdgeWeight(l, w)
       /\ UNCHANGED aggWeight
    \/ /\ l \in CoreLink
       /\ aggWeight' = MitigatedAggWeight(l, w)
       /\ UNCHANGED edgeWeight

(* Mutants: the static routes are not touched; the restoring loop starts   *)
(* at one.                                                                 *)
KeepStaticRoutes(l) == UNCHANGED <<aggStatic, coreStatic>>

RestoreStaticRoutesFromOne(l) ==
    /\ l \in EdgeLink
    /\ aggStatic' = [aggStatic EXCEPT ![<<l.pod, l.agg>>] = 1 .. Half]
    /\ UNCHANGED coreStatic

(* Ipv4StaticRouting::NotifyInterfaceDown: the routes bound to the         *)
(* interface of the upper switch go; the lower one has no static uplink    *)
(* route.                                                                  *)
DropStaticRoutes(l) ==
    \/ /\ l \in EdgeLink
       /\ aggStatic' = [aggStatic EXCEPT ![<<l.pod, l.agg>>] = @ \ {l.edge}]
       /\ UNCHANGED coreStatic
    \/ /\ l \in CoreLink
       /\ coreStatic' = [coreStatic EXCEPT ![<<l.agg, l.row>>] = @ \ {l.pod}]
       /\ UNCHANGED aggStatic

(* restoreStaticRoutesAggregate and restoreStaticRoutesCore: every route   *)
(* of the upper switch is added again, whatever the state of its cable.    *)
RestoreStaticRoutes(l) ==
    \/ /\ l \in EdgeLink
       /\ aggStatic' = [aggStatic EXCEPT ![<<l.pod, l.agg>>] = Idx]
       /\ UNCHANGED coreStatic
    \/ /\ l \in CoreLink
       /\ coreStatic' = [coreStatic EXCEPT ![<<l.agg, l.row>>] = Pods]
       /\ UNCHANGED aggStatic

---------------------------------------------------------------------------
(* The commands.                                                           *)

CountChange ==
    /\ changes < MaxChanges
    /\ changes' = changes + 1

(* LINK_DOWN.  A link that is down already may be disabled again.          *)
DisableLink(l) ==
    /\ CountChange
    /\ linkUp' = [linkUp EXCEPT ![l] = FALSE]
    /\ DropStaticRoutes(l)
    /\ Mitigate(l, DownWeight)

(* LINK_UP.                                                                *)
EnableLink(l) ==
    /\ CountChange
    /\ linkUp' = [linkUp EXCEPT ![l] = TRUE]
    /\ Mitigate(l, RestoredWeight)
    /\ RestoreStaticRoutes(l)

(* SET_WCMP on an uplink of an edge or of an aggregate.                    *)
UpdateEdgeWcmp(s, a, t, w) ==
    /\ CountChange
    /\ edgeWeight' = [edgeWeight EXCEPT ![s][a][t] = w]
    /\ UNCHANGED <<linkUp, aggWeight, aggStatic, coreStatic>>

UpdateAggWcmp(s, r, t, w) ==
    /\ CountChange
    /\ aggWeight' = [aggWeight EXCEPT ![s][r][t] = w]
    /\ UNCHANGED <<linkUp, edgeWeight, aggStatic, coreStatic>>

LinkCommand == \E l \in Link : DisableLink(l) \/ EnableLink(l)

WeightCommand ==
    \E i \in Idx, t \in Edge, w \in ManualWeights :
        \/ \E s \in Edge : UpdateEdgeWcmp(s, i, t, w)
        \/ \E s \in Agg : UpdateAggWcmp(s, i, t, w)

FabricNext == LinkCommand \/ WeightCommand

FabricSpec == FabricInit /\ [][FabricNext]_fabricVars

---------------------------------------------------------------------------
(* Properties.                                                             *)

(* A weight is zero exactly when the cable it stands for is down: at an    *)
(* edge, the cable that joins the destination ToR to the aggregates of     *)
(* that index; at an aggregate, the cable that joins the core to the       *)
(* destination's pod.  Every LINK_DOWN and LINK_UP rewrites a whole slice  *)
(* of weights of other switches and must hit exactly the entries of its    *)
(* own cable, in whatever order the commands come                          *)
(* (mitigateEdgeToAggregateLink, mitigateAggregateToCoreLink).             *)
WeightsMirrorLinks ==
    /\ \A s, t \in Edge, a \in Idx :
        s # t => (edgeWeight[s][a][t] = 0 <=> ~linkUp[EdgeCable(t[1], t[2], a)])
    /\ \A s \in Agg, r \in Idx, t \in Edge :
        s[1] # t[1] => (aggWeight[s][r][t] = 0 <=> ~linkUp[CoreCable(t[1], s[2], r)])

(* A working cable has its route: the upper switch of a cable that is up   *)
(* holds the static route over it, although ns-3 threw it away when the    *)
(* cable, or LINK_UP of another cable of the switch, changed before        *)
(* (swarm.h, "we need to explicitly restore such routes").                 *)
UpLinksHaveRoutes ==
    /\ \A p \in Pods, e \in Idx, a \in Idx :
        linkUp[EdgeCable(p, e, a)] => e \in aggStatic[<<p, a>>]
    /\ \A p \in Pods, a \in Idx, r \in Idx :
        linkUp[CoreCable(p, a, r)] => p \in coreStatic[<<a, r>>]

(* doEcmp: "without explicit modification by the user in terms of what     *)
(* weights to use, it just results in ECMP": the uplinks that an edge or   *)
(* an aggregate uses towards a destination share its traffic equally.      *)
EqualShares ==
    /\ \A s, t \in Edge, a, b \in Idx :
        edgeWeight[s][a][t] # 0 /\ edgeWeight[s][b][t] # 0
            => edgeWeight[s][a][t] = edgeWeight[s][b][t]
    /\ \A s \in Agg, t \in Edge, a, b \in Idx :
        aggWeight[s][a][t] # 0 /\ aggWeight[s][b][t] # 0
            => aggWeight[s][a][t] = aggWeight[s][b][t]

===========================================================================
