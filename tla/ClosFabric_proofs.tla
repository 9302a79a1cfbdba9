------------------------- MODULE ClosFabric_proofs ------------------------
(***************************************************************************)
(* What the link commands of ClosFabric keep true, for a fabric of any     *)
(* size and any number of commands.                                        *)
(***************************************************************************)
EXTENDS ClosFabric, TLAPS

---------------------------------------------------------------------------
(* Cables.                                                                 *)

(* The record of an edge cable and its constructor are the same thing.     *)
LEMMA EdgeLinkFields ==
    ASSUME NEW l \in EdgeLink
    PROVE  /\ l \in Link /\ l \notin CoreLink
           /\ l.pod \in Pods /\ l.edge \in Idx /\ l.agg \in Idx
           /\ <<l.pod, l.edge>> \in Edge /\ <<l.pod, l.agg>> \in Agg
           /\ l = EdgeCable(l.pod, l.edge, l.agg)
  BY DEF EdgeLink, CoreLink, Link, Edge, Agg, EdgeCable

(* The same for a core cable.                                              *)
LEMMA CoreLinkFields ==
    ASSUME NEW l \in CoreLink
    PROVE  /\ l \in Link /\ l \notin EdgeLink
           /\ l.pod \in Pods /\ l.agg \in Idx /\ l.row \in Idx
           /\ <<l.agg, l.row>> \in Core
           /\ l = CoreCable(l.pod, l.agg, l.row)
  BY DEF EdgeLink, CoreLink, Link, Core, CoreCable

(* Constructors give cables, and tell them apart by their arguments.       *)
LEMMA EdgeCableIsLink ==
    ASSUME NEW p \in Pods, NEW e \in Idx, NEW a \in Idx
    PROVE  /\ EdgeCable(p, e, a) \in EdgeLink
           /\ EdgeCable(p, e, a) \in Link
           /\ EdgeCable(p, e, a) \notin CoreLink
           /\ EdgeCable(p, e, a).pod = p
           /\ EdgeCable(p, e, a).edge = e
           /\ EdgeCable(p, e, a).agg = a
  BY DEF EdgeLink, CoreLink, Link, EdgeCable

LEMMA CoreCableIsLink ==
    ASSUME NEW p \in Pods, NEW a \in Idx, NEW r \in Idx
    PROVE  /\ CoreCable(p, a, r) \in CoreLink
           /\ CoreCable(p, a, r) \in Link
           /\ CoreCable(p, a, r) \notin EdgeLink
           /\ CoreCable(p, a, r).pod = p
           /\ CoreCable(p, a, r).agg = a
           /\ CoreCable(p, a, r).row = r
  BY DEF EdgeLink, CoreLink, Link, CoreCable

(* A switch is made of a pod and an index.                                 *)
LEMMA EdgeParts ==
    ASSUME NEW s \in Edge
    PROVE  s[1] \in Pods /\ s[2] \in Idx /\ s = <<s[1], s[2]>>
  BY DEF Edge

LEMMA AggParts ==
    ASSUME NEW s \in Agg
    PROVE  s[1] \in Pods /\ s[2] \in Idx /\ s = <<s[1], s[2]>>
  BY DEF Agg

(* EdgesMitigating is everybody but the ToR itself.                        *)
LEMMA AllOtherEdgesMitigate ==
    ASSUME NEW p \in Pods, NEW e \in Idx, NEW s \in Edge
    PROVE  s \in EdgesMitigating(p, e) <=> s # <<p, e>>
  BY EdgeParts DEF EdgesMitigating

---------------------------------------------------------------------------
(* Type correctness.                                                       *)

LEMMA InitFabricTypeOK == FabricInit => FabricTypeOK
  BY BoundAssumption DEF FabricInit, FabricTypeOK, Weights

LEMMA MitigateType ==
    ASSUME FabricTypeOK, NEW l \in Link, NEW w \in Weights, Mitigate(l, w)
    PROVE  /\ edgeWeight' \in [Edge -> [Idx -> [Edge -> Weights]]]
           /\ aggWeight' \in [Agg -> [Idx -> [Edge -> Weights]]]
  <1>1. MitigatedEdgeWeight(l, w) \in [Edge -> [Idx -> [Edge -> Weights]]]
    BY DEF FabricTypeOK, MitigatedEdgeWeight
  <1>2. MitigatedAggWeight(l, w) \in [Agg -> [Idx -> [Edge -> Weights]]]
    BY DEF FabricTypeOK, MitigatedAggWeight
  <1>3. QED
    BY <1>1, <1>2 DEF Mitigate, FabricTypeOK

LEMMA StaticRoutesType ==
    ASSUME FabricTypeOK, NEW l \in Link,
           DropStaticRoutes(l) \/ RestoreStaticRoutes(l)
    PROVE  /\ aggStatic' \in [Agg -> SUBSET Idx]
           /\ coreStatic' \in [Core -> SUBSET Pods]
  BY DEF FabricTypeOK, DropStaticRoutes, RestoreStaticRoutes

LEMMA CountChangeType ==
    ASSUME FabricTypeOK, CountChange
    PROVE  changes' \in 0 .. MaxChanges
  BY BoundAssumption DEF FabricTypeOK, CountChange

LEMMA NextFabricTypeOK == FabricTypeOK /\ [FabricNext]_fabricVars => FabricTypeOK'
  <1> SUFFICES ASSUME FabricTypeOK, [FabricNext]_fabricVars
               PROVE  FabricTypeOK'
    OBVIOUS
  <1>w. DownWeight \in Weights /\ RestoredWeight \in Weights
    BY DEF Weights
  <1>1. ASSUME NEW l \in Link, DisableLink(l)
        PROVE  FabricTypeOK'
    <2>1. linkUp' \in [Link -> BOOLEAN]
      BY <1>1 DEF DisableLink, FabricTypeOK
    <2>2. /\ edgeWeight' \in [Edge -> [Idx -> [Edge -> Weights]]]
          /\ aggWeight' \in [Agg -> [Idx -> [Edge -> Weights]]]
      BY <1>1, <1>w, MitigateType DEF DisableLink, FabricTypeOK
    <2>3. QED
      BY <1>1, <2>1, <2>2, StaticRoutesType, CountChangeType DEF DisableLink, FabricTypeOK
  <1>2. ASSUME NEW l \in Link, EnableLink(l)
        PROVE  FabricTypeOK'
    <2>1. linkUp' \in [Link -> BOOLEAN]
      BY <1>2 DEF EnableLink, FabricTypeOK
    <2>2. /\ edgeWeight' \in [Edge -> [Idx -> [Edge -> Weights]]]
          /\ aggWeight' \in [Agg -> [Idx -> [Edge -> Weights]]]
      BY <1>2, <1>w, MitigateType DEF EnableLink, FabricTypeOK
    <2>3. QED
      BY <1>2, <2>1, <2>2, StaticRoutesType, CountChangeType DEF EnableLink, FabricTypeOK
  <1>3. ASSUME NEW i \in Idx, NEW t \in Edge, NEW w \in ManualWeights, NEW s \in Edge,
               UpdateEdgeWcmp(s, i, t, w)
        PROVE  FabricTypeOK'
    <2>1. w \in Weights
      BY DEF Weights
    <2>2. edgeWeight' \in [Edge -> [Idx -> [Edge -> Weights]]]
      BY <1>3, <2>1 DEF UpdateEdgeWcmp, FabricTypeOK
    <2>3. QED
      BY <1>3, <2>2, CountChangeType DEF UpdateEdgeWcmp, FabricTypeOK
  <1>4. ASSUME NEW i \in Idx, NEW t \in Edge, NEW w \in ManualWeights, NEW s \in Agg,
               UpdateAggWcmp(s, i, t, w)
        PROVE  FabricTypeOK'
    <2>1. w \in Weights
      BY DEF Weights
    <2>2. aggWeight' \in [Agg -> [Idx -> [Edge -> Weights]]]
      BY <1>4, <2>1 DEF UpdateAggWcmp, FabricTypeOK
    <2>3. QED
      BY <1>4, <2>2, CountChangeType DEF UpdateAggWcmp, FabricTypeOK
  <1>5. CASE UNCHANGED fabricVars
    BY <1>5 DEF fabricVars, FabricTypeOK
  <1>6. QED
    BY <1>1, <1>2, <1>3, <1>4, <1>5 DEF FabricNext, LinkCommand, WeightCommand

(* The state keeps its type, whatever the commands and their weights.      *)
THEOREM FabricTypeCorrect == FabricSpec => []FabricTypeOK
  <1>1. QED
    BY InitFabricTypeOK, NextFabricTypeOK, PTL DEF FabricSpec

---------------------------------------------------------------------------
(* Without SET_WCMP, weights mirror links.                                 *)

(* One mitigated command for link l: the state of l becomes u and the      *)
(* weights that stand for it become w; every other weight stays beside the *)
(* cable that it stands for.                                               *)
EntriesFollow(u, w) ==
    /\ \A s, t \in Edge, a \in Idx : s # t =>
         \/ edgeWeight'[s][a][t] = w /\ linkUp'[EdgeCable(t[1], t[2], a)] = u
         \/ /\ edgeWeight'[s][a][t] = edgeWeight[s][a][t]
            /\ linkUp'[EdgeCable(t[1], t[2], a)] = linkUp[EdgeCable(t[1], t[2], a)]
    /\ \A s \in Agg, r \in Idx, t \in Edge : s[1] # t[1] =>
         \/ aggWeight'[s][r][t] = w /\ linkUp'[CoreCable(t[1], s[2], r)] = u
         \/ /\ aggWeight'[s][r][t] = aggWeight[s][r][t]
            /\ linkUp'[CoreCable(t[1], s[2], r)] = linkUp[CoreCable(t[1], s[2], r)]

LEMMA MitigatedEntries ==
    ASSUME FabricTypeOK,
           NEW l \in Link, NEW u \in BOOLEAN, NEW w \in Weights,
           linkUp' = [linkUp EXCEPT ![l] = u],
           Mitigate(l, w)
    PROVE  EntriesFollow(u, w)
  <1>1. ASSUME NEW s \in Edge, NEW t \in Edge, NEW a \in Idx, s # t
        PROVE  \/ edgeWeight'[s][a][t] = w /\ linkUp'[EdgeCable(t[1], t[2], a)] = u
               \/ /\ edgeWeight'[s][a][t] = edgeWeight[s][a][t]
                  /\ linkUp'[EdgeCable(t[1], t[2], a)] = linkUp[EdgeCable(t[1], t[2], a)]
    <2> DEFINE k == EdgeCable(t[1], t[2], a)
    <2>1. /\ k \in EdgeLink /\ k \in Link /\ k \notin CoreLink
          /\ k.pod = t[1] /\ k.edge = t[2] /\ k.agg = a
          /\ t = <<t[1], t[2]>> /\ t[1] \in Pods /\ t[2] \in Idx
      BY EdgeCableIsLink, EdgeParts
    <2>2. linkUp'[k] = IF k = l THEN u ELSE linkUp[k]
      BY <2>1 DEF FabricTypeOK
    <2>3. CASE l \in EdgeLink
      <3>1. edgeWeight' = MitigatedEdgeWeight(l, w)
        BY <2>3, EdgeLinkFields DEF Mitigate
      <3>2. s \in EdgesMitigating(l.pod, l.edge) <=> s # <<l.pod, l.edge>>
        BY <2>3, EdgeLinkFields, AllOtherEdgesMitigate
      <3>3. edgeWeight'[s][a][t] =
              IF s \in EdgesMitigating(l.pod, l.edge) /\ a = l.agg /\ t = <<l.pod, l.edge>>
              THEN w ELSE edgeWeight[s][a][t]
        BY <3>1 DEF MitigatedEdgeWeight
      <3>4. k = l <=> a = l.agg /\ t = <<l.pod, l.edge>>
        <4>1. l = EdgeCable(l.pod, l.edge, l.agg)
          BY <2>3, EdgeLinkFields
        <4>2. t = <<l.pod, l.edge>> <=> t[1] = l.pod /\ t[2] = l.edge
          BY <2>1
        <4>3. k = l => a = l.agg /\ t[1] = l.pod /\ t[2] = l.edge
          BY <2>1
        <4>4. a = l.agg /\ t[1] = l.pod /\ t[2] = l.edge => k = l
          BY <4>1
        <4>5. QED
          BY <4>2, <4>3, <4>4
      <3>5. QED
        BY <1>1, <2>2, <3>2, <3>3, <3>4
    <2>4. CASE l \in CoreLink
      <3>1. k # l /\ edgeWeight' = edgeWeight
        BY <2>1, <2>4, CoreLinkFields DEF Mitigate
      <3>2. QED
        BY <2>2, <3>1
    <2>5. QED
      BY <2>3, <2>4 DEF Link
  <1>2. ASSUME NEW s \in Agg, NEW r \in Idx, NEW t \in Edge, s[1] # t[1]
        PROVE  \/ aggWeight'[s][r][t] = w /\ linkUp'[CoreCable(t[1], s[2], r)] = u
               \/ /\ aggWeight'[s][r][t] = aggWeight[s][r][t]
                  /\ linkUp'[CoreCable(t[1], s[2], r)] = linkUp[CoreCable(t[1], s[2], r)]
    <2> DEFINE k == CoreCable(t[1], s[2], r)
    <2>1. /\ k \in CoreLink /\ k \in Link /\ k \notin EdgeLink
          /\ k.pod = t[1] /\ k.agg = s[2] /\ k.row = r
      BY CoreCableIsLink, EdgeParts, AggParts
    <2>2. linkUp'[k] = IF k = l THEN u ELSE linkUp[k]
      BY <2>1 DEF FabricTypeOK
    <2>3. CASE l \in CoreLink
      <3>1. aggWeight' = MitigatedAggWeight(l, w)
        BY <2>3, CoreLinkFields DEF Mitigate
      <3>2. aggWeight'[s][r][t] =
              IF s[1] # l.pod /\ s[2] = l.agg /\ r = l.row /\ t[1] = l.pod
              THEN w ELSE aggWeight[s][r][t]
        BY <3>1 DEF MitigatedAggWeight
      <3>3. k = l <=> s[2] = l.agg /\ r = l.row /\ t[1] = l.pod
        BY <2>1, <2>3, CoreLinkFields
      <3>4. QED
        BY <1>2, <2>2, <3>2, <3>3
    <2>4. CASE l \in EdgeLink
      <3>1. k # l /\ aggWeight' = aggWeight
        BY <2>1, <2>4, EdgeLinkFields DEF Mitigate
      <3>2. QED
        BY <2>2, <3>1
    <2>5. QED
      BY <2>3, <2>4 DEF Link
  <1>3. QED
    BY <1>1, <1>2 DEF EntriesFollow

LEMMA MitigatedCommandMirrors ==
    ASSUME FabricTypeOK, WeightsMirrorLinks,
           NEW l \in Link, NEW u \in BOOLEAN, NEW w \in Weights,
           w = 0 <=> ~u,
           linkUp' = [linkUp EXCEPT ![l] = u],
           Mitigate(l, w)
    PROVE  WeightsMirrorLinks'
  <1>e. EntriesFollow(u, w)
    BY MitigatedEntries
  <1>1. ASSUME NEW s \in Edge, NEW t \in Edge, NEW a \in Idx, s # t
        PROVE  edgeWeight'[s][a][t] = 0 <=> ~linkUp'[EdgeCable(t[1], t[2], a)]
    <2>1. \/ edgeWeight'[s][a][t] = w /\ linkUp'[EdgeCable(t[1], t[2], a)] = u
          \/ /\ edgeWeight'[s][a][t] = edgeWeight[s][a][t]
             /\ linkUp'[EdgeCable(t[1], t[2], a)] = linkUp[EdgeCable(t[1], t[2], a)]
      BY <1>e, <1>1 DEF EntriesFollow
    <2>2. QED
      BY <1>1, <2>1 DEF WeightsMirrorLinks
  <1>2. ASSUME NEW s \in Agg, NEW r \in Idx, NEW t \in Edge, s[1] # t[1]
        PROVE  aggWeight'[s][r][t] = 0 <=> ~linkUp'[CoreCable(t[1], s[2], r)]
    <2>1. \/ aggWeight'[s][r][t] = w /\ linkUp'[CoreCable(t[1], s[2], r)] = u
          \/ /\ aggWeight'[s][r][t] = aggWeight[s][r][t]
             /\ linkUp'[CoreCable(t[1], s[2], r)] = linkUp[CoreCable(t[1], s[2], r)]
      BY <1>e, <1>2 DEF EntriesFollow
    <2>2. QED
      BY <1>2, <2>1 DEF WeightsMirrorLinks
  <1>3. QED
    BY <1>1, <1>2 DEF WeightsMirrorLinks

LEMMA InitMirrors == FabricInit => WeightsMirrorLinks
  <1> SUFFICES ASSUME FabricInit PROVE WeightsMirrorLinks
    OBVIOUS
  <1>1. ASSUME NEW s \in Edge, NEW t \in Edge, NEW a \in Idx
        PROVE  edgeWeight[s][a][t] = 100 /\ linkUp[EdgeCable(t[1], t[2], a)]
    BY EdgeCableIsLink, EdgeParts DEF FabricInit, DefaultWeight
  <1>2. ASSUME NEW s \in Agg, NEW r \in Idx, NEW t \in Edge
        PROVE  aggWeight[s][r][t] = 100 /\ linkUp[CoreCable(t[1], s[2], r)]
    BY CoreCableIsLink, EdgeParts, AggParts DEF FabricInit, DefaultWeight
  <1>3. QED
    BY <1>1, <1>2 DEF WeightsMirrorLinks

LEMMA NextMirrors ==
    ASSUME ManualWeights = {},
           FabricTypeOK, WeightsMirrorLinks, [FabricNext]_fabricVars
    PROVE  WeightsMirrorLinks'
  <1>1. ASSUME NEW l \in Link, DisableLink(l)
        PROVE  WeightsMirrorLinks'
    <2>1. /\ linkUp' = [linkUp EXCEPT ![l] = FALSE]
          /\ Mitigate(l, DownWeight)
      BY <1>1 DEF DisableLink
    <2>2. DownWeight \in Weights /\ DownWeight = 0
      BY DEF DownWeight, Weights
    <2>3. QED
      BY <2>1, <2>2, MitigatedCommandMirrors
  <1>2. ASSUME NEW l \in Link, EnableLink(l)
        PROVE  WeightsMirrorLinks'
    <2>1. /\ linkUp' = [linkUp EXCEPT ![l] = TRUE]
          /\ Mitigate(l, RestoredWeight)
      BY <1>2 DEF EnableLink
    <2>2. RestoredWeight \in Weights /\ RestoredWeight # 0
      BY DEF RestoredWeight, Weights
    <2>3. QED
      BY <2>1, <2>2, MitigatedCommandMirrors
  <1>3. CASE UNCHANGED fabricVars
    BY <1>3 DEF fabricVars, WeightsMirrorLinks
  <1>4. QED
    BY <1>1, <1>2, <1>3 DEF FabricNext, LinkCommand, WeightCommand

(* Without SET_WCMP the zero weights of the fabric are at all times those  *)
(* of the cables that are down.                                            *)
THEOREM WeightsMirrorLinksCorrect ==
    ASSUME ManualWeights = {}
    PROVE  FabricSpec => []WeightsMirrorLinks
  <1>1. FabricInit => FabricTypeOK /\ WeightsMirrorLinks
    BY InitFabricTypeOK, InitMirrors
  <1>2. FabricTypeOK /\ WeightsMirrorLinks /\ [FabricNext]_fabricVars
          => (FabricTypeOK /\ WeightsMirrorLinks)'
    BY NextFabricTypeOK, NextMirrors
  <1>3. QED
    BY <1>1, <1>2, PTL DEF FabricSpec

---------------------------------------------------------------------------
(* SET_WCMP may give weight to a cable that is down.  As long as it never  *)
(* writes zero, weights are zero for such cables only.                     *)

ZeroOnlyWhenDown ==
    /\ \A s, t \in Edge, a \in Idx :
        s # t /\ edgeWeight[s][a][t] = 0 => ~linkUp[EdgeCable(t[1], t[2], a)]
    /\ \A s \in Agg, r \in Idx, t \in Edge :
        s[1] # t[1] /\ aggWeight[s][r][t] = 0 => ~linkUp[CoreCable(t[1], s[2], r)]

LEMMA InitZero == FabricInit => ZeroOnlyWhenDown
  BY InitMirrors DEF WeightsMirrorLinks, ZeroOnlyWhenDown

LEMMA MitigatedCommandZero ==
    ASSUME FabricTypeOK, ZeroOnlyWhenDown,
           NEW l \in Link, NEW u \in BOOLEAN, NEW w \in Weights,
           w = 0 => ~u,
           linkUp' = [linkUp EXCEPT ![l] = u],
           Mitigate(l, w)
    PROVE  ZeroOnlyWhenDown'
  <1>e. EntriesFollow(u, w)
    BY MitigatedEntries
  <1>1. ASSUME NEW s \in Edge, NEW t \in Edge, NEW a \in Idx, s # t
        PROVE  edgeWeight'[s][a][t] = 0 => ~linkUp'[EdgeCable(t[1], t[2], a)]
    <2>1. \/ edgeWeight'[s][a][t] = w /\ linkUp'[EdgeCable(t[1], t[2], a)] = u
          \/ /\ edgeWeight'[s][a][t] = edgeWeight[s][a][t]
             /\ linkUp'[EdgeCable(t[1], t[2], a)] = linkUp[EdgeCable(t[1], t[2], a)]
      BY <1>e, <1>1 DEF EntriesFollow
    <2>2. QED
      BY <1>1, <2>1 DEF ZeroOnlyWhenDown
  <1>2. ASSUME NEW s \in Agg, NEW r \in Idx, NEW t \in Edge, s[1] # t[1]
        PROVE  aggWeight'[s][r][t] = 0 => ~linkUp'[CoreCable(t[1], s[2], r)]
    <2>1. \/ aggWeight'[s][r][t] = w /\ linkUp'[CoreCable(t[1], s[2], r)] = u
          \/ /\ aggWeight'[s][r][t] = aggWeight[s][r][t]
             /\ linkUp'[CoreCable(t[1], s[2], r)] = linkUp[CoreCable(t[1], s[2], r)]
      BY <1>e, <1>2 DEF EntriesFollow
    <2>2. QED
      BY <1>2, <2>1 DEF ZeroOnlyWhenDown
  <1>3. QED
    BY <1>1, <1>2 DEF ZeroOnlyWhenDown

LEMMA NextZero ==
    ASSUME 0 \notin ManualWeights,
           FabricTypeOK, ZeroOnlyWhenDown, [FabricNext]_fabricVars
    PROVE  ZeroOnlyWhenDown'
  <1>1. ASSUME NEW l \in Link, DisableLink(l) \/ EnableLink(l)
        PROVE  ZeroOnlyWhenDown'
    <2>1. DownWeight \in Weights /\ RestoredWeight \in Weights /\ RestoredWeight # 0
      BY DEF DownWeight, RestoredWeight, Weights
    <2>2. QED
      BY <1>1, <2>1, MitigatedCommandZero DEF DisableLink, EnableLink
  <1>2. ASSUME NEW i \in Idx, NEW t \in Edge, NEW w \in ManualWeights, NEW s \in Edge,
               UpdateEdgeWcmp(s, i, t, w)
        PROVE  ZeroOnlyWhenDown'
    <2>1. \A q, d \in Edge, a \in Idx :
            edgeWeight'[q][a][d] = 0 => edgeWeight[q][a][d] = 0
      BY <1>2 DEF UpdateEdgeWcmp, FabricTypeOK
    <2>2. UNCHANGED <<linkUp, aggWeight>>
      BY <1>2 DEF UpdateEdgeWcmp
    <2>3. QED
      BY <2>1, <2>2 DEF ZeroOnlyWhenDown, EdgeCable
  <1>3. ASSUME NEW i \in Idx, NEW t \in Edge, NEW w \in ManualWeights, NEW s \in Agg,
               UpdateAggWcmp(s, i, t, w)
        PROVE  ZeroOnlyWhenDown'
    <2>1. \A q \in Agg, d \in Edge, r \in Idx :
            aggWeight'[q][r][d] = 0 => aggWeight[q][r][d] = 0
      BY <1>3 DEF UpdateAggWcmp, FabricTypeOK
    <2>2. UNCHANGED <<linkUp, edgeWeight>>
      BY <1>3 DEF UpdateAggWcmp
    <2>3. QED
      BY <2>1, <2>2 DEF ZeroOnlyWhenDown, CoreCable
  <1>4. CASE UNCHANGED fabricVars
    BY <1>4 DEF fabricVars, ZeroOnlyWhenDown
  <1>5. QED
    BY <1>1, <1>2, <1>3, <1>4 DEF FabricNext, LinkCommand, WeightCommand

---------------------------------------------------------------------------
(* Cables that are up have their routes.                                   *)

LEMMA InitRoutes == FabricInit => UpLinksHaveRoutes
  BY DEF FabricInit, UpLinksHaveRoutes, Agg, Core

LEMMA DisableKeepsRoutes ==
    ASSUME FabricTypeOK, UpLinksHaveRoutes, NEW l \in Link,
           linkUp' = [linkUp EXCEPT ![l] = FALSE], DropStaticRoutes(l)
    PROVE  UpLinksHaveRoutes'
  <1>1. ASSUME NEW p \in Pods, NEW e \in Idx, NEW a \in Idx,
               linkUp'[EdgeCable(p, e, a)]
        PROVE  e \in aggStatic'[<<p, a>>]
    <2>1. <<p, a>> \in Agg
      BY DEF Agg
    <2>2. EdgeCable(p, e, a) # l /\ linkUp[EdgeCable(p, e, a)]
      BY <1>1, EdgeCableIsLink DEF FabricTypeOK
    <2>3. e \in aggStatic[<<p, a>>]
      BY <2>2 DEF UpLinksHaveRoutes
    <2>4. CASE l \in EdgeLink
      <3>1. aggStatic' = [aggStatic EXCEPT ![<<l.pod, l.agg>>] = @ \ {l.edge}]
        BY <2>4, EdgeLinkFields DEF DropStaticRoutes
      <3>2. ~(p = l.pod /\ a = l.agg /\ e = l.edge)
        BY <2>2, <2>4, EdgeLinkFields
      <3>3. QED
        BY <2>1, <2>3, <3>1, <3>2 DEF FabricTypeOK
    <2>5. CASE l \in CoreLink
      BY <2>3, <2>5, CoreLinkFields DEF DropStaticRoutes
    <2>6. QED
      BY <2>4, <2>5 DEF Link
  <1>2. ASSUME NEW p \in Pods, NEW a \in Idx, NEW r \in Idx,
               linkUp'[CoreCable(p, a, r)]
        PROVE  p \in coreStatic'[<<a, r>>]
    <2>1. <<a, r>> \in Core
      BY DEF Core
    <2>2. CoreCable(p, a, r) # l /\ linkUp[CoreCable(p, a, r)]
      BY <1>2, CoreCableIsLink DEF FabricTypeOK
    <2>3. p \in coreStatic[<<a, r>>]
      BY <2>2 DEF UpLinksHaveRoutes
    <2>4. CASE l \in CoreLink
      <3>1. coreStatic' = [coreStatic EXCEPT ![<<l.agg, l.row>>] = @ \ {l.pod}]
        BY <2>4, CoreLinkFields DEF DropStaticRoutes
      <3>2. ~(p = l.pod /\ a = l.agg /\ r = l.row)
        BY <2>2, <2>4, CoreLinkFields
      <3>3. QED
        BY <2>1, <2>3, <3>1, <3>2 DEF FabricTypeOK
    <2>5. CASE l \in EdgeLink
      BY <2>3, <2>5, EdgeLinkFields DEF DropStaticRoutes
    <2>6. QED
      BY <2>4, <2>5 DEF Link
  <1>3. QED
    BY <1>1, <1>2 DEF UpLinksHaveRoutes

LEMMA EnableKeepsRoutes ==
    ASSUME FabricTypeOK, UpLinksHaveRoutes, NEW l \in Link,
           linkUp' = [linkUp EXCEPT ![l] = TRUE], RestoreStaticRoutes(l)
    PROVE  UpLinksHaveRoutes'
  <1>1. ASSUME NEW p \in Pods, NEW e \in Idx, NEW a \in Idx,
               linkUp'[EdgeCable(p, e, a)]
        PROVE  e \in aggStatic'[<<p, a>>]
    <2>1. <<p, a>> \in Agg
      BY DEF Agg
    <2>2. EdgeCable(p, e, a) = l \/ e \in aggStatic[<<p, a>>]
      BY <1>1, EdgeCableIsLink DEF FabricTypeOK, UpLinksHaveRoutes
    <2>3. CASE l \in EdgeLink
      <3>1. aggStatic' = [aggStatic EXCEPT ![<<l.pod, l.agg>>] = Idx]
        BY <2>3, EdgeLinkFields DEF RestoreStaticRoutes
      <3>2. EdgeCable(p, e, a) = l => l.pod = p /\ l.agg = a
        BY EdgeCableIsLink
      <3>3. QED
        BY <2>1, <2>2, <3>1, <3>2 DEF FabricTypeOK
    <2>4. CASE l \in CoreLink
      BY <2>2, <2>4, EdgeCableIsLink, CoreLinkFields DEF RestoreStaticRoutes
    <2>5. QED
      BY <2>3, <2>4 DEF Link
  <1>2. ASSUME NEW p \in Pods, NEW a \in Idx, NEW r \in Idx,
               linkUp'[CoreCable(p, a, r)]
        PROVE  p \in coreStatic'[<<a, r>>]
    <2>1. <<a, r>> \in Core
      BY DEF Core
    <2>2. CoreCable(p, a, r) = l \/ p \in coreStatic[<<a, r>>]
      BY <1>2, CoreCableIsLink DEF FabricTypeOK, UpLinksHaveRoutes
    <2>3. CASE l \in CoreLink
      <3>1. coreStatic' = [coreStatic EXCEPT ![<<l.agg, l.row>>] = Pods]
        BY <2>3, CoreLinkFields DEF RestoreStaticRoutes
      <3>2. CoreCable(p, a, r) = l => l.agg = a /\ l.row = r
        BY CoreCableIsLink
      <3>3. QED
        BY <2>1, <2>2, <3>1, <3>2 DEF FabricTypeOK
    <2>4. CASE l \in EdgeLink
      BY <2>2, <2>4, CoreCableIsLink, EdgeLinkFields DEF RestoreStaticRoutes
    <2>5. QED
      BY <2>3, <2>4 DEF Link
  <1>3. QED
    BY <1>1, <1>2 DEF UpLinksHaveRoutes

LEMMA NextRoutes ==
    ASSUME FabricTypeOK, UpLinksHaveRoutes, [FabricNext]_fabricVars
    PROVE  UpLinksHaveRoutes'
  <1>1. ASSUME NEW l \in Link, DisableLink(l)
        PROVE  UpLinksHaveRoutes'
    BY <1>1, DisableKeepsRoutes DEF DisableLink
  <1>2. ASSUME NEW l \in Link, EnableLink(l)
        PROVE  UpLinksHaveRoutes'
    BY <1>2, EnableKeepsRoutes DEF EnableLink
  <1>3. CASE WeightCommand \/ UNCHANGED fabricVars
    BY <1>3 DEF WeightCommand, UpdateEdgeWcmp, UpdateAggWcmp, fabricVars, UpLinksHaveRoutes
  <1>4. QED
    BY <1>1, <1>2, <1>3 DEF FabricNext, LinkCommand

(* Whatever the commands, a cable that is up has its static route.         *)
THEOREM UpLinksHaveRoutesCorrect == FabricSpec => []UpLinksHaveRoutes
  <1>1. FabricInit => FabricTypeOK /\ UpLinksHaveRoutes
    BY InitFabricTypeOK, InitRoutes
  <1>2. FabricTypeOK /\ UpLinksHaveRoutes /\ [FabricNext]_fabricVars
          => (FabricTypeOK /\ UpLinksHaveRoutes)'
    BY NextFabricTypeOK, NextRoutes
  <1>3. QED
    BY <1>1, <1>2, PTL DEF FabricSpec

===========================================================================
