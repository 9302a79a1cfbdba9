----------------------- MODULE ClosForwarding_proofs ----------------------
(***************************************************************************)
(* What becomes of a packet in a fabric of any size, after any number of   *)
(* commands.  When the script has no SET_WCMP: it climbs to an aggregate   *)
(* and, between pods, to a core, and descends from there, over cables that *)
(* are up; it is never dropped, and with at most one cable down it does    *)
(* not abort the simulation.  And with backup paths, when SET_WCMP sends   *)
(* traffic to an edge cable that is down: it goes around that cable.       *)
(***************************************************************************)
EXTENDS ClosForwarding, ClosFabric_proofs

---------------------------------------------------------------------------
(* Preliminaries.                                                          *)

LEMMA ZeroIsIndex == 0 \in Idx /\ 0 \in Pods /\ <<0, 0>> \in Edge
  <1>1. Half \in Nat /\ Half >= 1
    BY RadixAssumption DEF Half
  <1>2. 0 \in Idx
    BY <1>1 DEF Idx
  <1>3. 0 \in Pods
    BY PodsAssumption DEF Pods
  <1>4. QED
    BY <1>2, <1>3 DEF Edge

LEMMA CablesExist ==
    /\ \A k \in Link : k # NoCable
    /\ NoCable \notin Link
  <1>1. ASSUME NEW k \in Link PROVE k # NoCable
    <2>1. CASE k \in EdgeLink
      <3>1. k.tier = "edge"
        BY <2>1 DEF EdgeLink
      <3>2. QED
        BY <3>1 DEF NoCable
    <2>2. CASE k \in CoreLink
      <3>1. k.tier = "core"
        BY <2>2 DEF CoreLink
      <3>2. QED
        BY <3>1 DEF NoCable
    <2>3. QED
      BY <2>1, <2>2 DEF Link
  <1>2. QED
    BY <1>1

LEMMA WeightsAreNaturals == Weights \subseteq Nat
  BY ManualAssumption DEF Weights, DownWeight, RestoredWeight, DefaultWeight

(* A step of the packet leaves the fabric alone; a command is one of       *)
(* ClosFabric's.                                                           *)
LEMMA StepsOfTheFabric == [Next]_vars => [FabricNext]_fabricVars
  BY DEF Next, vars, Step, Inject, Command

(* A lookup that has entries off the incoming interface aborts because     *)
(* none is usable, or sends over a usable one.                             *)
LEMMA WcmpOutcome ==
    ASSUME NEW entries, NEW cable, NEW node, NEW weight,
           entries # {}, \A i \in entries : cable[i] # via,
           WcmpForward(entries, cable, node, weight)
    PROVE  \/ /\ Finish("aborted")
              /\ \A i \in entries : ~(linkUp[cable[i]] /\ weight[i] > 0)
           \/ \E i \in entries :
                /\ linkUp[cable[i]] /\ weight[i] > 0
                /\ Send(cable[i], node[i])
  BY DEF WcmpForward

LEMMA SendGoes ==
    ASSUME NEW cable, NEW node, linkUp[cable], hops < TimeToLive, hops # TimeToLive,
           Send(cable, node)
    PROVE  at' = node /\ via' = cable /\ hops' = hops + 1 /\ status' = status
  BY DEF Send

---------------------------------------------------------------------------
(* Type correctness.                                                       *)

LEMMA InitTypeOK == Init => TypeOK
  BY InitFabricTypeOK, ZeroIsIndex, TtlAssumption
     DEF Init, TypeOK, Status, Node, EdgeNode

LEMMA SendType ==
    ASSUME TypeOK, NEW cable \in Link, NEW node \in Node, Send(cable, node)
    PROVE  /\ at' \in Node /\ via' \in Link \cup {NoCable}
           /\ hops' \in 0 .. TimeToLive /\ status' \in Status
  BY TtlAssumption DEF TypeOK, Send, Finish, Status

LEMMA FinishType ==
    ASSUME TypeOK, NEW outcome \in Status, Finish(outcome)
    PROVE  /\ at' \in Node /\ via' \in Link \cup {NoCable}
           /\ hops' \in 0 .. TimeToLive /\ status' \in Status
  BY DEF TypeOK, Finish

LEMMA WcmpType ==
    ASSUME TypeOK,
           NEW entries \in SUBSET Idx, NEW weight,
           NEW cable \in [Idx -> Link], NEW node \in [Idx -> Node],
           WcmpForward(entries, cable, node, weight)
    PROVE  /\ at' \in Node /\ via' \in Link \cup {NoCable}
           /\ hops' \in 0 .. TimeToLive /\ status' \in Status
  <1>1. CASE Finish("dropped") \/ Finish("aborted")
    BY <1>1, FinishType DEF Status
  <1>2. CASE \E i \in entries : Send(cable[i], node[i])
    <2>1. PICK i \in entries : Send(cable[i], node[i])
      BY <1>2
    <2>2. cable[i] \in Link /\ node[i] \in Node
      OBVIOUS
    <2>3. QED
      BY <2>1, <2>2, SendType
  <1>3. QED
    BY <1>1, <1>2 DEF WcmpForward

LEMMA StepType ==
    ASSUME TypeOK, Step
    PROVE  /\ at' \in Node /\ via' \in Link \cup {NoCable}
           /\ hops' \in 0 .. TimeToLive /\ status' \in Status
  <1>1. CASE Finish("dropped") \/ Finish("delivered")
    BY <1>1, FinishType DEF Status
  <1>2. ASSUME NEW s \in Edge, AtEdge(s[1], s[2]), ~Finish("delivered")
        PROVE  /\ at' \in Node /\ via' \in Link \cup {NoCable}
               /\ hops' \in 0 .. TimeToLive /\ status' \in Status
    <2> DEFINE cable == [a \in Idx |-> EdgeCable(s[1], s[2], a)]
               node == [a \in Idx |-> <<"agg", s[1], a>>]
               weight == [a \in Idx |-> edgeWeight[<<s[1], s[2]>>][a][dst]]
    <2>1. WcmpForward(Idx, cable, node, weight)
      BY <1>2 DEF AtEdge
    <2>2. cable \in [Idx -> Link]
      BY EdgeParts, EdgeCableIsLink
    <2>3. node \in [Idx -> Node]
      BY EdgeParts DEF Node
    <2> HIDE DEF cable, node, weight
    <2>4. QED
      BY <2>1, <2>2, <2>3, WcmpType
  <1>3. ASSUME NEW s \in Agg, AtAgg(s[1], s[2])
        PROVE  /\ at' \in Node /\ via' \in Link \cup {NoCable}
               /\ hops' \in 0 .. TimeToLive /\ status' \in Status
    <2>1. /\ s[1] \in Pods /\ s[2] \in Idx
          /\ dst[1] \in Pods /\ dst[2] \in Idx
      BY AggParts, EdgeParts DEF TypeOK
    <2>2. CASE Send(EdgeCable(s[1], dst[2], s[2]), EdgeNode(dst))
      <3>1. EdgeNode(dst) \in Node /\ EdgeCable(s[1], dst[2], s[2]) \in Link
        BY <2>1, EdgeCableIsLink DEF EdgeNode, Node
      <3>2. QED
        BY <2>2, <3>1, SendType
    <2>3. CASE WcmpForward(BackupEntries(s[1]),
                 [e \in Idx |-> EdgeCable(s[1], e, s[2])],
                 [e \in Idx |-> <<"edge", s[1], e>>],
                 [e \in Idx |-> DefaultWeight])
      <3>1. [e \in Idx |-> EdgeCable(s[1], e, s[2])] \in [Idx -> Link]
        BY <2>1, EdgeCableIsLink
      <3>2. [e \in Idx |-> <<"edge", s[1], e>>] \in [Idx -> Node]
        BY <2>1 DEF Node
      <3>3. BackupEntries(s[1]) \in SUBSET Idx
        BY DEF BackupEntries
      <3>4. QED
        BY <2>3, <3>1, <3>2, <3>3, WcmpType
    <2>4. CASE WcmpForward(Idx,
                 [r \in Idx |-> CoreCable(s[1], s[2], r)],
                 [r \in Idx |-> <<"core", s[2], r>>],
                 [r \in Idx |-> aggWeight[<<s[1], s[2]>>][r][dst]])
      <3>1. [r \in Idx |-> CoreCable(s[1], s[2], r)] \in [Idx -> Link]
        BY <2>1, CoreCableIsLink
      <3>2. [r \in Idx |-> <<"core", s[2], r>>] \in [Idx -> Node]
        BY <2>1 DEF Node
      <3>3. QED
        BY <2>4, <3>1, <3>2, WcmpType
    <2>5. QED
      BY <1>3, <2>2, <2>3, <2>4 DEF AtAgg
  <1>4. ASSUME NEW c \in Core, AtCore(c[1], c[2]), ~Finish("dropped")
        PROVE  /\ at' \in Node /\ via' \in Link \cup {NoCable}
               /\ hops' \in 0 .. TimeToLive /\ status' \in Status
    <2>1. /\ c[1] \in Idx /\ c[2] \in Idx /\ dst[1] \in Pods
      BY EdgeParts DEF TypeOK, Core
    <2>2. /\ CoreCable(dst[1], c[1], c[2]) \in Link
          /\ <<"agg", dst[1], c[1]>> \in Node
      BY <2>1, CoreCableIsLink DEF Node
    <2>3. Send(CoreCable(dst[1], c[1], c[2]), <<"agg", dst[1], c[1]>>)
      BY <1>4 DEF AtCore
    <2>4. QED
      BY <2>2, <2>3, SendType
  <1>5. QED
    BY <1>1, <1>2, <1>3, <1>4 DEF Step

LEMMA NextTypeOK == TypeOK /\ [Next]_vars => TypeOK'
  <1> SUFFICES ASSUME TypeOK, [Next]_vars PROVE TypeOK'
    OBVIOUS
  <1>f. FabricTypeOK'
    BY StepsOfTheFabric, NextFabricTypeOK DEF TypeOK
  <1>1. CASE Step
    BY <1>f, <1>1, StepType DEF TypeOK, Step
  <1>2. ASSUME NEW s \in Edge, NEW t \in Edge, Inject(s, t) PROVE TypeOK'
    <2>1. EdgeNode(s) \in Node
      BY EdgeParts DEF EdgeNode, Node
    <2>2. QED
      BY <1>f, <1>2, <2>1, TtlAssumption DEF TypeOK, Inject, Status
  <1>3. CASE Command
    BY <1>f, <1>3 DEF TypeOK, Command, packetVars
  <1>4. CASE UNCHANGED vars
    BY <1>f, <1>4 DEF TypeOK, vars, packetVars
  <1>5. QED
    BY <1>1, <1>2, <1>3, <1>4 DEF Next

(* The state keeps its type in every configuration of the fabric.          *)
THEOREM TypeCorrect == Spec => []TypeOK
  <1>1. QED
    BY InitTypeOK, NextTypeOK, PTL DEF Spec

---------------------------------------------------------------------------
(* The path of a packet when the script has no SET_WCMP.                   *)

(* The invariants of the fabric, and the packet's place on its path: at    *)
(* its source as long as commands run.                                     *)
FabricInv == WeightsMirrorLinks /\ UpLinksHaveRoutes
PathInv == PacketOnPath /\ NoSilentLoss /\ (status = "idle" => AtSource)
IInv == TypeOK /\ FabricInv /\ PathInv

(* When a switch asks WCMP, an uplink is usable exactly when it is up and  *)
(* the mirrored cable at the destination's side is up, too.                *)
LEMMA EdgeUplinkUsable ==
    ASSUME FabricTypeOK, WeightsMirrorLinks,
           NEW s \in Edge, NEW t \in Edge, s # t, NEW a \in Idx
    PROVE  edgeWeight[s][a][t] > 0 <=> linkUp[EdgeCable(t[1], t[2], a)]
  <1>1. edgeWeight[s][a][t] \in Nat
    <2>1. edgeWeight[s][a] \in [Edge -> Weights]
      BY DEF FabricTypeOK
    <2>2. QED
      BY <2>1, WeightsAreNaturals
  <1>2. linkUp[EdgeCable(t[1], t[2], a)] \in BOOLEAN
    BY EdgeParts, EdgeCableIsLink DEF FabricTypeOK
  <1>3. edgeWeight[s][a][t] = 0 <=> ~linkUp[EdgeCable(t[1], t[2], a)]
    BY DEF WeightsMirrorLinks
  <1>4. QED
    BY <1>1, <1>2, <1>3

LEMMA AggUplinkUsable ==
    ASSUME FabricTypeOK, WeightsMirrorLinks,
           NEW s \in Agg, NEW t \in Edge, s[1] # t[1], NEW r \in Idx
    PROVE  aggWeight[s][r][t] > 0 <=> linkUp[CoreCable(t[1], s[2], r)]
  <1>1. aggWeight[s][r][t] \in Nat
    <2>1. aggWeight[s][r] \in [Edge -> Weights]
      BY DEF FabricTypeOK
    <2>2. QED
      BY <2>1, WeightsAreNaturals
  <1>2. linkUp[CoreCable(t[1], s[2], r)] \in BOOLEAN
    BY AggParts, EdgeParts, CoreCableIsLink DEF FabricTypeOK
  <1>3. aggWeight[s][r][t] = 0 <=> ~linkUp[CoreCable(t[1], s[2], r)]
    BY DEF WeightsMirrorLinks
  <1>4. QED
    BY <1>1, <1>2, <1>3

(* A step of the packet leaves what the path predicates depend on alone.            *)
LEMMA StepFrame ==
    ASSUME Step
    PROVE  /\ linkUp' = linkUp /\ edgeWeight' = edgeWeight /\ aggWeight' = aggWeight
           /\ aggStatic' = aggStatic /\ coreStatic' = coreStatic
           /\ src' = src /\ dst' = dst
  BY DEF Step, fabricVars

(* A packet that has been sent does not return to its idle state.          *)
LEMMA StepStarts == Step => status = "moving" /\ status' # "idle"
  BY DEF Step, AtEdge, AtAgg, AtCore, WcmpForward, Send, Finish

(* A packet that ends where it is keeps its place.                         *)
LEMMA FinishKeepsPlace ==
    ASSUME PacketOnPath, Step, NEW outcome, Finish(outcome)
    PROVE  PacketOnPath'
  <1>1. at' = at /\ via' = via /\ hops' = hops
    BY DEF Finish
  <1>2. AtSource' = AtSource
    BY <1>1, StepFrame DEF AtSource, EdgeNode
  <1>3. ASSUME NEW a \in Idx
        PROVE  Rising(a)' = Rising(a) /\ AtDestination(a)' = AtDestination(a)
    BY <1>1, StepFrame DEF Rising, AtDestination, EdgeNode, EdgeCable
  <1>4. ASSUME NEW a \in Idx, NEW r \in Idx
        PROVE  Crossing(a, r)' = Crossing(a, r) /\ Falling(a, r)' = Falling(a, r)
    BY <1>1, StepFrame DEF Crossing, Falling, EdgeCable, CoreCable
  <1>5. QED
    BY <1>2, <1>3, <1>4, StepFrame DEF PacketOnPath

(* The switch that a packet has reached is the one that acts.              *)
LEMMA EdgeActs ==
    ASSUME NEW p, NEW e, at = <<"edge", p, e>>, Step
    PROVE  AtEdge(p, e)
  <1>1. ~(\E s \in Agg : AtAgg(s[1], s[2])) /\ ~(\E c \in Core : AtCore(c[1], c[2]))
    BY DEF AtAgg, AtCore
  <1>2. PICK s \in Edge : AtEdge(s[1], s[2])
    BY <1>1 DEF Step
  <1>3. s[1] = p /\ s[2] = e
    BY <1>2 DEF AtEdge
  <1>4. QED
    BY <1>2, <1>3

LEMMA AggActs ==
    ASSUME NEW p, NEW a, at = <<"agg", p, a>>, Step
    PROVE  AtAgg(p, a)
  <1>1. ~(\E s \in Edge : AtEdge(s[1], s[2])) /\ ~(\E c \in Core : AtCore(c[1], c[2]))
    BY DEF AtEdge, AtCore
  <1>2. PICK s \in Agg : AtAgg(s[1], s[2])
    BY <1>1 DEF Step
  <1>3. s[1] = p /\ s[2] = a
    BY <1>2 DEF AtAgg
  <1>4. QED
    BY <1>2, <1>3

LEMMA CoreActs ==
    ASSUME NEW a, NEW r, at = <<"core", a, r>>, Step
    PROVE  AtCore(a, r)
  <1>1. ~(\E s \in Edge : AtEdge(s[1], s[2])) /\ ~(\E s \in Agg : AtAgg(s[1], s[2]))
    BY DEF AtEdge, AtAgg
  <1>2. PICK c \in Core : AtCore(c[1], c[2])
    BY <1>1 DEF Step
  <1>3. c[1] = a /\ c[2] = r
    BY <1>2 DEF AtCore
  <1>4. QED
    BY <1>2, <1>3

(* At its source the packet is delivered, starts to rise, or aborts when   *)
(* no aggregate index joins the two ToRs.                                  *)
LEMMA StepAtSource ==
    ASSUME IInv, TimeToLive >= 4, status = "moving", AtSource, Step
    PROVE  \/ Finish("delivered")
           \/ /\ Finish("aborted") /\ src # dst
              /\ \A a \in Idx : \/ ~linkUp[EdgeCable(src[1], src[2], a)]
                               \/ ~linkUp[EdgeCable(dst[1], dst[2], a)]
           \/ status' = "moving" /\ \E a \in Idx : Rising(a)'
  <1> DEFINE cable == [a \in Idx |-> EdgeCable(src[1], src[2], a)]
             node == [a \in Idx |-> <<"agg", src[1], a>>]
             weight == [a \in Idx |-> edgeWeight[<<src[1], src[2]>>][a][dst]]
  <1>t. FabricTypeOK /\ WeightsMirrorLinks /\ src \in Edge /\ dst \in Edge
        /\ hops \in Nat /\ TimeToLive \in Nat
    BY TtlAssumption DEF IInv, FabricInv, TypeOK
  <1>s. src = <<src[1], src[2]>> /\ src[1] \in Pods /\ src[2] \in Idx
        /\ dst = <<dst[1], dst[2]>> /\ dst[1] \in Pods /\ dst[2] \in Idx
    BY <1>t, EdgeParts
  <1>1. at = <<"edge", src[1], src[2]>> /\ via = NoCable /\ hops = 0
    BY DEF AtSource, EdgeNode
  <1>3. AtEdge(src[1], src[2])
    BY <1>1, EdgeActs
  <1>4. CASE src = dst
    BY <1>3, <1>4, <1>s DEF AtEdge
  <1>5. CASE src # dst
    <2>1. WcmpForward(Idx, cable, node, weight)
      BY <1>3, <1>5, <1>s DEF AtEdge
    <2>2. Idx # {} /\ \A i \in Idx : cable[i] # via
      BY <1>1, <1>s, ZeroIsIndex, EdgeCableIsLink, CablesExist
    <2>3. \A i \in Idx : weight[i] > 0 <=> linkUp[EdgeCable(dst[1], dst[2], i)]
      BY <1>5, <1>t, <1>s, EdgeUplinkUsable
    <2> HIDE DEF weight
    <2>4. CASE /\ Finish("aborted")
               /\ \A i \in Idx : ~(linkUp[cable[i]] /\ weight[i] > 0)
      BY <1>5, <2>3, <2>4
    <2>5. ASSUME NEW i \in Idx, linkUp[cable[i]], weight[i] > 0, Send(cable[i], node[i])
          PROVE  status' = "moving" /\ Rising(i)'
      <3>1. /\ at' = node[i] /\ via' = cable[i] /\ hops' = hops + 1
            /\ status' = status
        BY <1>1, <1>t, <2>5, SendGoes
      <3>2. QED
        BY <1>1, <1>5, <2>3, <2>5, <3>1, StepFrame DEF Rising, EdgeCable
    <2>6. \/ /\ Finish("aborted")
             /\ \A i \in Idx : ~(linkUp[cable[i]] /\ weight[i] > 0)
          \/ \E i \in Idx : /\ linkUp[cable[i]] /\ weight[i] > 0
                            /\ Send(cable[i], node[i])
      <3> HIDE DEF cable, node
      <3>1. QED
        BY <2>1, <2>2, WcmpOutcome
    <2>7. QED
      BY <2>4, <2>5, <2>6
  <1>6. QED
    BY <1>4, <1>5

(* The destination's aggregate holds the /24 of the destination whenever   *)
(* the cable to it is up, and then sends the packet down that cable.       *)
LEMMA LastHop ==
    ASSUME IInv, TimeToLive >= 4, NEW a \in Idx, status = "moving",
           at = <<"agg", dst[1], a>>, linkUp[EdgeCable(dst[1], dst[2], a)],
           hops < 4, Step
    PROVE  /\ status' = "moving" /\ at' = EdgeNode(dst)
           /\ via' = EdgeCable(dst[1], dst[2], a) /\ hops' = hops + 1
  <1>1. dst[1] \in Pods /\ dst[2] \in Idx /\ hops \in Nat /\ TimeToLive \in Nat
    BY EdgeParts, TtlAssumption DEF IInv, TypeOK
  <1>2. dst[2] \in aggStatic[<<dst[1], a>>]
    BY <1>1 DEF IInv, FabricInv, UpLinksHaveRoutes
  <1>3. AtAgg(dst[1], a)
    BY AggActs
  <1>4. Send(EdgeCable(dst[1], dst[2], a), EdgeNode(dst))
    BY <1>2, <1>3 DEF AtAgg
  <1>5. QED
    BY <1>1, <1>4, SendGoes

(* At an aggregate of the source's pod: down to a neighbour of the source, *)
(* or up to a core, or an abort when no core joins the two pods.           *)
LEMMA StepRising ==
    ASSUME IInv, TimeToLive >= 4, status = "moving",
           NEW a \in Idx, Rising(a), Step
    PROVE  \/ /\ Finish("aborted") /\ src[1] # dst[1]
              /\ \A r \in Idx : \/ ~linkUp[CoreCable(src[1], a, r)]
                               \/ ~linkUp[CoreCable(dst[1], a, r)]
           \/ status' = "moving" /\ AtDestination(a)'
           \/ status' = "moving" /\ \E r \in Idx : Crossing(a, r)'
  <1> DEFINE cable == [r \in Idx |-> CoreCable(src[1], a, r)]
             node == [r \in Idx |-> <<"core", a, r>>]
             weight == [r \in Idx |-> aggWeight[<<src[1], a>>][r][dst]]
  <1>t. FabricTypeOK /\ WeightsMirrorLinks /\ src \in Edge /\ dst \in Edge
        /\ hops \in Nat /\ TimeToLive \in Nat
    BY TtlAssumption DEF IInv, FabricInv, TypeOK
  <1>s. /\ src[1] \in Pods /\ src[2] \in Idx
        /\ dst[1] \in Pods /\ dst[2] \in Idx
        /\ <<src[1], a>> \in Agg
    BY <1>t, EdgeParts DEF Agg
  <1>1. /\ at = <<"agg", src[1], a>> /\ via = EdgeCable(src[1], src[2], a) /\ hops = 1
        /\ linkUp[EdgeCable(dst[1], dst[2], a)]
    BY DEF Rising
  <1>3. CASE src[1] = dst[1]
    <2>1. /\ status' = "moving" /\ at' = EdgeNode(dst)
          /\ via' = EdgeCable(dst[1], dst[2], a) /\ hops' = 2
      BY <1>1, <1>3, LastHop
    <2>2. QED
      BY <1>1, <1>3, <2>1, StepFrame DEF AtDestination, EdgeNode, EdgeCable
  <1>4. CASE src[1] # dst[1]
    <2>1. AtAgg(src[1], a)
      BY <1>1, AggActs
    <2>2. WcmpForward(Idx, cable, node, weight)
      BY <1>4, <2>1 DEF AtAgg
    <2>3. Idx # {} /\ \A i \in Idx : cable[i] # via
      <3>1. ASSUME NEW i \in Idx PROVE CoreCable(src[1], a, i) # EdgeCable(src[1], src[2], a)
        <4>1. CoreCable(src[1], a, i).tier = "core"
          BY DEF CoreCable
        <4>2. EdgeCable(src[1], src[2], a).tier = "edge"
          BY DEF EdgeCable
        <4>3. QED
          BY <4>1, <4>2
      <3>2. QED
        BY <1>1, <3>1, ZeroIsIndex
    <2>4. \A i \in Idx : weight[i] > 0 <=> linkUp[CoreCable(dst[1], a, i)]
      BY <1>4, <1>t, <1>s, AggUplinkUsable
    <2> HIDE DEF weight
    <2>5. CASE /\ Finish("aborted")
               /\ \A i \in Idx : ~(linkUp[cable[i]] /\ weight[i] > 0)
      BY <1>4, <2>4, <2>5
    <2>6. ASSUME NEW i \in Idx, linkUp[cable[i]], weight[i] > 0, Send(cable[i], node[i])
          PROVE  status' = "moving" /\ Crossing(a, i)'
      <3>1. /\ at' = node[i] /\ via' = cable[i] /\ hops' = hops + 1
            /\ status' = status
        BY <1>1, <1>t, <2>6, SendGoes
      <3>2. QED
        BY <1>1, <1>4, <2>4, <2>6, <3>1, StepFrame DEF Crossing, EdgeCable, CoreCable
    <2>7. \/ /\ Finish("aborted")
             /\ \A i \in Idx : ~(linkUp[cable[i]] /\ weight[i] > 0)
          \/ \E i \in Idx : /\ linkUp[cable[i]] /\ weight[i] > 0
                            /\ Send(cable[i], node[i])
      <3> HIDE DEF cable, node
      <3>1. QED
        BY <2>2, <2>3, WcmpOutcome
    <2>8. QED
      BY <2>5, <2>6, <2>7
  <1>5. QED
    BY <1>3, <1>4

(* A core sends the packet down to the aggregate of the destination's pod. *)
LEMMA StepCrossing ==
    ASSUME IInv, TimeToLive >= 4, status = "moving",
           NEW a \in Idx, NEW r \in Idx, Crossing(a, r), Step
    PROVE  status' = "moving" /\ Falling(a, r)'
  <1>1. /\ at = <<"core", a, r>> /\ via = CoreCable(src[1], a, r) /\ hops = 2
        /\ linkUp[CoreCable(dst[1], a, r)] /\ src[1] # dst[1]
        /\ linkUp[EdgeCable(dst[1], dst[2], a)]
    BY DEF Crossing
  <1>2. dst[1] \in Pods /\ hops \in Nat /\ TimeToLive \in Nat
    BY EdgeParts, TtlAssumption DEF IInv, TypeOK
  <1>3. dst[1] \in coreStatic[<<a, r>>]
    BY <1>1, <1>2 DEF IInv, FabricInv, UpLinksHaveRoutes
  <1>4. AtCore(a, r)
    BY <1>1, CoreActs
  <1>5. Send(CoreCable(dst[1], a, r), <<"agg", dst[1], a>>)
    BY <1>3, <1>4 DEF AtCore
  <1>6. /\ at' = <<"agg", dst[1], a>> /\ via' = CoreCable(dst[1], a, r)
        /\ hops' = 3 /\ status' = "moving"
    BY <1>1, <1>2, <1>5, SendGoes
  <1>7. QED
    BY <1>1, <1>6, StepFrame DEF Falling, EdgeCable, CoreCable

LEMMA StepFalling ==
    ASSUME IInv, TimeToLive >= 4, status = "moving",
           NEW a \in Idx, NEW r \in Idx, Falling(a, r), Step
    PROVE  status' = "moving" /\ AtDestination(a)'
  <1>1. /\ at = <<"agg", dst[1], a>> /\ hops = 3 /\ src[1] # dst[1]
        /\ linkUp[EdgeCable(dst[1], dst[2], a)]
    BY DEF Falling
  <1>3. /\ status' = "moving" /\ at' = EdgeNode(dst)
        /\ via' = EdgeCable(dst[1], dst[2], a) /\ hops' = 4
    BY <1>1, LastHop
  <1>4. QED
    BY <1>1, <1>3, StepFrame DEF AtDestination, EdgeNode, EdgeCable

(* The destination's edge has the host route.                              *)
LEMMA StepAtDestination ==
    ASSUME IInv, NEW a \in Idx, AtDestination(a), Step
    PROVE  Finish("delivered")
  <1>1. at = <<"edge", dst[1], dst[2]>>
    BY DEF AtDestination, EdgeNode
  <1>2. AtEdge(dst[1], dst[2])
    BY <1>1, EdgeActs
  <1>3. dst = <<dst[1], dst[2]>>
    BY EdgeParts DEF IInv, TypeOK
  <1>4. QED
    BY <1>2, <1>3 DEF AtEdge

---------------------------------------------------------------------------
(* The theorems.                                                           *)

(* Where a step of the packet leaves it, and with what outcome.            *)
LEMMA StepOutcome ==
    ASSUME IInv, TimeToLive >= 4, Step
    PROVE  /\ PacketOnPath' /\ status' # "dropped"
           /\ status' = "aborted" => at' = at
           /\ status' = "aborted" =>
                \/ /\ AtSource /\ src # dst
                   /\ \A a \in Idx : \/ ~linkUp[EdgeCable(src[1], src[2], a)]
                                     \/ ~linkUp[EdgeCable(dst[1], dst[2], a)]
                \/ \E a \in Idx :
                   /\ Rising(a) /\ src[1] # dst[1]
                   /\ \A r \in Idx : \/ ~linkUp[CoreCable(src[1], a, r)]
                                     \/ ~linkUp[CoreCable(dst[1], a, r)]
  <1>m. status = "moving"
    BY DEF Step
  <1>p. PacketOnPath
    BY DEF IInv, PathInv
  <1>1. CASE AtSource
    <2>1. CASE Finish("delivered") \/ Finish("aborted")
      <3>1. status' \in {"delivered", "aborted"} /\ PacketOnPath'
        BY <1>p, <2>1, FinishKeepsPlace DEF Finish
      <3>2. CASE Finish("delivered")
        BY <3>1, <3>2 DEF Finish
      <3>3. CASE Finish("aborted") /\ ~Finish("delivered")
        <4>1. status' # "moving"
          BY <3>1
        <4>2. at' = at
          BY <3>3 DEF Finish
        <4>3. QED
          BY <1>1, <1>m, <3>1, <3>3, <4>1, <4>2, StepAtSource
      <3>4. QED
        BY <2>1, <3>2, <3>3
    <2>2. CASE status' = "moving" /\ \E a \in Idx : Rising(a)'
      BY <2>2 DEF PacketOnPath
    <2>3. QED
      BY <1>1, <1>m, <2>1, <2>2, StepAtSource
  <1>2. ASSUME NEW a \in Idx, Rising(a)
        PROVE  /\ PacketOnPath' /\ status' # "dropped"
               /\ status' = "aborted" => at' = at
               /\ status' = "aborted" =>
                    /\ src[1] # dst[1]
                    /\ \A r \in Idx : \/ ~linkUp[CoreCable(src[1], a, r)]
                                      \/ ~linkUp[CoreCable(dst[1], a, r)]
    <2>1. CASE Finish("aborted")
      <3>1. status' = "aborted" /\ at' = at /\ PacketOnPath'
        BY <1>p, <2>1, FinishKeepsPlace DEF Finish
      <3>2. QED
        BY <1>2, <1>m, <3>1, StepRising
    <2>2. CASE status' = "moving" /\ AtDestination(a)'
      BY <2>2 DEF PacketOnPath
    <2>3. CASE status' = "moving" /\ \E r \in Idx : Crossing(a, r)'
      BY <2>3 DEF PacketOnPath
    <2>4. QED
      BY <1>2, <1>m, <2>1, <2>2, <2>3, StepRising
  <1>3. ASSUME NEW a \in Idx, AtDestination(a)
        PROVE  PacketOnPath' /\ status' = "delivered"
    BY <1>p, <1>3, StepAtDestination, FinishKeepsPlace DEF Finish
  <1>4. ASSUME NEW a \in Idx, NEW r \in Idx, Crossing(a, r)
        PROVE  PacketOnPath' /\ status' = "moving"
    BY <1>m, <1>4, StepCrossing DEF PacketOnPath
  <1>5. ASSUME NEW a \in Idx, NEW r \in Idx, Falling(a, r)
        PROVE  PacketOnPath' /\ status' = "moving"
    BY <1>m, <1>5, StepFalling DEF PacketOnPath
  <1>6. QED
    BY <1>1, <1>2, <1>3, <1>4, <1>5, <1>p DEF PacketOnPath

LEMMA FabricInvPreserved ==
    ASSUME ManualWeights = {}, IInv, [Next]_vars
    PROVE  FabricInv'
  BY StepsOfTheFabric, NextMirrors, NextRoutes DEF IInv, FabricInv, TypeOK

LEMMA NextInv ==
    ASSUME ManualWeights = {}, TimeToLive >= 4,
           IInv, [Next]_vars
    PROVE  IInv'
  <1>1. TypeOK' /\ FabricInv'
    BY NextTypeOK, FabricInvPreserved DEF IInv
  <1>2. PathInv'
    <2>1. CASE Step
      <3>1. status' # "idle"
        BY <2>1, StepStarts
      <3>2. QED
        BY <2>1, <3>1, StepOutcome DEF PathInv, NoSilentLoss
    <2>2. ASSUME NEW s \in Edge, NEW t \in Edge, Inject(s, t) PROVE PathInv'
      <3>1. AtSource'
        BY <2>2 DEF Inject, AtSource, EdgeNode
      <3>2. status' # "dropped"
        BY <2>2 DEF Inject
      <3>3. QED
        BY <2>2, <3>1, <3>2 DEF Inject, PathInv, PacketOnPath, NoSilentLoss
    <2>3. CASE Command
      <3>1. status' = "idle" /\ AtSource'
        BY <2>3 DEF Command, packetVars, IInv, PathInv, AtSource, EdgeNode
      <3>2. QED
        BY <3>1 DEF PathInv, PacketOnPath, NoSilentLoss
    <2>4. CASE UNCHANGED vars
      BY <2>4 DEF vars, fabricVars, packetVars, IInv, PathInv, PacketOnPath,
                  NoSilentLoss, AtSource, Rising, Crossing, Falling, AtDestination,
                  EdgeNode
    <2>5. QED
      BY <2>1, <2>2, <2>3, <2>4 DEF Next
  <1>3. QED
    BY <1>1, <1>2 DEF IInv

LEMMA InitInv == Init => IInv
  <1> SUFFICES ASSUME Init PROVE IInv
    OBVIOUS
  <1>1. TypeOK
    BY InitTypeOK
  <1>2. FabricInv
    BY InitMirrors, InitRoutes DEF Init, FabricInv
  <1>3. PathInv
    BY DEF Init, PathInv, PacketOnPath, NoSilentLoss, AtSource, EdgeNode
  <1>4. QED
    BY <1>1, <1>2, <1>3 DEF IInv

LEMMA IInvAlways ==
    ASSUME ManualWeights = {}, TimeToLive >= 4
    PROVE  Spec => []IInv
  BY InitInv, NextInv, PTL DEF Spec

(* In a fabric of any size, after any sequence of link commands, no packet *)
(* is ever dropped, whether it meets the WCMP weights of an edge or an     *)
(* aggregate or the static routes of an aggregate or a core.               *)
THEOREM NoSilentLossCorrect ==
    ASSUME ManualWeights = {}, TimeToLive >= 4
    PROVE  Spec => []NoSilentLoss
  <1>1. IInv => NoSilentLoss
    BY DEF IInv, PathInv
  <1>2. QED
    BY IInvAlways, <1>1, PTL

(* ... it is always on the up-down path that doEcmp lays out.              *)
THEOREM PacketOnPathCorrect ==
    ASSUME ManualWeights = {}, TimeToLive >= 4
    PROVE  Spec => []PacketOnPath
  <1>1. IInv => PacketOnPath
    BY DEF IInv, PathInv
  <1>2. QED
    BY IInvAlways, <1>1, PTL

(* ... so it takes the up-down path (doEcmp): two cables within a pod,     *)
(* without a core, four between pods.                                      *)
THEOREM UpDownPathCorrect ==
    ASSUME ManualWeights = {}, TimeToLive >= 4
    PROVE  Spec => []UpDownPath
  <1>1. IInv => UpDownPath
    BY DEF IInv, PathInv, PacketOnPath, UpDownPath, AtSource, Rising, Crossing,
           Falling, AtDestination, EdgeNode
  <1>2. QED
    BY IInvAlways, <1>1, PTL

---------------------------------------------------------------------------
(* Aborts.                                                                 *)

LEMMA TwoIndices == Half >= 2 => 0 \in Idx /\ 1 \in Idx
  <1>1. Half \in Nat
    BY RadixAssumption DEF Half
  <1>2. QED
    BY <1>1 DEF Idx

(* With one cable down, one of two parallel paths is whole.                *)
LEMMA OneOfTwoAggs ==
    ASSUME AtMostOneDown, NEW s \in Edge, NEW t \in Edge, NEW i \in Idx, NEW j \in Idx, i # j
    PROVE  \E k \in {i, j} : linkUp[EdgeCable(s[1], s[2], k)] /\ linkUp[EdgeCable(t[1], t[2], k)]
  <1> SUFFICES ASSUME \A k \in {i, j} : \/ ~linkUp[EdgeCable(s[1], s[2], k)]
                                        \/ ~linkUp[EdgeCable(t[1], t[2], k)]
               PROVE  FALSE
    OBVIOUS
  <1>1. ASSUME NEW k \in {i, j} PROVE \E l \in DownLinks : l.agg = k
    <2>1. /\ EdgeCable(s[1], s[2], k) \in Link /\ EdgeCable(s[1], s[2], k).agg = k
          /\ EdgeCable(t[1], t[2], k) \in Link /\ EdgeCable(t[1], t[2], k).agg = k
      BY EdgeParts, EdgeCableIsLink
    <2>2. QED
      BY <2>1 DEF DownLinks
  <1>2. PICK l \in DownLinks : l.agg = i
    BY <1>1
  <1>3. PICK m \in DownLinks : m.agg = j
    BY <1>1
  <1>4. QED
    BY <1>2, <1>3 DEF AtMostOneDown

LEMMA OneOfTwoRows ==
    ASSUME AtMostOneDown, NEW p \in Pods, NEW q \in Pods, NEW a \in Idx,
           NEW i \in Idx, NEW j \in Idx, i # j
    PROVE  \E k \in {i, j} : linkUp[CoreCable(p, a, k)] /\ linkUp[CoreCable(q, a, k)]
  <1> SUFFICES ASSUME \A k \in {i, j} : ~linkUp[CoreCable(p, a, k)] \/ ~linkUp[CoreCable(q, a, k)]
               PROVE  FALSE
    OBVIOUS
  <1>1. ASSUME NEW k \in {i, j} PROVE \E l \in DownLinks : l.row = k
    <2>1. /\ CoreCable(p, a, k) \in Link /\ CoreCable(p, a, k).row = k
          /\ CoreCable(q, a, k) \in Link /\ CoreCable(q, a, k).row = k
      BY CoreCableIsLink
    <2>2. QED
      BY <2>1 DEF DownLinks
  <1>2. PICK l \in DownLinks : l.row = i
    BY <1>1
  <1>3. PICK m \in DownLinks : m.row = j
    BY <1>1
  <1>4. QED
    BY <1>2, <1>3 DEF AtMostOneDown

(* An abort takes a cable down for each aggregate index or for each core   *)
(* row, so with two of them at least two cables.                           *)
LEMMA AbortNeedsTwoDown ==
    ASSUME IInv, TimeToLive >= 4, Half >= 2, Step, AtMostOneDown
    PROVE  status' # "aborted"
  <1> SUFFICES ASSUME status' = "aborted" PROVE FALSE
    OBVIOUS
  <1>i. 0 \in Idx /\ 1 \in Idx
    BY TwoIndices
  <1>s. src \in Edge /\ dst \in Edge /\ src[1] \in Pods /\ dst[1] \in Pods
    BY EdgeParts DEF IInv, TypeOK
  <1>1. \E a \in Idx : /\ linkUp[EdgeCable(src[1], src[2], a)]
                       /\ linkUp[EdgeCable(dst[1], dst[2], a)]
    BY <1>i, <1>s, OneOfTwoAggs
  <1>2. ASSUME NEW a \in Idx
        PROVE  \E r \in Idx : linkUp[CoreCable(src[1], a, r)] /\ linkUp[CoreCable(dst[1], a, r)]
    BY <1>i, <1>s, OneOfTwoRows
  <1>3. QED
    BY <1>1, <1>2, StepOutcome

(* What an abort implies, wherever it happens.                             *)
AbortInv == OneFailureHarmless /\ EdgeAbortsOnlyWhenCut

LEMMA NextAbortInv ==
    ASSUME TimeToLive >= 4, Half >= 2, IInv, AbortInv, [Next]_vars
    PROVE  AbortInv'
  <1>1. CASE Step
    <2>1. status = "moving"
      BY <1>1 DEF Step
    <2>2. AtMostOneDown' = AtMostOneDown
      BY <1>1, StepFrame DEF AtMostOneDown, DownLinks
    <2>3. OneFailureHarmless'
      BY <1>1, <2>2, StepFrame, StepOutcome, AbortNeedsTwoDown DEF OneFailureHarmless
    <2>4. EdgeAbortsOnlyWhenCut'
      <3> SUFFICES ASSUME status' = "aborted", at' = EdgeNode(src)
                   PROVE  \A a \in Idx : \/ ~linkUp[EdgeCable(src[1], src[2], a)]
                                         \/ ~linkUp[EdgeCable(dst[1], dst[2], a)]
        BY <1>1, StepFrame DEF EdgeAbortsOnlyWhenCut, EdgeNode, EdgeCable
      <3>1. at = EdgeNode(src)
        BY <1>1, StepOutcome
      <3>2. ~(\E a \in Idx : Rising(a))
        BY <3>1 DEF Rising, EdgeNode
      <3>3. QED
        BY <1>1, <3>2, StepOutcome
    <2>5. QED
      BY <2>3, <2>4 DEF AbortInv
  <1>2. ASSUME NEW s \in Edge, NEW t \in Edge, Inject(s, t) PROVE AbortInv'
    BY <1>2 DEF Inject, AbortInv, OneFailureHarmless, EdgeAbortsOnlyWhenCut
  <1>3. CASE Command
    BY <1>3 DEF Command, packetVars, AbortInv, OneFailureHarmless, EdgeAbortsOnlyWhenCut
  <1>4. CASE UNCHANGED vars
    BY <1>4 DEF vars, fabricVars, packetVars, AbortInv, OneFailureHarmless,
                EdgeAbortsOnlyWhenCut, AtMostOneDown, DownLinks, EdgeNode
  <1>5. QED
    BY <1>1, <1>2, <1>3, <1>4 DEF Next

LEMMA InitAbortInv == Init => AbortInv
  BY DEF Init, AbortInv, OneFailureHarmless, EdgeAbortsOnlyWhenCut

(* With two aggregates per pod or more, mitigating one failed cable leaves *)
(* every packet a usable entry wherever choose() is called.                *)
THEOREM OneFailureHarmlessCorrect ==
    ASSUME ManualWeights = {}, TimeToLive >= 4, Half >= 2
    PROVE  Spec => []OneFailureHarmless
  <1>1. AbortInv => OneFailureHarmless
    BY DEF AbortInv
  <1>2. QED
    BY IInvAlways, InitAbortInv, NextAbortInv, <1>1, PTL DEF Spec

(* An edge finds no entry only when no aggregate joins the two ToRs.       *)
THEOREM EdgeAbortsOnlyWhenCutCorrect ==
    ASSUME ManualWeights = {}, TimeToLive >= 4, Half >= 2
    PROVE  Spec => []EdgeAbortsOnlyWhenCut
  <1>1. AbortInv => EdgeAbortsOnlyWhenCut
    BY DEF AbortInv
  <1>2. QED
    BY IInvAlways, InitAbortInv, NextAbortInv, <1>1, PTL DEF Spec

---------------------------------------------------------------------------
(* Backup paths.                                                           *)

(* A packet that comes down to an edge for which it is not meant has left  *)
(* an aggregate that has no direct route.                                  *)
LEMMA StepKeepsBackupOnlyWhenDown ==
    ASSUME TypeOK, UpLinksHaveRoutes, BackupOnlyWhenDown, Step
    PROVE  BackupOnlyWhenDown'
  <1>d. /\ dst = <<dst[1], dst[2]>> /\ dst[1] \in Pods /\ dst[2] \in Idx
        /\ dst' = dst /\ linkUp' = linkUp /\ status # "idle"
    BY EdgeParts, StepFrame DEF TypeOK, Step
  <1>f. ASSUME NEW outcome, Finish(outcome) PROVE BackupOnlyWhenDown'
    BY <1>d, <1>f DEF Finish, BackupOnlyWhenDown, EdgeCable
  <1>g. ASSUME NEW cable, NEW node, Send(cable, node),
               \A e \in Idx : node = <<"edge", dst[1], e>> => dst = <<dst[1], e>>
        PROVE  BackupOnlyWhenDown'
    <2>1. CASE at' = node
      BY <1>d, <1>g, <2>1 DEF BackupOnlyWhenDown
    <2>2. QED
      BY <1>f, <1>g, <2>1 DEF Send
  <1>1. ASSUME NEW s \in Edge, AtEdge(s[1], s[2]) PROVE BackupOnlyWhenDown'
    <2>1. ASSUME NEW a \in Idx, Send(EdgeCable(s[1], s[2], a), <<"agg", s[1], a>>)
          PROVE  BackupOnlyWhenDown'
      BY <1>g, <2>1
    <2>2. QED
      BY <1>1, <1>f, <2>1 DEF AtEdge, WcmpForward
  <1>2. ASSUME NEW s \in Agg, AtAgg(s[1], s[2]) PROVE BackupOnlyWhenDown'
    <2>1. s[1] \in Pods /\ s[2] \in Idx /\ BackupEntries(s[1]) \subseteq Idx
      BY AggParts DEF BackupEntries
    <2>2. CASE Send(EdgeCable(s[1], dst[2], s[2]), EdgeNode(dst))
      <3>1. \A e \in Idx : EdgeNode(dst) = <<"edge", dst[1], e>> => dst = <<dst[1], e>>
        BY <1>d DEF EdgeNode
      <3>2. QED
        BY <1>g, <2>2, <3>1
    <2>3. ASSUME dst[1] = s[1], dst[2] \notin aggStatic[<<s[1], s[2]>>],
                 NEW f \in BackupEntries(s[1]),
                 Send(EdgeCable(s[1], f, s[2]), <<"edge", s[1], f>>)
          PROVE  BackupOnlyWhenDown'
      <3>1. ~linkUp[EdgeCable(dst[1], dst[2], s[2])]
        BY <1>d, <2>1, <2>3 DEF UpLinksHaveRoutes
      <3>2. CASE via' = EdgeCable(s[1], f, s[2])
        <4>1. \A e, a \in Idx : via' = EdgeCable(dst[1], e, a) => a = s[2]
          BY <3>2 DEF EdgeCable
        <4>2. QED
          BY <1>d, <3>1, <4>1 DEF BackupOnlyWhenDown, EdgeCable
      <3>3. QED
        BY <1>f, <2>3, <3>2 DEF Send
    <2>4. ASSUME NEW r \in Idx, Send(CoreCable(s[1], s[2], r), <<"core", s[2], r>>)
          PROVE  BackupOnlyWhenDown'
      BY <1>g, <2>4
    <2>5. QED
      BY <1>2, <1>f, <2>1, <2>2, <2>3, <2>4 DEF AtAgg, WcmpForward
  <1>3. ASSUME NEW c \in Core, AtCore(c[1], c[2]) PROVE BackupOnlyWhenDown'
    <2>1. CASE Send(CoreCable(dst[1], c[1], c[2]), <<"agg", dst[1], c[1]>>)
      BY <1>g, <2>1
    <2>2. QED
      BY <1>3, <1>f, <2>1 DEF AtCore
  <1>4. QED
    BY <1>1, <1>2, <1>3 DEF Step

LEMMA NextBackupOnlyWhenDown ==
    ASSUME TypeOK, UpLinksHaveRoutes, BackupOnlyWhenDown, [Next]_vars
    PROVE  BackupOnlyWhenDown'
  <1>1. CASE Step
    BY <1>1, StepKeepsBackupOnlyWhenDown
  <1>2. ASSUME NEW s \in Edge, NEW t \in Edge, Inject(s, t) PROVE BackupOnlyWhenDown'
    <2>1. via' = NoCable /\ dst'[1] \in Pods
      BY <1>2, EdgeParts DEF Inject
    <2>2. QED
      BY <2>1, EdgeCableIsLink, CablesExist DEF BackupOnlyWhenDown
  <1>3. CASE Command
    BY <1>3 DEF Command, packetVars, BackupOnlyWhenDown
  <1>4. CASE UNCHANGED vars
    BY <1>4 DEF vars, fabricVars, packetVars, BackupOnlyWhenDown, EdgeCable
  <1>5. QED
    BY <1>1, <1>2, <1>3, <1>4 DEF Next

LEMMA NextUpLinksHaveRoutes ==
    ASSUME TypeOK, UpLinksHaveRoutes, [Next]_vars
    PROVE  UpLinksHaveRoutes'
  BY StepsOfTheFabric, NextRoutes DEF TypeOK

(* In a fabric of any size, whatever the commands and their weights, no    *)
(* packet takes a backup route while the direct path is up.                *)
THEOREM BackupOnlyWhenDownCorrect == Spec => []BackupOnlyWhenDown
  <1> DEFINE Inv == TypeOK /\ UpLinksHaveRoutes /\ BackupOnlyWhenDown
  <1>1. Init => Inv
    BY InitTypeOK, InitRoutes DEF Init, BackupOnlyWhenDown
  <1>2. Inv /\ [Next]_vars => Inv'
    BY NextTypeOK, NextUpLinksHaveRoutes, NextBackupOnlyWhenDown
  <1>3. Inv => BackupOnlyWhenDown
    OBVIOUS
  <1> HIDE DEF Inv
  <1>4. QED
    BY <1>1, <1>2, <1>3, PTL DEF Spec

(* What BackupDelivers asks of the cables.                                 *)
Whole == AtMostOneDown /\ \A l \in CoreLink : linkUp[l]

(* The places of the packet: on its way up, at a core, down at an          *)
(* aggregate of the destination's pod, bounced to another edge there, and  *)
(* up again to another aggregate, whose cable to the destination is up.    *)
Climbing(a) ==
    at = <<"agg", src[1], a>> /\ via = EdgeCable(src[1], src[2], a) /\ hops = 1

AtTop(a, r) ==
    at = <<"core", a, r>> /\ via = CoreCable(src[1], a, r) /\ hops = 2 /\ src[1] # dst[1]

ComingDown(a, r) ==
    at = <<"agg", dst[1], a>> /\ via = CoreCable(dst[1], a, r) /\ hops = 3 /\ src[1] # dst[1]

Bounced(a, e) ==
    /\ at = <<"edge", dst[1], e>> /\ via = EdgeCable(dst[1], e, a) /\ hops \in 2 .. 4
    /\ e # dst[2] /\ ~linkUp[EdgeCable(dst[1], dst[2], a)]

UpAgain(a, e) ==
    /\ at = <<"agg", dst[1], a>> /\ via = EdgeCable(dst[1], e, a) /\ hops \in 3 .. 5
    /\ linkUp[EdgeCable(dst[1], dst[2], a)]

Home(a) == at = EdgeNode(dst) /\ via = EdgeCable(dst[1], dst[2], a)

OnBackupPath ==
    \/ AtSource
    \/ \E a \in Idx : Climbing(a) \/ Home(a)
    \/ \E a, r \in Idx : AtTop(a, r) \/ ComingDown(a, r)
    \/ \E a, e \in Idx : Bounced(a, e) \/ UpAgain(a, e)

Lost == status \in {"dropped", "aborted"} => \E a \in Idx : LostAbove(a)

(* A lookup with a usable entry sends the packet over one.                 *)
LEMMA WcmpSends ==
    ASSUME NEW entries, NEW cable, NEW node, NEW weight,
           WcmpForward(entries, cable, node, weight),
           NEW k \in entries, cable[k] # via, linkUp[cable[k]], weight[k] > 0
    PROVE  \E i \in entries : /\ cable[i] # via /\ linkUp[cable[i]]
                              /\ Send(cable[i], node[i])
  BY DEF WcmpForward

(* The only cable down, if it is an edge's.                                *)
LEMMA OthersAreUp ==
    ASSUME AtMostOneDown, NEW p \in Pods, NEW e \in Idx, NEW a \in Idx, ~linkUp[EdgeCable(p, e, a)]
    PROVE  \A f, b \in Idx : f # e \/ b # a => linkUp[EdgeCable(p, f, b)]
  <1> SUFFICES ASSUME NEW f \in Idx, NEW b \in Idx, f # e \/ b # a, ~linkUp[EdgeCable(p, f, b)]
               PROVE  FALSE
    OBVIOUS
  <1>1. EdgeCable(p, e, a) \in DownLinks /\ EdgeCable(p, f, b) \in DownLinks
    BY EdgeCableIsLink DEF DownLinks
  <1>2. EdgeCable(p, e, a) = EdgeCable(p, f, b)
    BY <1>1 DEF AtMostOneDown
  <1>3. e = f /\ a = b
    BY <1>2, EdgeCableIsLink
  <1>4. QED
    BY <1>3

(* A packet that stops keeps its place.                                    *)
LEMMA FinishKeepsBackupPlace ==
    ASSUME OnBackupPath, Step, NEW outcome, Finish(outcome)
    PROVE  OnBackupPath'
  <1>1. at' = at /\ via' = via /\ hops' = hops
    BY DEF Finish
  <1>2. QED
    BY <1>1, StepFrame DEF OnBackupPath, AtSource, Climbing, AtTop, ComingDown, Bounced, UpAgain,
                           Home, EdgeNode, EdgeCable, CoreCable

(* What the steps below start from.                                        *)
BackupState ==
    /\ TypeOK /\ ZeroOnlyWhenDown /\ UpLinksHaveRoutes /\ Whole
    /\ BackupPaths /\ Half >= 2 /\ TimeToLive >= 6 /\ status = "moving"

LEMMA BackupFacts ==
    ASSUME BackupState
    PROVE  /\ src \in Edge /\ src = <<src[1], src[2]>> /\ src[1] \in Pods /\ src[2] \in Idx
           /\ dst \in Edge /\ dst = <<dst[1], dst[2]>> /\ dst[1] \in Pods /\ dst[2] \in Idx
           /\ AtMostOneDown /\ \A l \in CoreLink : linkUp[l]
           /\ 0 \in Idx /\ 1 \in Idx /\ hops \in Nat /\ TimeToLive \in Nat
  BY EdgeParts, TwoIndices, TtlAssumption DEF BackupState, TypeOK, Whole

(* An uplink has weight unless the cable it stands for is down.            *)
LEMMA EdgeWeightPositive ==
    ASSUME FabricTypeOK, ZeroOnlyWhenDown,
           NEW s \in Edge, NEW t \in Edge, s # t, NEW a \in Idx,
           linkUp[EdgeCable(t[1], t[2], a)]
    PROVE  edgeWeight[s][a][t] > 0
  <1>1. edgeWeight[s][a] \in [Edge -> Weights]
    BY DEF FabricTypeOK
  <1>2. edgeWeight[s][a][t] \in Nat
    BY <1>1, WeightsAreNaturals
  <1>3. edgeWeight[s][a][t] # 0
    BY DEF ZeroOnlyWhenDown
  <1>4. QED
    BY <1>2, <1>3

LEMMA AggWeightPositive ==
    ASSUME FabricTypeOK, ZeroOnlyWhenDown,
           NEW s \in Agg, NEW t \in Edge, s[1] # t[1], NEW r \in Idx,
           linkUp[CoreCable(t[1], s[2], r)]
    PROVE  aggWeight[s][r][t] > 0
  <1>1. aggWeight[s][r] \in [Edge -> Weights]
    BY DEF FabricTypeOK
  <1>2. aggWeight[s][r][t] \in Nat
    BY <1>1, WeightsAreNaturals
  <1>3. aggWeight[s][r][t] # 0
    BY DEF ZeroOnlyWhenDown
  <1>4. QED
    BY <1>2, <1>3

LEMMA BackupAtSource ==
    ASSUME BackupState, AtSource, Step
    PROVE  Finish("delivered") \/ (status' = "moving" /\ \E a \in Idx : Climbing(a)')
  <1> DEFINE cable == [a \in Idx |-> EdgeCable(src[1], src[2], a)]
             node == [a \in Idx |-> <<"agg", src[1], a>>]
             weight == [a \in Idx |-> edgeWeight[<<src[1], src[2]>>][a][dst]]
  <1>1. at = <<"edge", src[1], src[2]>> /\ via = NoCable /\ hops = 0
    BY DEF AtSource, EdgeNode
  <1>2. AtEdge(src[1], src[2])
    BY <1>1, EdgeActs
  <1>3. CASE dst = src
    BY <1>2, <1>3, BackupFacts DEF AtEdge
  <1>4. CASE dst # src
    <2>1. WcmpForward(Idx, cable, node, weight)
      BY <1>2, <1>4, BackupFacts DEF AtEdge
    <2>2. PICK k \in {0, 1} : /\ linkUp[EdgeCable(src[1], src[2], k)]
                              /\ linkUp[EdgeCable(dst[1], dst[2], k)]
      BY BackupFacts, OneOfTwoAggs
    <2>3. k \in Idx /\ cable[k] # via /\ linkUp[cable[k]]
      BY <1>1, <2>2, BackupFacts, EdgeCableIsLink, CablesExist
    <2>4. weight[k] > 0
      BY <1>4, <2>2, <2>3, BackupFacts, EdgeWeightPositive DEF BackupState, TypeOK
    <2>5. PICK i \in Idx : linkUp[cable[i]] /\ Send(cable[i], node[i])
      <3> HIDE DEF cable, node, weight
      <3>1. QED
        BY <2>1, <2>3, <2>4, WcmpSends
    <2>6. at' = node[i] /\ via' = cable[i] /\ hops' = 1 /\ status' = "moving"
      BY <1>1, <2>5, BackupFacts, SendGoes DEF BackupState
    <2>7. QED
      BY <2>5, <2>6, StepFrame DEF Climbing, EdgeCable
  <1>5. QED
    BY <1>3, <1>4

(* At an aggregate of the destination's pod: straight down, or bounced off *)
(* an edge from which the packet does not come, or lost.                   *)
LEMMA BackupInPod ==
    ASSUME BackupState, Step, NEW a \in Idx,
           at = <<"agg", dst[1], a>>, hops \in 1 .. 3,
           \A e \in Detours : EdgeCable(dst[1], e, a) # via
    PROVE  \/ status' = "moving" /\ (Home(a)' \/ \E e \in Idx : Bounced(a, e)')
           \/ LostAbove(a)' /\ (Finish("dropped") \/ Finish("aborted"))
  <1>1. AtAgg(dst[1], a)
    BY AggActs
  <1>2. hops < TimeToLive /\ hops # TimeToLive /\ hops + 1 \in 2 .. 4
    BY BackupFacts DEF BackupState
  <1>l. ASSUME ~linkUp[EdgeCable(dst[1], dst[2], a)],
               dst[2] \in aggStatic[<<dst[1], a>>] \/ Detours = {},
               Finish("dropped") \/ Finish("aborted")
        PROVE  LostAbove(a)'
    <2>1. at' = at /\ Detours' = Detours
      BY <1>l, StepFrame DEF Finish, Detours, BackupEntries
    <2>2. QED
      BY <1>l, <2>1, StepFrame DEF LostAbove, EdgeCable
  <1>3. CASE dst[2] \in aggStatic[<<dst[1], a>>]
    <2>1. Send(EdgeCable(dst[1], dst[2], a), EdgeNode(dst))
      BY <1>1, <1>3 DEF AtAgg
    <2>2. CASE linkUp[EdgeCable(dst[1], dst[2], a)]
      <3>1. at' = EdgeNode(dst) /\ via' = EdgeCable(dst[1], dst[2], a) /\ status' = "moving"
        BY <1>2, <2>1, <2>2, SendGoes DEF BackupState
      <3>2. QED
        BY <3>1, StepFrame DEF Home, EdgeNode, EdgeCable
    <2>3. CASE ~linkUp[EdgeCable(dst[1], dst[2], a)]
      BY <1>3, <1>l, <2>1, <2>3 DEF Send
    <2>4. QED
      BY <2>2, <2>3
  <1>4. CASE dst[2] \notin aggStatic[<<dst[1], a>>]
    <2> DEFINE cable == [e \in Idx |-> EdgeCable(dst[1], e, a)]
               node == [e \in Idx |-> <<"edge", dst[1], e>>]
               weight == [e \in Idx |-> DefaultWeight]
    <2>1. BackupEntries(dst[1]) \subseteq Idx /\ BackupEntries(dst[1]) # {}
      <3>1. dst[1] \in Int
        BY BackupFacts, PodsAssumption DEF Pods
      <3>2. dst[1] # 0 => 0 \in BackupEntries(dst[1])
        BY <3>1, BackupFacts DEF BackupEntries, BackupState
      <3>3. dst[1] = 0 => 1 \in BackupEntries(dst[1])
        BY BackupFacts DEF BackupEntries, BackupState
      <3>4. QED
        BY <3>2, <3>3 DEF BackupEntries
    <2>2. ~linkUp[EdgeCable(dst[1], dst[2], a)]
      BY <1>4, BackupFacts DEF BackupState, UpLinksHaveRoutes
    <2>3. WcmpForward(BackupEntries(dst[1]), cable, node, weight)
      BY <1>1, <1>4, <2>1 DEF AtAgg
    <2>4. ASSUME NEW e \in BackupEntries(dst[1]), linkUp[cable[e]], Send(cable[e], node[e])
          PROVE  status' = "moving" /\ Bounced(a, e)'
      <3>1. e \in Idx /\ linkUp[EdgeCable(dst[1], e, a)] /\ e # dst[2]
        BY <2>1, <2>2, <2>4
      <3>2. /\ at' = <<"edge", dst[1], e>> /\ via' = EdgeCable(dst[1], e, a)
            /\ hops' = hops + 1 /\ status' = "moving"
        BY <1>2, <2>4, <3>1, SendGoes DEF BackupState
      <3>3. QED
        BY <1>2, <2>2, <3>1, <3>2, StepFrame DEF Bounced, EdgeCable
    <2>5. CASE Detours # {}
      <3>1. PICK k \in Detours : TRUE
        BY <2>5
      <3>2. k \in BackupEntries(dst[1]) /\ k \in Idx /\ k # dst[2]
        BY <2>1, <3>1 DEF Detours
      <3>3. cable[k] # via /\ linkUp[cable[k]] /\ weight[k] > 0
        BY <2>2, <3>1, <3>2, BackupFacts, OthersAreUp DEF DefaultWeight
      <3>4. \E e \in BackupEntries(dst[1]) : linkUp[cable[e]] /\ Send(cable[e], node[e])
        <4> HIDE DEF cable, node, weight
        <4>1. QED
          BY <2>3, <3>2, <3>3, WcmpSends
      <3> HIDE DEF cable, node
      <3>5. QED
        BY <2>1, <2>4, <3>4
    <2>6. CASE Detours = {}
      <3> HIDE DEF cable, node
      <3>1. QED
        BY <1>l, <2>1, <2>2, <2>3, <2>4, <2>6 DEF WcmpForward
    <2>7. QED
      BY <2>5, <2>6
  <1>5. QED
    BY <1>3, <1>4

LEMMA BackupClimbing ==
    ASSUME BackupState, Step, NEW a \in Idx, Climbing(a)
    PROVE  \/ /\ status' = "moving"
              /\ Home(a)' \/ (\E e \in Idx : Bounced(a, e)') \/ (\E r \in Idx : AtTop(a, r)')
           \/ LostAbove(a)' /\ (Finish("dropped") \/ Finish("aborted"))
  <1>1. at = <<"agg", src[1], a>> /\ via = EdgeCable(src[1], src[2], a) /\ hops = 1
    BY DEF Climbing
  <1>2. CASE dst[1] = src[1]
    <2>1. ASSUME NEW e \in Detours PROVE EdgeCable(dst[1], e, a) # via
      <3>1. e # src[2]
        BY <1>2 DEF Detours
      <3>2. QED
        BY <1>1, <1>2, <3>1 DEF EdgeCable
    <2>2. QED
      BY <1>1, <1>2, <2>1, BackupInPod
  <1>3. CASE dst[1] # src[1]
    <2> DEFINE cable == [r \in Idx |-> CoreCable(src[1], a, r)]
               node == [r \in Idx |-> <<"core", a, r>>]
               weight == [r \in Idx |-> aggWeight[<<src[1], a>>][r][dst]]
    <2>1. WcmpForward(Idx, cable, node, weight)
      BY <1>1, <1>3, AggActs DEF AtAgg
    <2>2. 0 \in Idx /\ cable[0] # via /\ linkUp[cable[0]]
      BY <1>1, BackupFacts, CoreCableIsLink, EdgeCableIsLink
    <2>3. weight[0] > 0
      <3>1. /\ <<src[1], a>> \in Agg /\ CoreCable(dst[1], a, 0) \in CoreLink
            /\ <<src[1], a>>[1] = src[1] /\ <<src[1], a>>[2] = a
        BY <2>2, BackupFacts, CoreCableIsLink DEF Agg
      <3>2. linkUp[CoreCable(dst[1], <<src[1], a>>[2], 0)]
        BY <3>1, BackupFacts
      <3>3. aggWeight[<<src[1], a>>][0][dst] > 0
        BY <1>3, <2>2, <3>1, <3>2, BackupFacts, AggWeightPositive DEF BackupState, TypeOK
      <3>4. QED
        BY <2>2, <3>3
    <2>4. PICK r \in Idx : linkUp[cable[r]] /\ Send(cable[r], node[r])
      <3> HIDE DEF cable, node, weight
      <3>1. QED
        BY <2>1, <2>2, <2>3, WcmpSends
    <2>5. /\ at' = <<"core", a, r>> /\ via' = CoreCable(src[1], a, r) /\ hops' = 2
          /\ status' = "moving"
      BY <1>1, <2>4, BackupFacts, SendGoes DEF BackupState
    <2>6. QED
      BY <1>3, <2>5, StepFrame DEF AtTop, CoreCable
  <1>4. QED
    BY <1>2, <1>3

LEMMA BackupAtTop ==
    ASSUME BackupState, Step, NEW a \in Idx, NEW r \in Idx, AtTop(a, r)
    PROVE  status' = "moving" /\ ComingDown(a, r)'
  <1>1. at = <<"core", a, r>> /\ hops = 2 /\ src[1] # dst[1]
    BY DEF AtTop
  <1>2. linkUp[CoreCable(dst[1], a, r)]
    BY BackupFacts, CoreCableIsLink
  <1>3. dst[1] \in coreStatic[<<a, r>>]
    BY <1>2, BackupFacts DEF BackupState, UpLinksHaveRoutes
  <1>4. Send(CoreCable(dst[1], a, r), <<"agg", dst[1], a>>)
    BY <1>1, <1>3, CoreActs DEF AtCore
  <1>5. /\ at' = <<"agg", dst[1], a>> /\ via' = CoreCable(dst[1], a, r) /\ hops' = 3
        /\ status' = "moving"
    BY <1>1, <1>2, <1>4, BackupFacts, SendGoes DEF BackupState
  <1>6. QED
    BY <1>1, <1>5, StepFrame DEF ComingDown, CoreCable

LEMMA BackupComingDown ==
    ASSUME BackupState, Step, NEW a \in Idx, NEW r \in Idx, ComingDown(a, r)
    PROVE  \/ status' = "moving" /\ (Home(a)' \/ \E e \in Idx : Bounced(a, e)')
           \/ LostAbove(a)' /\ (Finish("dropped") \/ Finish("aborted"))
  <1>1. at = <<"agg", dst[1], a>> /\ via = CoreCable(dst[1], a, r) /\ hops \in 1 .. 3
    BY DEF ComingDown
  <1>2. ASSUME NEW e \in Detours PROVE EdgeCable(dst[1], e, a) # via
    <2>1. EdgeCable(dst[1], e, a).tier = "edge" /\ CoreCable(dst[1], a, r).tier = "core"
      BY DEF EdgeCable, CoreCable
    <2>2. QED
      BY <1>1, <2>1
  <1>3. QED
    BY <1>1, <1>2, BackupInPod

(* Bounced, the packet may take any other uplink of the edge.              *)
LEMMA BackupBounced ==
    ASSUME BackupState, Step, NEW a \in Idx, NEW e \in Idx, Bounced(a, e)
    PROVE  status' = "moving" /\ \E b \in Idx : UpAgain(b, e)'
  <1> DEFINE cable == [b \in Idx |-> EdgeCable(dst[1], e, b)]
             node == [b \in Idx |-> <<"agg", dst[1], b>>]
             weight == [b \in Idx |-> edgeWeight[<<dst[1], e>>][b][dst]]
  <1>1. /\ at = <<"edge", dst[1], e>> /\ via = EdgeCable(dst[1], e, a) /\ hops \in 2 .. 4
        /\ e # dst[2] /\ ~linkUp[EdgeCable(dst[1], dst[2], a)]
    BY DEF Bounced
  <1>2. dst # <<dst[1], e>> /\ <<dst[1], e>> \in Edge
    BY <1>1, BackupFacts DEF Edge
  <1>3. WcmpForward(Idx, cable, node, weight)
    BY <1>1, <1>2, EdgeActs DEF AtEdge
  <1>4. \A b \in Idx : /\ EdgeCable(dst[1], e, b).agg = b
                       /\ b # a => linkUp[EdgeCable(dst[1], dst[2], b)]
                       /\ linkUp[EdgeCable(dst[1], e, b)]
    BY <1>1, BackupFacts, OthersAreUp, EdgeCableIsLink
  <1>5. PICK k \in {0, 1} : k # a
    OBVIOUS
  <1>6. k \in Idx /\ cable[k] # via /\ linkUp[cable[k]]
    BY <1>1, <1>4, <1>5, BackupFacts
  <1>7. weight[k] > 0
    BY <1>2, <1>4, <1>5, <1>6, BackupFacts, EdgeWeightPositive DEF BackupState, TypeOK
  <1>8. PICK b \in Idx : cable[b] # via /\ linkUp[cable[b]] /\ Send(cable[b], node[b])
    <2> HIDE DEF cable, node, weight
    <2>1. QED
      BY <1>3, <1>6, <1>7, WcmpSends
  <1>9. linkUp[EdgeCable(dst[1], dst[2], b)]
    BY <1>1, <1>4, <1>8
  <1>10. /\ at' = <<"agg", dst[1], b>> /\ via' = EdgeCable(dst[1], e, b) /\ hops' = hops + 1
         /\ status' = "moving"
    BY <1>1, <1>8, BackupFacts, SendGoes DEF BackupState
  <1>11. hops' \in 3 .. 5
    BY <1>1, <1>10
  <1>12. QED
    BY <1>9, <1>10, <1>11, StepFrame DEF UpAgain, EdgeCable

LEMMA BackupUpAgain ==
    ASSUME BackupState, Step, NEW a \in Idx, NEW e \in Idx, UpAgain(a, e)
    PROVE  status' = "moving" /\ Home(a)'
  <1>1. /\ at = <<"agg", dst[1], a>> /\ hops \in 3 .. 5
        /\ linkUp[EdgeCable(dst[1], dst[2], a)]
    BY DEF UpAgain
  <1>2. dst[2] \in aggStatic[<<dst[1], a>>]
    BY <1>1, BackupFacts DEF BackupState, UpLinksHaveRoutes
  <1>3. Send(EdgeCable(dst[1], dst[2], a), EdgeNode(dst))
    BY <1>1, <1>2, AggActs DEF AtAgg
  <1>4. at' = EdgeNode(dst) /\ via' = EdgeCable(dst[1], dst[2], a) /\ status' = "moving"
    BY <1>1, <1>3, BackupFacts, SendGoes DEF BackupState
  <1>5. QED
    BY <1>4, StepFrame DEF Home, EdgeNode, EdgeCable

LEMMA BackupHome ==
    ASSUME BackupState, Step, NEW a \in Idx, Home(a)
    PROVE  Finish("delivered")
  <1>1. at = <<"edge", dst[1], dst[2]>>
    BY DEF Home, EdgeNode
  <1>2. AtEdge(dst[1], dst[2])
    BY <1>1, EdgeActs
  <1>3. QED
    BY <1>2, BackupFacts DEF AtEdge

LEMMA BackupStep ==
    ASSUME BackupState, OnBackupPath, Step
    PROVE  OnBackupPath' /\ Lost'
  <1>f. ASSUME Finish("delivered") PROVE OnBackupPath' /\ Lost'
    BY <1>f, FinishKeepsBackupPlace DEF Finish, Lost
  <1>l. ASSUME NEW a \in Idx, LostAbove(a)', Finish("dropped") \/ Finish("aborted")
        PROVE  OnBackupPath' /\ Lost'
    BY <1>l, FinishKeepsBackupPlace DEF Lost
  <1>m. status' = "moving" => Lost'
    BY DEF Lost
  <1>1. CASE AtSource
    BY <1>1, <1>f, <1>m, BackupAtSource DEF OnBackupPath
  <1>2. ASSUME NEW a \in Idx, Climbing(a) PROVE OnBackupPath' /\ Lost'
    BY <1>2, <1>l, <1>m, BackupClimbing DEF OnBackupPath
  <1>3. ASSUME NEW a \in Idx, Home(a) PROVE OnBackupPath' /\ Lost'
    BY <1>3, <1>f, BackupHome
  <1>4. ASSUME NEW a \in Idx, NEW r \in Idx, AtTop(a, r) PROVE OnBackupPath' /\ Lost'
    BY <1>4, <1>m, BackupAtTop DEF OnBackupPath
  <1>5. ASSUME NEW a \in Idx, NEW r \in Idx, ComingDown(a, r) PROVE OnBackupPath' /\ Lost'
    BY <1>5, <1>l, <1>m, BackupComingDown DEF OnBackupPath
  <1>6. ASSUME NEW a \in Idx, NEW e \in Idx, Bounced(a, e) PROVE OnBackupPath' /\ Lost'
    BY <1>6, <1>m, BackupBounced DEF OnBackupPath
  <1>7. ASSUME NEW a \in Idx, NEW e \in Idx, UpAgain(a, e) PROVE OnBackupPath' /\ Lost'
    BY <1>7, <1>m, BackupUpAgain DEF OnBackupPath
  <1>8. QED
    BY <1>1, <1>2, <1>3, <1>4, <1>5, <1>6, <1>7 DEF OnBackupPath

(* The inductive invariant: weights are zero for cables that are down      *)
(* only, the packet waits at its source for the end of the script, and is  *)
(* on its way around the cable afterwards.                                 *)
BackupInv ==
    /\ TypeOK /\ ZeroOnlyWhenDown /\ UpLinksHaveRoutes
    /\ status = "idle" => AtSource
    /\ Whole => OnBackupPath /\ Lost

LEMMA InitBackupInv == Init => BackupInv
  <1> SUFFICES ASSUME Init PROVE BackupInv
    OBVIOUS
  <1>1. TypeOK /\ ZeroOnlyWhenDown /\ UpLinksHaveRoutes
    BY InitTypeOK, InitZero, InitRoutes DEF Init
  <1>2. AtSource /\ status = "idle"
    BY DEF Init, AtSource
  <1>3. QED
    BY <1>1, <1>2 DEF BackupInv, OnBackupPath, Lost

LEMMA NextBackupInv ==
    ASSUME 0 \notin ManualWeights, BackupPaths, Half >= 2, TimeToLive >= 6,
           BackupInv, [Next]_vars
    PROVE  BackupInv'
  <1>1. TypeOK' /\ ZeroOnlyWhenDown' /\ UpLinksHaveRoutes'
    BY NextTypeOK, StepsOfTheFabric, NextZero, NextRoutes DEF BackupInv, TypeOK
  <1>2. CASE Step
    <2>1. Whole' = Whole /\ status = "moving" /\ status' # "idle"
      BY <1>2, StepFrame, StepStarts DEF Whole, AtMostOneDown, DownLinks
    <2>2. ASSUME Whole PROVE OnBackupPath' /\ Lost'
      <3>1. BackupState /\ OnBackupPath
        BY <2>1, <2>2 DEF BackupState, BackupInv
      <3>2. QED
        BY <1>2, <3>1, BackupStep
    <2>3. QED
      BY <1>1, <2>1, <2>2 DEF BackupInv
  <1>3. ASSUME AtSource', status' \in {"idle", "moving"} PROVE BackupInv'
    BY <1>1, <1>3 DEF BackupInv, OnBackupPath, Lost
  <1>4. ASSUME NEW s \in Edge, NEW t \in Edge, Inject(s, t) PROVE BackupInv'
    BY <1>3, <1>4 DEF Inject, AtSource, EdgeNode
  <1>5. CASE Command
    BY <1>3, <1>5 DEF Command, packetVars, BackupInv, AtSource, EdgeNode
  <1>6. CASE UNCHANGED vars
    <2>1. UNCHANGED <<status, at, via, dst, src, hops, linkUp, aggStatic>>
      BY <1>6 DEF vars, packetVars, fabricVars
    <2>2. OnBackupPath' = OnBackupPath /\ Whole' = Whole /\ AtSource' = AtSource
      BY <2>1 DEF OnBackupPath, AtSource, Climbing, AtTop, ComingDown, Bounced, UpAgain, Home,
                  EdgeNode, Whole, AtMostOneDown, DownLinks
    <2>3. Lost' = Lost
      BY <2>1 DEF Lost, LostAbove, Detours, BackupEntries
    <2>4. QED
      BY <1>1, <2>1, <2>2, <2>3 DEF BackupInv
  <1>7. QED
    BY <1>2, <1>4, <1>5, <1>6 DEF Next

(* With backup paths, in any fabric of two or more aggregates per pod: as  *)
(* long as SET_WCMP writes no zero, a packet that meets the only cable     *)
(* down, an edge's, is delivered around it, but for the two cases that     *)
(* LostAbove names.                                                        *)
THEOREM BackupDeliversCorrect ==
    ASSUME 0 \notin ManualWeights, BackupPaths, Half >= 2, TimeToLive >= 6
    PROVE  Spec => []BackupDelivers
  <1>1. BackupInv => BackupDelivers
    BY DEF BackupInv, BackupDelivers, Whole, Lost
  <1>2. BackupInv /\ [Next]_vars => BackupInv'
    BY NextBackupInv
  <1>3. QED
    BY InitBackupInv, <1>1, <1>2, PTL DEF Spec

===========================================================================
