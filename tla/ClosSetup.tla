---------------------------- MODULE ClosSetup -----------------------------
(***************************************************************************)
(* setupClosTopology (scratch/swarm/swarm.cc): the nodes are placed and    *)
(* created, then cabled, the servers get their addresses, the switches     *)
(* their interfaces (module FabricInterfaces), and last the routes are     *)
(* installed, by interface numbers and addresses that are computed anew    *)
(* and not looked up in what the earlier steps have made.                  *)
(***************************************************************************)
EXTENDS FabricInterfaces, ClosPlacement, FiniteSets

VARIABLES
    setup,          \* which step is next
    edgeToAggLinks, aggToCoreLinks, serverToEdgeLinks,  \* the maps of cables
    serverDevices,  \* servers of every ToR, in the order in which they were cabled
    serverAddress   \* <<p, e, x>> for 10.p.e.x, <<>> before

linkMaps == <<edgeToAggLinks, aggToCoreLinks, serverToEdgeLinks, serverDevices>>
vars == <<setup, linkMaps, serverAddress, placementVars, interfacesVars>>

Server == {<<s[1], s[2], k>> : s \in Edge, k \in Servers}
(* A cable in one of the maps: its key, and the nodes of its two devices.  *)
Cable(src, dst, low, high) == [key |-> <<src, dst>>, low |-> low, high |-> high]

Init ==
    /\ PlacementInit
    /\ InterfacesInit
    /\ setup = "nodes"
    /\ edgeToAggLinks = {} /\ aggToCoreLinks = {} /\ serverToEdgeLinks = {}
    /\ serverDevices = [s \in Edge |-> <<>>]
    /\ serverAddress = [n \in Server |-> <<>>]

---------------------------------------------------------------------------
(* createTopology.                                                         *)
CreateNodes ==
    /\ setup = "nodes"
    /\ PlacementNext
    /\ setup' = IF placing' = "placed" THEN "links" ELSE "nodes"
    /\ UNCHANGED <<linkMaps, serverAddress, interfacesVars>>

(* coreSwitches.Get.                                                       *)
CoreAt(k) == <<k % Half, k \div Half>>

(* Mutant: the cores of an aggregate are taken one after the other.        *)
CoreCablesConsecutive ==
    {Cable(FlatIndex(a[1], a[2]), Half * a[2] + r, a, CoreAt(Half * a[2] + r)) :
        a \in Agg, r \in Idx}

EdgeCables ==
    {Cable(FlatIndex(s[1], s[2]), FlatIndex(s[1], a), s, <<s[1], a>>) : s \in Edge, a \in Idx}
CoreCables ==
    {Cable(FlatIndex(a[1], a[2]), a[2] + Half * r, a, CoreAt(a[2] + Half * r)) :
        a \in Agg, r \in Idx}
ServerCables ==
    {Cable(FlatIndex(s[1], s[2]), k + NumServers * FlatIndex(s[1], s[2]), <<s[1], s[2], k>>, s) :
        s \in Edge, k \in Servers}

(* createLinks, and connectServers which it calls.                         *)
CreateLinks ==
    /\ setup = "links"
    /\ edgeToAggLinks' = EdgeCables
    /\ aggToCoreLinks' = CoreCables
    /\ serverToEdgeLinks' = ServerCables
    /\ serverDevices' = [s \in Edge |-> [k \in Servers |-> <<s[1], s[2], k>>]]
    /\ setup' = "addresses"
    /\ UNCHANGED <<serverAddress, placementVars, interfacesVars>>

(* Ipv4AddressHelper counts from 1 within the network of the ToR.          *)
HostNumber(k) == k + 1

AssignServerIps ==
    /\ setup = "addresses"
    /\ serverAddress' = [n \in Server |->
            LET s == CHOOSE t \in Edge : \E k \in Servers : serverDevices[t][k] = n
                k == CHOOSE x \in Servers : serverDevices[s][x] = n
            IN  <<s[1], s[2], HostNumber(k)>>]
    /\ setup' = "interfaces"
    /\ UNCHANGED <<linkMaps, placementVars, interfacesVars>>

CreateFabricInterfaces ==
    /\ setup = "interfaces"
    /\ InterfacesNext
    /\ setup' = IF phase' = "done" THEN "routes" ELSE "interfaces"
    /\ UNCHANGED <<linkMaps, serverAddress, placementVars>>

(* setupServerRouting, setupCoreRouting and doEcmp: the tables below.      *)
SetupRoutes ==
    /\ setup = "routes"
    /\ setup' = "ready"
    /\ UNCHANGED <<linkMaps, serverAddress, placementVars, interfacesVars>>

Next ==
    \/ CreateNodes \/ CreateLinks \/ AssignServerIps
    \/ CreateFabricInterfaces \/ SetupRoutes

Spec == Init /\ [][Next]_vars

---------------------------------------------------------------------------
(* The static routes, as pairs of a destination and an interface number.   *)

HostRoutes(s) == {<<<<s[1], s[2], k + 1>>, k + 1>> : k \in Servers}

(* Mutant: the route to the ToR leaves out the loopback interface.         *)
TorRoutesFromZero(a) == {<<<<a[1], e>>, e>> : e \in Idx}

TorRoutes(a) == {<<<<a[1], e>>, e + 1>> : e \in Idx}
PodRoutes(c) == {<<p, p + 1>> : p \in Pods}

(* The interfaces with a WCMP wildcard route.                              *)
EdgeWildcards == NumServers + 1 .. NumServers + Half
AggWildcards == Half + 1 .. SwitchRadix

---------------------------------------------------------------------------
(* Properties.                                                             *)

(* createFabricInterfaces finds every cable it looks up by its flat        *)
(* numbers, with the devices of the very two nodes it configures: the maps *)
(* were filled by other loops, and operator[] would make an empty entry.   *)
NextCableExists ==
    setup = "interfaces" =>
        /\ phase = "server" =>
            Cable(FlatIndex(pod, i), NumServers * FlatIndex(pod, i) + j,
                  <<pod, i, j>>, <<pod, i>>) \in serverToEdgeLinks
        /\ phase = "aggEdge" =>
            Cable(FlatIndex(pod, j), FlatIndex(pod, i), <<pod, j>>, <<pod, i>>)
                \in edgeToAggLinks
        /\ phase = "aggCore" =>
            Cable(FlatIndex(pod, i), j * Half + i, <<pod, i>>, <<i, j>>) \in aggToCoreLinks

(* When the experiment begins, the routes lead where the cables lead: the  *)
(* host routes of an edge are those of the addresses of its servers, each  *)
(* over the interface of that server, and no two servers have one address; *)
(* an aggregate reaches every ToR of its pod, a core every pod; and the    *)
(* interfaces with a WCMP wildcard route are exactly the uplinks.          *)
RoutesFollowCables ==
    setup = "ready" =>
        /\ \A s \in Edge : HostRoutes(s) =
            {<<serverAddress[<<s[1], s[2], k>>], edgeServerIf[s][k]>> : k \in Servers}
        /\ Cardinality({serverAddress[n] : n \in Server}) = Cardinality(Server)
        /\ \A a \in Agg : TorRoutes(a) = {<<<<a[1], e>>, aggEdgeIf[a][e]>> : e \in Idx}
        /\ \A c \in Core : PodRoutes(c) = {<<p, coreAggIf[c][p]>> : p \in Pods}
        /\ \A s \in Edge : EdgeWildcards = {edgeAggIf[s][a] : a \in Idx}
        /\ \A s \in Agg : AggWildcards = {aggCoreIf[s][r] : r \in Idx}

===========================================================================
