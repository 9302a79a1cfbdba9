--------------------------- MODULE WcmpRouter ----------------------------
(***************************************************************************)
(* One WcmpStaticRouting with its WcmpWeights (src/wcmp/model) on an edge  *)
(* or aggregate: the maps it keeps of interface states and weights, fed by *)
(* the notifications of the IPv4 stack, its route list and its cache.      *)
(* ns3::Ipv4L3Protocol is outside the repository: ipv4Up is the state of   *)
(* its interfaces, and it calls the notification within SetUp and SetDown. *)
(* Calls are simulator events, so each is one step.                        *)
(***************************************************************************)
EXTENDS WcmpSwitch

CONSTANT CacheModes     \* the values of m_use_cache to consider

ASSUME CacheAssumption == CacheModes \subseteq BOOLEAN

VARIABLES
    useCache,   \* m_use_cache, fixed when the stack is created
    stage,      \* "wiring", "running" or "aborted"
    ipv4Up,     \* Ipv4L3Protocol: is the interface up?
    known,      \* keys of WcmpWeights::states
    states,     \* WcmpWeights::states, FALSE without a key as operator[] makes it
    weights,    \* WcmpWeights::weights, zero without a key
    routes,     \* m_networkRoutes: for the own "pod" or "any" network
    cache,      \* wcmp_cache, the interface of the entry
    events,     \* number of interface changes and weight updates
    answer      \* what the last step answered, if it was a lookup

stackVars == <<ipv4Up, known, states>>
vars == <<useCache, stage, stackVars, weights, routes, cache, events, answer>>

(* After SetIpv4, when the switch has its loopback only.                   *)
Init ==
    /\ useCache \in CacheModes
    /\ stage = "wiring"
    /\ ipv4Up = [i \in Ifs |-> FALSE]
    /\ known = {}
    /\ states = [i \in Ifs |-> FALSE]
    /\ weights = [i \in Ifs |-> [l \in Levels |-> 0]]
    /\ routes = {}
    /\ cache = [h \in Hashes |-> NoRoute]
    /\ events = 0
    /\ answer = NoAnswer

---------------------------------------------------------------------------
(* Notifications.                                                          *)

(* Mutant: the interface is initialised again although it is known.        *)
AddInterfaceAnew(i) ==
    /\ known' = known \cup {i}
    /\ weights' = [weights EXCEPT ![i] = [l \in Levels |-> DefaultWeight]]

(* WcmpWeights::add_interface.                                             *)
AddInterface(i) ==
    \/ i \in known /\ UNCHANGED <<known, weights>>
    \/ /\ i \notin known
       /\ known' = known \cup {i}
       /\ weights' = [weights EXCEPT ![i] = [l \in Levels |-> DefaultWeight]]

SetState(i, state) == states' = [states EXCEPT ![i] = state]

NotifyInterfaceUp(i) == AddInterface(i) /\ SetState(i, TRUE)

(* Mutant: the state is not recorded.                                      *)
NotifyInterfaceDownIgnored(i) == UNCHANGED <<known, states, weights>>

NotifyInterfaceDown(i) ==
    /\ SetState(i, FALSE)
    /\ known' = known \cup {i}
    /\ UNCHANGED weights

(* createFabricInterfaces: AddInterface, AddAddress and SetUp of the next  *)
(* interface.  NotifyAddAddress does no more than NotifyInterfaceUp.       *)
Connect(i) ==
    /\ stage = "wiring"
    /\ i \notin known /\ 1 .. i - 1 \subseteq known
    /\ ipv4Up' = [ipv4Up EXCEPT ![i] = TRUE]
    /\ NotifyInterfaceUp(i)
    /\ UNCHANGED <<stage, routes, cache, events, answer>>

(* doEcmp and enableAggregateBackupPaths.                                  *)
ConfiguredRoutes ==
    {[net |-> "any", iface |-> i, metric |-> 1] : i \in Uplinks} \cup
    {[net |-> "pod", iface |-> i, metric |-> 10] : i \in Backups}

InstallRoutes ==
    /\ stage = "wiring" /\ known = Ifs
    /\ routes' = ConfiguredRoutes
    /\ stage' = "running"
    /\ UNCHANGED <<stackVars, weights, cache, events, answer>>

Change ==
    /\ stage = "running" /\ events < MaxEvents
    /\ events' = events + 1
    /\ answer' = NoAnswer
    /\ UNCHANGED <<stage, routes, cache>>

SetUp(i) ==
    /\ Change
    /\ ipv4Up' = [ipv4Up EXCEPT ![i] = TRUE]
    /\ NotifyInterfaceUp(i)

SetDown(i) ==
    /\ Change
    /\ ipv4Up' = [ipv4Up EXCEPT ![i] = FALSE]
    /\ NotifyInterfaceDown(i)

SetInterfaceWeight(i, l, w) ==
    /\ Change
    /\ weights' = [weights EXCEPT ![i][l] = w]
    /\ UNCHANGED stackVars

---------------------------------------------------------------------------
(* Lookup.                                                                 *)

Covers(net, level) == net = "any" \/ level \in OwnLevels

(* MultiLpm, as module MultiLpm shows it: the longest prefix, a /16 before *)
(* a wildcard, and among its routes the least metric.                      *)
MultiLpm(level) ==
    LET matching == {r \in routes : Covers(r.net, level)}
        longest == {r \in matching : r.net = "any" => \A s \in matching : s.net = "any"}
    IN  {r \in longest : \A s \in longest : r.metric <= s.metric}

(* WcmpWeights::choose, as module WeightedChoose shows it.                 *)
Working(entries) == {i \in Ifs : states[i] /\ \E r \in entries : r.iface = i}
Share(level) == [i \in Ifs |-> weights[i][level]]

Reply(level, hash, iif, outcome) ==
    answer' = [level |-> level, hash |-> hash, iif |-> iif, outcome |-> outcome]

(* Mutant: a cached entry is used only while its interface is up.          *)
CachedWhileUp(hash) == useCache /\ cache[hash] # NoRoute /\ states[cache[hash]]

OffIncoming(entries, iif) == {r \in entries : r.iface # iif}

Cached(hash) == useCache /\ cache[hash] # NoRoute

(* UpdateCache keeps the entry that a hash has already.                    *)
UpdateCache(hash, i) ==
    IF useCache /\ cache[hash] = NoRoute
    THEN cache' = [cache EXCEPT ![hash] = i]
    ELSE UNCHANGED cache

(* LookupWcmp: the cache is asked first, by the hash alone.                *)
LookupWcmp(level, hash, iif) ==
    LET entries == OffIncoming(MultiLpm(level), iif)
        working == Working(entries)
        chosen == Pick(working, Share(level), hash)
    IN
    \/ /\ Cached(hash)
       /\ Reply(level, hash, iif, cache[hash])
       /\ UNCHANGED <<stage, cache>>
    \/ /\ ~Cached(hash) /\ entries = {}
       /\ Reply(level, hash, iif, NoRoute)
       /\ UNCHANGED <<stage, cache>>
    \/ /\ ~Cached(hash) /\ entries # {} /\ TotalWeight(working, Share(level)) = 0
       /\ Reply(level, hash, iif, Aborted)
       /\ stage' = "aborted"
       /\ UNCHANGED cache
    \/ /\ ~Cached(hash) /\ entries # {} /\ TotalWeight(working, Share(level)) # 0
       /\ Reply(level, hash, iif, chosen)
       /\ UpdateCache(hash, chosen)
       /\ UNCHANGED stage

(* RouteInput of a unicast packet for another node, which the stack hands  *)
(* over only if it came in over an interface that is up.                   *)
RouteInput(level, hash, iif) ==
    /\ stage = "running" /\ ipv4Up[iif]
    /\ LookupWcmp(level, hash, iif)
    /\ UNCHANGED <<stackVars, weights, routes, events>>

Next ==
    /\ \/ InstallRoutes
       \/ \E i \in Ifs :
           \/ Connect(i) \/ SetUp(i) \/ SetDown(i)
           \/ \E l \in Levels, w \in WeightValues : SetInterfaceWeight(i, l, w)
           \/ \E l \in Levels, h \in Hashes : RouteInput(l, h, i)
    /\ UNCHANGED useCache

Spec == Init /\ [][Next]_vars

---------------------------------------------------------------------------
(* Properties.                                                             *)

(* The router's copy of the interface states is the stack's, whichever     *)
(* notifications came: it is nowhere read from the stack again.            *)
StatesMirrorStack ==
    /\ states = ipv4Up
    /\ stage # "wiring" => known = Ifs

(* The weights that a lookup could read: an interface not added yet will   *)
(* start with the default.                                                 *)
KnownWeight ==
    [i \in Ifs |-> IF i \in known THEN weights[i] ELSE [l \in Levels |-> DefaultWeight]]

Policy == INSTANCE WcmpPolicy WITH up <- ipv4Up, weight <- KnownWeight

(* Without the cache the router keeps WcmpPolicy: in particular an         *)
(* interface that goes down and up again keeps the weights that a          *)
(* mitigation or SET_WCMP wrote, although NotifyInterfaceUp initialises    *)
(* interfaces.                                                             *)
KeepsPolicy ==
    /\ ~useCache => Policy!Init
    /\ [][~useCache => Policy!Next]_(Policy!policyVars)

(* With the cache, a flow never changes its way again: no interface change *)
(* and no new weight reaches a hash that has been looked up before.        *)
CachedFlowNeverMoves ==
    [][\A h \in Hashes :
        cache[h] # NoRoute =>
            /\ cache'[h] = cache[h]
            /\ answer'.outcome \in Ifs /\ answer'.hash = h => answer'.outcome = cache[h]]_vars

===========================================================================
