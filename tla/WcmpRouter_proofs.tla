------------------------ MODULE WcmpRouter_proofs ------------------------
(***************************************************************************)
(* For any switch, any routes and any rule that shares out the hash        *)
(* values: the router's copy of the interface states stays the stack's;    *)
(* without the cache the router implements WcmpPolicy, and with it a flow  *)
(* keeps its way.                                                          *)
(***************************************************************************)
EXTENDS WcmpRouter, TLAPS

(* The types that the proofs need.  The interface chosen by a lookup is    *)
(* not among them: it depends on the sums of the weights.                  *)
MapsTyped ==
    /\ ipv4Up \in [Ifs -> BOOLEAN]
    /\ states \in [Ifs -> BOOLEAN]
    /\ known \subseteq Ifs
    /\ weights \in [Ifs -> [Levels -> Nat]]

(* While the switch is wired, the interfaces that the router knows are the *)
(* ones that are up; afterwards it knows all, and has its routes.          *)
Wiring == stage = "wiring" => \A i \in Ifs : ipv4Up[i] <=> i \in known
Routing == stage # "wiring" => routes = ConfiguredRoutes

IInv == MapsTyped /\ StatesMirrorStack /\ Wiring /\ Routing

LEMMA InitInv == Init => IInv
  BY DEF Init, IInv, MapsTyped, StatesMirrorStack, Wiring, Routing

LEMMA AddInterfaceTyped ==
    ASSUME MapsTyped, NEW i \in Ifs, AddInterface(i)
    PROVE  /\ known' = known \cup {i}
           /\ weights' \in [Ifs -> [Levels -> Nat]]
  <1>1. CASE i \in known
    BY <1>1 DEF MapsTyped, AddInterface
  <1>2. CASE i \notin known
    BY <1>2 DEF MapsTyped, AddInterface, DefaultWeight
  <1>3. QED
    BY <1>1, <1>2

LEMMA NextInv == IInv /\ [Next]_vars => IInv'
  <1> SUFFICES ASSUME IInv, [Next]_vars PROVE IInv'
    OBVIOUS
  <1> USE DEF IInv, MapsTyped, StatesMirrorStack, Wiring, Routing
  <1>1. CASE InstallRoutes
    BY <1>1 DEF InstallRoutes, stackVars
  <1>2. ASSUME NEW i \in Ifs, Connect(i) PROVE IInv'
    BY <1>2, AddInterfaceTyped DEF Connect, NotifyInterfaceUp, SetState
  <1>3. ASSUME NEW i \in Ifs, SetUp(i) PROVE IInv'
    BY <1>3, AddInterfaceTyped DEF SetUp, Change, NotifyInterfaceUp, SetState
  <1>4. ASSUME NEW i \in Ifs, SetDown(i) PROVE IInv'
    BY <1>4 DEF SetDown, Change, NotifyInterfaceDown, SetState
  <1>5. ASSUME NEW i \in Ifs, NEW l \in Levels, NEW w \in WeightValues,
               SetInterfaceWeight(i, l, w)
        PROVE  IInv'
    <2>1. w \in Nat
      BY WeightAssumption
    <2>2. weights' \in [Ifs -> [Levels -> Nat]]
      BY <1>5, <2>1 DEF SetInterfaceWeight
    <2>3. QED
      BY <1>5, <2>2 DEF SetInterfaceWeight, Change, stackVars
  <1>6. ASSUME NEW i \in Ifs, NEW l \in Levels, NEW h \in Hashes, RouteInput(l, h, i)
        PROVE  IInv'
    <2>1. stage = "running" /\ stage' \in {"running", "aborted"}
      BY <1>6 DEF RouteInput, LookupWcmp
    <2>2. UNCHANGED <<ipv4Up, known, states, weights, routes>>
      BY <1>6 DEF RouteInput, stackVars
    <2>3. QED
      BY <2>1, <2>2
  <1>7. CASE UNCHANGED vars
    BY <1>7 DEF vars, stackVars
  <1>8. QED
    BY <1>1, <1>2, <1>3, <1>4, <1>5, <1>6, <1>7 DEF Next

(* Whatever the order of notifications, weight updates and lookups, the    *)
(* states that lookups read are those of the stack.                        *)
THEOREM StatesMirrorStackCorrect == Spec => []StatesMirrorStack
  <1>1. IInv => StatesMirrorStack
    BY DEF IInv
  <1>2. QED
    BY InitInv, NextInv, <1>1, PTL DEF Spec

---------------------------------------------------------------------------
(* Refinement.                                                             *)

(* MultiLpm over the routes that doEcmp and enableAggregateBackupPaths     *)
(* install finds those of the candidate interfaces.                        *)
LEMMA LpmFindsCandidates ==
    ASSUME routes = ConfiguredRoutes, NEW level \in Levels, NEW i \in Ifs
    PROVE  (\E r \in MultiLpm(level) : r.iface = i) <=> i \in Policy!Candidates(level)
  <1> DEFINE wild(j) == [net |-> "any", iface |-> j, metric |-> 1]
             own(j) == [net |-> "pod", iface |-> j, metric |-> 10]
             matching == {r \in routes : Covers(r.net, level)}
             longest == {r \in matching : r.net = "any" => \A s \in matching : s.net = "any"}
  <1>w. \A j : wild(j).net = "any" /\ wild(j).iface = j /\ wild(j).metric = 1
    OBVIOUS
  <1>o. \A j : own(j).net = "pod" /\ own(j).iface = j /\ own(j).metric = 10
    OBVIOUS
  <1>r. \A r : r \in routes <=> (\E j \in Uplinks : r = wild(j)) \/ (\E j \in Backups : r = own(j))
    BY DEF ConfiguredRoutes
  <1>m. MultiLpm(level) = {r \in longest : \A s \in longest : r.metric <= s.metric}
    BY DEF MultiLpm
  <1> HIDE DEF wild, own
  <1>1. CASE level \in OwnLevels /\ Backups # {}
    <2>1. \A r : r \in matching <=> r \in routes
      BY <1>1 DEF Covers
    <2>2. PICK j \in Backups : TRUE
      BY <1>1
    <2>3. own(j) \in matching /\ own(j).net # "any"
      BY <2>1, <1>r, <1>o
    <2>4. \A r : r \in longest <=> r \in routes /\ r.net # "any"
      BY <2>1, <2>3, <1>r, <1>w, <1>o
    <2>5. \A r : r \in longest <=> \E k \in Backups : r = own(k)
      BY <2>4, <1>r, <1>w, <1>o
    <2> HIDE DEF longest
    <2>6. \A r : r \in MultiLpm(level) <=> \E k \in Backups : r = own(k)
      BY <2>5, <1>m, <1>o
    <2>7. QED
      BY <1>1, <2>6, <1>o DEF Policy!Candidates
  <1>2. CASE ~(level \in OwnLevels /\ Backups # {})
    <2>1. \A r : r \in matching <=> \E k \in Uplinks : r = wild(k)
      BY <1>2, <1>r, <1>w, <1>o DEF Covers
    <2>2. \A r : r \in longest <=> \E k \in Uplinks : r = wild(k)
      BY <2>1, <1>w
    <2> HIDE DEF longest
    <2>3. \A r : r \in MultiLpm(level) <=> \E k \in Uplinks : r = wild(k)
      BY <2>2, <1>m, <1>w
    <2>4. QED
      BY <1>2, <2>3, <1>w DEF Policy!Candidates
  <1>3. QED
    BY <1>1, <1>2

LEMMA CandidatesAreIfs ==
    ASSUME NEW level PROVE Policy!Candidates(level) \subseteq Ifs
  BY RoutesAssumption DEF Policy!Candidates

(* Without the cache, a lookup of the router is one of the policy.         *)
LEMMA RouteInputRefines ==
    ASSUME IInv, ~useCache,
           NEW l \in Levels, NEW h \in Hashes, NEW i \in Ifs, RouteInput(l, h, i)
    PROVE  Policy!Lookup(l, h, i)
  <1> DEFINE entries == OffIncoming(MultiLpm(l), i)
             others == Policy!Candidates(l) \ {i}
             working == {j \in others : ipv4Up[j]}
             share == [j \in Ifs |-> KnownWeight[j][l]]
  <1>1. stage = "running" /\ ipv4Up[i] /\ known = Ifs /\ routes = ConfiguredRoutes
    BY DEF RouteInput, IInv, StatesMirrorStack, Routing
  <1>2. UNCHANGED <<ipv4Up, known, weights, events>>
    BY DEF RouteInput, stackVars
  <1>3. UNCHANGED <<ipv4Up, KnownWeight, events>>
    BY <1>2 DEF KnownWeight
  <1>4. Share(l) = share
    BY <1>1 DEF Share, KnownWeight
  <1>5. \A j \in Ifs : (\E r \in entries : r.iface = j) <=> j \in others
    BY <1>1, LpmFindsCandidates DEF OffIncoming
  <1>6. Working(entries) = working
    BY <1>5, CandidatesAreIfs DEF Working, IInv, StatesMirrorStack
  <1>7. entries = {} <=> others = {}
    <2>1. \A r \in entries : r.iface \in Ifs
      <3>1. \A r \in ConfiguredRoutes : r.iface \in Ifs
        BY RoutesAssumption DEF ConfiguredRoutes
      <3>2. QED
        BY <1>1, <3>1 DEF OffIncoming, MultiLpm
    <2>2. others \subseteq Ifs
      BY CandidatesAreIfs
    <2>3. QED
      BY <1>5, <2>1, <2>2
  <1>8. ~Cached(h)
    BY DEF Cached
  <1> HIDE DEF entries, others, working, share
  <1>9. \/ others = {} /\ Reply(l, h, i, NoRoute) /\ UNCHANGED stage
        \/ /\ others # {} /\ TotalWeight(working, share) = 0
           /\ Reply(l, h, i, Aborted) /\ stage' = "aborted"
        \/ /\ others # {} /\ TotalWeight(working, share) # 0
           /\ Reply(l, h, i, Pick(working, share, h)) /\ UNCHANGED stage
    BY <1>4, <1>6, <1>7, <1>8 DEF RouteInput, LookupWcmp, entries
  <1>10. QED
    BY <1>1, <1>3, <1>9 DEF Policy!Lookup, Reply, others, working, share

LEMMA AddInterfaceKeepsKnownWeight ==
    ASSUME MapsTyped, NEW i \in Ifs, AddInterface(i)
    PROVE  KnownWeight' = KnownWeight
  <1>1. CASE i \in known
    BY <1>1 DEF AddInterface, KnownWeight
  <1>2. CASE i \notin known
    <2>1. ASSUME NEW j \in Ifs
          PROVE  (IF j \in known' THEN weights'[j] ELSE [l \in Levels |-> DefaultWeight])
                 = (IF j \in known THEN weights[j] ELSE [l \in Levels |-> DefaultWeight])
      BY <1>2 DEF AddInterface, MapsTyped
    <2>2. QED
      BY <2>1 DEF KnownWeight
  <1>3. QED
    BY <1>1, <1>2

LEMMA NextRefines ==
    ASSUME ~useCache, IInv, [Next]_vars
    PROVE  [Policy!Next]_(Policy!policyVars)
  <1> USE DEF Policy!policyVars
  <1>1. CASE InstallRoutes
    <2>1. \A i \in Ifs : ipv4Up[i]
      BY <1>1 DEF InstallRoutes, IInv, Wiring
    <2>2. Policy!Start
      BY <1>1, <2>1 DEF InstallRoutes, Policy!Start, KnownWeight, stackVars
    <2>3. QED
      BY <2>2 DEF Policy!Next
  <1>2. ASSUME NEW i \in Ifs, Connect(i) PROVE Policy!Next
    <2>1. KnownWeight' = KnownWeight
      BY <1>2, AddInterfaceKeepsKnownWeight DEF Connect, NotifyInterfaceUp, IInv
    <2>2. Policy!Connect(i)
      BY <1>2, <2>1 DEF Connect, Policy!Connect
    <2>3. QED
      BY <2>2 DEF Policy!Next
  <1>3. ASSUME NEW i \in Ifs, SetUp(i) PROVE Policy!Next
    <2>1. KnownWeight' = KnownWeight
      BY <1>3, AddInterfaceKeepsKnownWeight DEF SetUp, NotifyInterfaceUp, IInv
    <2>2. Policy!SetState(i, TRUE)
      BY <1>3, <2>1 DEF SetUp, Change, Policy!SetState, Policy!Change
    <2>3. QED
      BY <2>2 DEF Policy!Next
  <1>4. ASSUME NEW i \in Ifs, SetDown(i) PROVE Policy!Next
    <2>1. known = Ifs /\ known' = known /\ weights' = weights
      BY <1>4 DEF SetDown, Change, NotifyInterfaceDown, IInv, StatesMirrorStack
    <2>2. Policy!SetState(i, FALSE)
      BY <1>4, <2>1 DEF SetDown, Change, Policy!SetState, Policy!Change, KnownWeight
    <2>3. QED
      BY <2>2 DEF Policy!Next
  <1>5. ASSUME NEW i \in Ifs, NEW l \in Levels, NEW w \in WeightValues,
               SetInterfaceWeight(i, l, w)
        PROVE  Policy!Next
    <2>1. known = Ifs /\ known' = known
      BY <1>5 DEF SetInterfaceWeight, Change, stackVars, IInv, StatesMirrorStack
    <2>2. KnownWeight = weights /\ KnownWeight' = weights'
      <3>1. weights \in [Ifs -> [Levels -> Nat]] /\ weights' = [weights EXCEPT ![i][l] = w]
        BY <1>5 DEF IInv, MapsTyped, SetInterfaceWeight
      <3>2. KnownWeight = [j \in Ifs |-> weights[j]] /\ KnownWeight' = [j \in Ifs |-> weights'[j]]
        BY <2>1 DEF KnownWeight
      <3>3. QED
        BY <3>1, <3>2
    <2>3. Policy!SetInterfaceWeight(i, l, w)
      BY <1>5, <2>2 DEF SetInterfaceWeight, stackVars, Change,
                        Policy!SetInterfaceWeight, Policy!Change
    <2>4. QED
      BY <2>3 DEF Policy!Next
  <1>6. ASSUME NEW i \in Ifs, NEW l \in Levels, NEW h \in Hashes, RouteInput(l, h, i)
        PROVE  Policy!Next
    BY <1>6, RouteInputRefines DEF Policy!Next
  <1>7. CASE UNCHANGED vars
    BY <1>7 DEF vars, stackVars, KnownWeight
  <1>8. QED
    BY <1>1, <1>2, <1>3, <1>4, <1>5, <1>6, <1>7 DEF Next

(* The router without its cache implements the policy: it answers every    *)
(* lookup from the interfaces that are up and the weights last set, for    *)
(* every rule TotalWeight and Pick by which weights share out hashes.      *)
THEOREM KeepsPolicyCorrect ==
    Spec => KeepsPolicy
  <1>1. Init => (~useCache => Policy!Init)
    BY DEF Init, Policy!Init, KnownWeight
  <1>2. IInv /\ [Next]_vars => [~useCache => Policy!Next]_(Policy!policyVars)
    BY NextRefines
  <1>3. QED
    BY InitInv, NextInv, <1>1, <1>2, PTL DEF Spec, KeepsPolicy

---------------------------------------------------------------------------
(* The cache.                                                              *)

(* Nothing is cached where there is no cache, and nothing has been looked  *)
(* up before the switch has its routes.                                    *)
CacheInv ==
    /\ DOMAIN cache = Hashes /\ cache = [h \in Hashes |-> cache[h]]
    /\ ~useCache => \A h \in Hashes : cache[h] = NoRoute
    /\ stage = "wiring" => answer = NoAnswer

LEMMA InitCacheInv == Init => CacheInv
  BY DEF Init, CacheInv

(* A lookup of the same hash is answered from the cache, another one adds  *)
(* its own entry only.                                                     *)
LEMMA RouteInputKeepsEntry ==
    ASSUME CacheInv, NEW l \in Levels, NEW hash \in Hashes, NEW i \in Ifs,
           RouteInput(l, hash, i), NEW h \in Hashes, cache[h] # NoRoute
    PROVE  /\ cache'[h] = cache[h]
           /\ answer'.hash = h => answer'.outcome = cache[h]
  <1>1. useCache
    BY DEF CacheInv
  <1>2. CASE h = hash
    <2>1. Cached(hash)
      BY <1>1, <1>2 DEF Cached
    <2>2. Reply(l, hash, i, cache[hash]) /\ UNCHANGED cache
      BY <2>1 DEF RouteInput, LookupWcmp
    <2>3. QED
      BY <1>2, <2>2 DEF Reply
  <1>3. CASE h # hash
    <2>1. \E outcome : Reply(l, hash, i, outcome)
      BY DEF RouteInput, LookupWcmp
    <2>2. answer'.hash = hash
      BY <2>1 DEF Reply
    <2>3. \/ UNCHANGED cache
          \/ \E chosen : cache' = [cache EXCEPT ![hash] = chosen]
      BY DEF RouteInput, LookupWcmp, UpdateCache
    <2>4. cache'[h] = cache[h]
      BY <1>3, <2>3 DEF CacheInv
    <2>5. QED
      BY <1>3, <2>2, <2>4
  <1>4. QED
    BY <1>2, <1>3

LEMMA RouteInputKeepsCacheInv ==
    ASSUME CacheInv, UNCHANGED useCache,
           NEW l \in Levels, NEW hash \in Hashes, NEW i \in Ifs, RouteInput(l, hash, i)
    PROVE  CacheInv'
  <1>1. stage' # "wiring"
    BY DEF RouteInput, LookupWcmp
  <1>2. \/ UNCHANGED cache
        \/ useCache /\ \E chosen : cache' = [cache EXCEPT ![hash] = chosen]
    BY DEF RouteInput, LookupWcmp, UpdateCache
  <1>3. QED
    BY <1>1, <1>2 DEF CacheInv

(* Every step but a lookup leaves the cache alone and answers nothing.     *)
LEMMA OtherStepsKeepCache ==
    ASSUME CacheInv,
           \/ InstallRoutes
           \/ \E i \in Ifs : Connect(i) \/ SetUp(i) \/ SetDown(i)
           \/ \E i \in Ifs, l \in Levels, w \in WeightValues : SetInterfaceWeight(i, l, w)
    PROVE  UNCHANGED cache /\ answer' = NoAnswer
  BY DEF CacheInv, InstallRoutes, Connect, SetUp, SetDown, SetInterfaceWeight, Change

(* A flow that is cached never changes its way: neither a notification nor *)
(* a weight update reaches its hash, and no lookup answers it otherwise.   *)
THEOREM CachedFlowNeverMovesCorrect == Spec => CachedFlowNeverMoves
  <1> DEFINE Step ==
        \A h \in Hashes : cache[h] # NoRoute =>
            /\ cache'[h] = cache[h]
            /\ answer'.outcome \in Ifs /\ answer'.hash = h => answer'.outcome = cache[h]
  <1>1. NoAnswer.outcome \notin Ifs
    BY IfsAssumption DEF NoAnswer, NoRoute, Ifs
  <1>2. CacheInv /\ [Next]_vars => CacheInv' /\ [Step]_vars
    <2> SUFFICES ASSUME CacheInv, [Next]_vars PROVE CacheInv' /\ [Step]_vars
      OBVIOUS
    <2>1. ASSUME UNCHANGED <<useCache, cache>>, answer' = NoAnswer PROVE CacheInv' /\ Step
      BY <1>1, <2>1 DEF CacheInv
    <2>2. ASSUME UNCHANGED useCache,
                 NEW l \in Levels, NEW h \in Hashes, NEW i \in Ifs, RouteInput(l, h, i)
          PROVE  CacheInv' /\ Step
      BY <2>2, RouteInputKeepsEntry, RouteInputKeepsCacheInv
    <2>3. CASE Next
      BY <2>1, <2>2, <2>3, OtherStepsKeepCache DEF Next
    <2>4. CASE UNCHANGED vars
      BY <2>4 DEF vars, CacheInv
    <2>5. QED
      BY <2>3, <2>4
  <1>3. QED
    BY InitCacheInv, <1>2, PTL DEF Spec, CachedFlowNeverMoves

===========================================================================
