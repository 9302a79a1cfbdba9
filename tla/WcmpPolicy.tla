--------------------------- MODULE WcmpPolicy ----------------------------
(***************************************************************************)
(* What a WCMP stack promises, without the copies of state it keeps: every *)
(* lookup is answered from the interfaces that are up now and the weights  *)
(* last set.  How the weights share out the hash values is a parameter.    *)
(***************************************************************************)
EXTENDS Integers

CONSTANTS
    Ifs, Uplinks, Backups, Levels, OwnLevels, WeightValues, Hashes, MaxEvents,
    DefaultWeight, NoRoute, Aborted, NoAnswer,  \* as in WcmpSwitch
    TotalWeight(_, _),  \* the sum of the weights of some interfaces
    Pick(_, _, _)       \* the interface among these for a hash

VARIABLES
    stage,      \* "wiring", "running" or "aborted"
    up,         \* is the interface up?
    weight,     \* weight of every interface at every level
    events,     \* number of changes so far
    answer      \* what the last step answered, if it was a lookup

policyVars == <<stage, up, weight, events, answer>>

(* The interfaces of the routes with the longest prefix: the backup routes *)
(* are for the own pod, the wildcards for everything.                      *)
Candidates(level) ==
    IF level \in OwnLevels /\ Backups # {} THEN Backups ELSE Uplinks

Init ==
    /\ stage = "wiring"
    /\ up = [i \in Ifs |-> FALSE]
    /\ weight = [i \in Ifs |-> [l \in Levels |-> DefaultWeight]]
    /\ events = 0
    /\ answer = NoAnswer

Connect(i) ==
    /\ stage = "wiring"
    /\ up' = [up EXCEPT ![i] = TRUE]
    /\ UNCHANGED <<stage, weight, events, answer>>

Start ==
    /\ stage = "wiring"
    /\ \A i \in Ifs : up[i]
    /\ stage' = "running"
    /\ UNCHANGED <<up, weight, events, answer>>

Change ==
    /\ stage = "running" /\ events < MaxEvents
    /\ events' = events + 1
    /\ answer' = NoAnswer
    /\ UNCHANGED stage

(* An interface goes down or up: no weight changes.                        *)
SetState(i, state) ==
    /\ Change
    /\ up' = [up EXCEPT ![i] = state]
    /\ UNCHANGED weight

SetInterfaceWeight(i, l, w) ==
    /\ Change
    /\ weight' = [weight EXCEPT ![i][l] = w]
    /\ UNCHANGED up

(* A packet never goes back where it came from; it goes out over an        *)
(* interface that is up, each taking its share of the hash values.  There  *)
(* must be one with a weight.                                              *)
Lookup(level, hash, iif) ==
    LET others == Candidates(level) \ {iif}
        working == {i \in others : up[i]}
        share == [i \in Ifs |-> weight[i][level]]
        Reply(outcome) ==
            answer' = [level |-> level, hash |-> hash, iif |-> iif, outcome |-> outcome]
    IN
    /\ stage = "running" /\ up[iif]
    /\ \/ others = {} /\ Reply(NoRoute) /\ UNCHANGED stage
       \/ /\ others # {} /\ TotalWeight(working, share) = 0
          /\ Reply(Aborted) /\ stage' = "aborted"
       \/ /\ others # {} /\ TotalWeight(working, share) # 0
          /\ Reply(Pick(working, share, hash)) /\ UNCHANGED stage
    /\ UNCHANGED <<up, weight, events>>

Next ==
    \/ Start
    \/ \E i \in Ifs :
        \/ Connect(i)
        \/ \E state \in BOOLEAN : SetState(i, state)
        \/ \E l \in Levels, w \in WeightValues : SetInterfaceWeight(i, l, w)
        \/ \E l \in Levels, h \in Hashes : Lookup(l, h, i)

Spec == Init /\ [][Next]_policyVars

===========================================================================
