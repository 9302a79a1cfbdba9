--------------------------- MODULE FlowPromise ----------------------------
(***************************************************************************)
(* What a run promises for the flows that its flow file announces: each of *)
(* them is started once, by one host, and is completely sent in the end,   *)
(* unless the run is over before.                                          *)
(***************************************************************************)
EXTENDS Integers

CONSTANT MaxNumber      \* bound on the number of flows announced

VARIABLES waiting, active, finished, over

promiseVars == <<waiting, active, finished, over>>

Init ==
    /\ \E n \in 0 .. MaxNumber : waiting = 1 .. n
    /\ active = {} /\ finished = {}
    /\ over = FALSE

Start(started) ==
    /\ ~over
    /\ started \subseteq waiting
    /\ waiting' = waiting \ started
    /\ active' = active \cup started
    /\ UNCHANGED finished

Finish(n) ==
    /\ ~over
    /\ n \in active
    /\ active' = active \ {n}
    /\ finished' = finished \cup {n}
    /\ UNCHANGED <<waiting, over>>

Next ==
    \/ \E started \in SUBSET waiting : Start(started) /\ over' \in BOOLEAN
    \/ \E n \in active : Finish(n)

AllSent == waiting = {} /\ active = {}

Spec == Init /\ [][Next]_promiseVars /\ <>(over \/ AllSent)
===========================================================================
