---------------------------- MODULE WcmpLookup ----------------------------
(***************************************************************************)
(* One call of WcmpStaticRouting::LookupWcmp without the cache             *)
(* (src/wcmp/model/wcmp-static-routing.cc): the pass of MultiLpm, then the *)
(* routes on the incoming interface are erased, then WcmpWeights::choose   *)
(* picks one of the rest.  doEcmp and enableAggregateBackupPaths add one   *)
(* route per interface, so the row of a route stands for its interface.    *)
(* The states and the weights of the interfaces are read by choose() only, *)
(* and so they are bound when it is called.                                *)
(***************************************************************************)
EXTENDS MultiLpm, WeightedChoose, SequencesExt

ASSUME LookupAssumption == MaxRoutes <= MaxEntries

VARIABLES
    incoming,   \* iif, as a row; 0 is an interface without a WCMP route
    stage,      \* "lpm", "choose" or "noRoute"
    kept        \* entries, when choose() is called

vars == <<lpmVars, chooseVars, incoming, stage, kept>>

Init ==
    /\ LpmInit
    /\ ChooseInit /\ weight = <<>>
    /\ incoming \in 0 .. Len(table)
    /\ stage = "lpm"
    /\ kept = <<>>

---------------------------------------------------------------------------
LpmStep ==
    /\ stage = "lpm"
    /\ Scan
    /\ UNCHANGED <<chooseVars, incoming, stage, kept>>

(* Mutant: nothing is erased.                                              *)
EraseNothing(found) == found

(* std::remove_if over the collected entries, of which at most one is on  *)
(* the incoming interface.                                                 *)
EraseIncoming(found) ==
    IF \E x \in DOMAIN found : found[x] = incoming
    THEN RemoveAt(found, CHOOSE x \in DOMAIN found : found[x] = incoming)
    ELSE found

(* The end of the pass: without an entry, or with the incoming interface's *)
(* only, the lookup fails; otherwise choose() is called.                   *)
CallChoose ==
    /\ stage = "lpm" /\ next \notin Rows
    /\ LET left == EraseIncoming(entries) IN
        \/ /\ left = <<>>
           /\ stage' = "noRoute"
           /\ UNCHANGED <<kept, isUp, weight>>
        \/ /\ left # <<>>
           /\ stage' = "choose"
           /\ kept' = left
           /\ isUp' \in [1 .. Len(left) -> BOOLEAN]
           /\ weight' \in [1 .. Len(left) -> WeightValues]
    /\ UNCHANGED <<lpmVars, incoming, hash, pc, pos, sum, upEntries, result>>

ChooseStep ==
    /\ stage = "choose"
    /\ ChooseNext
    /\ UNCHANGED <<lpmVars, incoming, stage, kept>>

Next == LpmStep \/ CallChoose \/ ChooseStep

Spec == Init /\ [][Next]_vars

---------------------------------------------------------------------------
(* Properties.                                                             *)

(* The rows that could carry the packet on: the best for its destination,  *)
(* without the one it came in by.                                          *)
Onward == Best(Len(table) + 1) \ {incoming}

Usable(x) == isUp[x] /\ weight[x] > 0

(* A lookup that succeeds answers with such a row whose interface is up    *)
(* and has a weight; it fails exactly when there is no such row, whatever  *)
(* is up, aborts exactly when there are some and none is usable, and never *)
(* gets the null that it would dereference.                                *)
LookupIsRight ==
    /\ stage = "noRoute" => Onward = {}
    /\ stage = "choose" => Onward # {} /\ {kept[x] : x \in Entries} = Onward
    /\ result \in Entries => kept[result] \in Onward /\ Usable(result)
    /\ result = Aborted => \A x \in Entries : ~Usable(x)
    /\ result # NoEntry

===========================================================================
