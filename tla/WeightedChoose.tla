-------------------------- MODULE WeightedChoose --------------------------
(***************************************************************************)
(* WcmpWeights::choose (src/wcmp/model/wcmp-weights.cc): given the         *)
(* equal-cost entries of a destination, the state of their interfaces and  *)
(* their weights at the destination's level, the hash of the packet picks  *)
(* one entry.  A first loop builds the cumulative weights of the entries   *)
(* that are up; a second one looks for the first that exceeds the hash     *)
(* modulo the total.  One action is one iteration, or the code between the *)
(* loops.                                                                  *)
(***************************************************************************)
EXTENDS WeightShare, Sequences

CONSTANTS
    MaxEntries,     \* bound on the number of equal-cost entries
    WeightValues,   \* weights of the entries
    Hashes          \* hash values

ASSUME EntriesAssumption == MaxEntries \in Nat
ASSUME WeightAssumption == WeightValues \subseteq Nat
ASSUME HashAssumption == Hashes \subseteq Nat

VARIABLES
    isUp,       \* states of the entries' interfaces, in the order given
    weight,     \* weights of the entries
    hash,       \* hash_val
    pc,         \* "sum", "decide", "pick" or "done"
    pos,        \* position of the running loop
    sum,        \* total weight of the entries that are up
    upEntries,  \* entries that are up, each with the total up to it
    result      \* the entry returned, or what happened instead

chooseVars == <<isUp, weight, hash, pc, pos, sum, upEntries, result>>

Entries == DOMAIN weight
NoEntry == 0        \* nullptr
Aborted == -1       \* NS_ABORT_IF
Pending == -2

ChooseInit ==
    /\ \E n \in 0 .. MaxEntries :
        /\ isUp \in [1 .. n -> BOOLEAN]
        /\ weight \in [1 .. n -> WeightValues]
    /\ hash \in Hashes
    /\ pc = "sum"
    /\ pos = 1
    /\ sum = 0
    /\ upEntries = <<>>
    /\ result = Pending

---------------------------------------------------------------------------
Return(what) ==
    /\ result' = what
    /\ pc' = "done"
    /\ UNCHANGED <<pos, sum, upEntries>>

AddUpEntry ==
    /\ sum' = sum + weight[pos]
    /\ upEntries' = Append(upEntries, [entry |-> pos, upTo |-> sum + weight[pos]])

SumLoop ==
    /\ pc = "sum"
    /\ \/ /\ pos \in Entries
          /\ pos' = pos + 1
          /\ \/ isUp[pos] /\ AddUpEntry
             \/ ~isUp[pos] /\ UNCHANGED <<sum, upEntries>>
          /\ UNCHANGED <<pc, result>>
       \/ /\ pos \notin Entries
          /\ pc' = "decide"
          /\ UNCHANGED <<pos, sum, upEntries, result>>

(* The abort comes first, so the return of no entry is never taken.        *)
Decide ==
    /\ pc = "decide"
    /\ \/ sum = 0 /\ Return(Aborted)
       \/ /\ sum # 0 /\ Len(upEntries) <= 1
          /\ Return(IF upEntries = <<>> THEN NoEntry ELSE upEntries[1].entry)
       \/ /\ sum # 0 /\ Len(upEntries) > 1
          /\ pc' = "pick" /\ pos' = 1
          /\ UNCHANGED <<sum, upEntries, result>>

(* Mutant: the hash is not reduced.                                        *)
ResidueNone == hash

Below(r, total) == r < total
Residue == hash % sum

(* Past the end of the list, the code falls back to the last entry.        *)
Found == pos <= Len(upEntries) => Below(Residue, upEntries[pos].upTo)

PickLoop ==
    /\ pc = "pick"
    /\ \/ /\ Found
          /\ Return(upEntries[IF pos > Len(upEntries) THEN Len(upEntries) ELSE pos].entry)
       \/ /\ ~Found
          /\ pos' = pos + 1
          /\ UNCHANGED <<pc, sum, upEntries, result>>

ChooseNext == (SumLoop \/ Decide \/ PickLoop) /\ UNCHANGED <<isUp, weight, hash>>

ChooseSpec == ChooseInit /\ [][ChooseNext]_chooseVars

---------------------------------------------------------------------------
(* Properties.                                                             *)

(* An entry that is returned is on an interface that is up and has a       *)
(* weight: a weight of zero takes an uplink out of use, which is what the  *)
(* mitigation of a failed link relies on.                                  *)
ChosenIsUsable == result \in Entries => isUp[result] /\ weight[result] > 0

(* The simulation is aborted exactly when no entry is usable.              *)
AbortsOnlyWithoutUsable ==
    pc = "done" =>
        (result = Aborted <=> \A x \in Entries : ~isUp[x] \/ weight[x] = 0)

(* The two loops compute Pick: every usable entry is chosen for exactly    *)
(* as many residues of the hash as its weight says.                        *)
ExactShare ==
    result \in Entries => result = Pick({x \in Entries : isUp[x]}, weight, hash)

===========================================================================
