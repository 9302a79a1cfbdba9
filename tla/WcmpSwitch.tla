--------------------------- MODULE WcmpSwitch ----------------------------
(***************************************************************************)
(* What is fixed of the WCMP stack of one edge or aggregate: its           *)
(* interfaces, and the WCMP routes that doEcmp and                         *)
(* enableAggregateBackupPaths give it (scratch/swarm/swarm.cc).            *)
(***************************************************************************)
EXTENDS WeightShare

CONSTANTS
    NumIfs,     \* interfaces of the switch, the loopback not counted
    Uplinks,    \* those with a wildcard route
    Backups,    \* those with a backup route to the switch's own pod
    Levels,     \* levels, that is destination ToRs
    OwnLevels,  \* the levels of the ToRs of the switch's own pod
    WeightValues,   \* weights that SetInterfaceWeight is given
    Hashes,     \* hash values of packets
    MaxEvents   \* bound on interface changes and weight updates

Ifs == 1 .. NumIfs

ASSUME IfsAssumption == NumIfs \in Nat \ {0}
ASSUME RoutesAssumption == Uplinks \subseteq Ifs /\ Backups \subseteq Ifs
ASSUME LevelsAssumption == OwnLevels \subseteq Levels
ASSUME WeightAssumption == WeightValues \subseteq Nat
ASSUME HashAssumption == Hashes \subseteq Nat
ASSUME EventsAssumption == MaxEvents \in Nat

DefaultWeight == 100        \* DEFAULT_WCMP_WEIGHT

NoRoute == 0        \* an answer without an entry (nullptr)
Aborted == -1       \* NS_ABORT_IF in choose()

(* The answer of a step that was no lookup.                                *)
NoAnswer == [outcome |-> NoRoute]

===========================================================================
