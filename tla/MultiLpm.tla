----------------------------- MODULE MultiLpm -----------------------------
(***************************************************************************)
(* WcmpStaticRouting::MultiLpm (src/wcmp/model/wcmp-static-routing.cc):    *)
(* one pass over the list of network routes that collects all the routes   *)
(* with the longest matching prefix and, among these, the smallest metric. *)
(* A route is reduced to what the pass looks at: whether the destination   *)
(* matches, the length of the prefix, the metric.  One action is one       *)
(* iteration of the loop.                                                  *)
(***************************************************************************)
EXTENDS Integers, Sequences

CONSTANTS
    PrefixLengths,  \* lengths of the prefixes in the table
    Metrics,        \* metrics of the routes (1 and 10 in scratch/swarm)
    NoMetric,       \* 0xffffffff, the metric that stands for "none seen yet"
    MaxRoutes       \* bound on the length of the table

ASSUME PrefixAssumption == PrefixLengths \subseteq Nat
ASSUME MetricAssumption ==
    /\ NoMetric \in Nat
    /\ Metrics \subseteq Nat
    /\ \A m \in Metrics : m < NoMetric
ASSUME RoutesAssumption == MaxRoutes \in Nat

Route == [match : BOOLEAN, len : PrefixLengths, metric : Metrics]
Tables == UNION {[1 .. n -> Route] : n \in 0 .. MaxRoutes}

VARIABLES
    table,      \* m_networkRoutes
    next,       \* the loop's position
    longest,    \* longest_mask
    shortest,   \* shortest_metric
    entries     \* the collected entries, as positions in the table

lpmVars == <<table, next, longest, shortest, entries>>

Rows == 1 .. Len(table)

LpmTypeOK ==
    /\ table \in Tables
    /\ next \in 1 .. Len(table) + 1
    /\ longest \in Nat
    /\ shortest \in Nat
    /\ entries \in Seq(Rows)

LpmInit ==
    /\ table \in Tables
    /\ next = 1
    /\ longest = 0
    /\ shortest = NoMetric
    /\ entries = <<>>

---------------------------------------------------------------------------
(* Mutant: a longer prefix does not forget the metric of the shorter one.  *)
MetricToBeatKept(route) == shortest

(* A longer prefix than any before forgets the metric collected so far.    *)
MetricToBeat(route) == IF route.len > longest THEN NoMetric ELSE shortest

Skip == UNCHANGED <<longest, shortest, entries>>

(* Mutant: an equal-cost route is put before the others.                   *)
CollectInFront(route) ==
    /\ longest' = route.len
    /\ \/ /\ route.metric > MetricToBeat(route)
          /\ shortest' = MetricToBeat(route)
          /\ UNCHANGED entries
       \/ /\ route.metric <= MetricToBeat(route)
          /\ shortest' = route.metric
          /\ entries' = IF route.metric < MetricToBeat(route) THEN <<next>>
                        ELSE <<next>> \o entries

(* A route that matches with a prefix at least as long.                    *)
Collect(route) ==
    /\ longest' = route.len
    /\ \/ /\ route.metric > MetricToBeat(route)
          /\ shortest' = MetricToBeat(route)
          /\ UNCHANGED entries
       \/ /\ route.metric < MetricToBeat(route)
          /\ shortest' = route.metric
          /\ entries' = <<next>>
       \/ /\ route.metric = MetricToBeat(route)
          /\ shortest' = route.metric
          /\ entries' = Append(entries, next)

Scan ==
    /\ next \in Rows
    /\ next' = next + 1
    /\ UNCHANGED table
    /\ LET route == table[next] IN
        \/ ~route.match /\ Skip
        \/ route.match /\ route.len < longest /\ Skip
        \/ route.match /\ route.len >= longest /\ Collect(route)

LpmNext == Scan

LpmSpec == LpmInit /\ [][LpmNext]_lpmVars

---------------------------------------------------------------------------
(* Properties.                                                             *)

(* Route k is at least as good as route m for the destination.             *)
AsGood(k, m) ==
    \/ table[k].len > table[m].len
    \/ table[k].len = table[m].len /\ table[k].metric <= table[m].metric

(* The rows below n that match best.                                       *)
Best(n) ==
    {k \in 1 .. n - 1 : /\ table[k].match
                        /\ \A m \in 1 .. n - 1 : table[m].match => AsGood(k, m)}

Collected == {entries[x] : x \in 1 .. Len(entries)}

(* The pass has collected exactly the equal-cost best routes of the rows   *)
(* it has seen, whatever their order in the list.                          *)
CollectsTheBest == Collected = Best(next)

(* Each of them once, and in the order of the table: that is the order in  *)
(* which choose() adds up the weights, so the same table always maps a     *)
(* hash to the same entry.                                                 *)
InTableOrder == \A x, y \in 1 .. Len(entries) : x < y => entries[x] < entries[y]

===========================================================================
