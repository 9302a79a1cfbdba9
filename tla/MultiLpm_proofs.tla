------------------------- MODULE MultiLpm_proofs -------------------------
(***************************************************************************)
(* The single pass of MultiLpm collects exactly the equal-cost best routes *)
(* of a table of any length, whatever the order of its routes.             *)
(***************************************************************************)
EXTENDS MultiLpm, TLAPS

LEMMA InitTypeOK == LpmInit => LpmTypeOK
  BY MetricAssumption DEF LpmInit, LpmTypeOK, Rows, Tables

LEMMA TableRows ==
    ASSUME table \in Tables
    PROVE  /\ Len(table) \in Nat
           /\ \A k \in Rows : table[k] \in Route
           /\ \A k \in Rows : /\ table[k].len \in Nat /\ table[k].metric \in Nat
                              /\ table[k].metric < NoMetric
                              /\ table[k].match \in BOOLEAN
  <1>1. PICK n \in 0 .. MaxRoutes : table \in [1 .. n -> Route]
    BY DEF Tables
  <1>2. Len(table) = n /\ n \in Nat
    BY <1>1, RoutesAssumption
  <1>3. \A k \in Rows : table[k] \in Route
    BY <1>1, <1>2 DEF Rows
  <1>4. \A r \in Route : /\ r.len \in Nat /\ r.metric \in Nat /\ r.metric < NoMetric
                         /\ r.match \in BOOLEAN
    BY PrefixAssumption, MetricAssumption DEF Route
  <1>5. QED
    BY <1>2, <1>3, <1>4

LEMMA NextTypeOK == LpmTypeOK /\ [LpmNext]_lpmVars => LpmTypeOK'
  <1> SUFFICES ASSUME LpmTypeOK, [LpmNext]_lpmVars PROVE LpmTypeOK'
    OBVIOUS
  <1>1. CASE Scan
    <2> DEFINE route == table[next]
    <2>1. /\ Len(table) \in Nat /\ next \in Rows /\ next \in 1 .. Len(table)
          /\ route.len \in Nat /\ route.metric \in Nat
      BY <1>1, TableRows DEF Scan, LpmTypeOK, Rows
    <2>2. table' = table /\ Rows' = Rows /\ next' \in 1 .. Len(table) + 1
      BY <1>1, <2>1 DEF Scan, Rows
    <2>3. MetricToBeat(route) \in Nat
      BY MetricAssumption DEF MetricToBeat, LpmTypeOK
    <2> HIDE DEF route
    <2>4. ASSUME Collect(route)
          PROVE  longest' \in Nat /\ shortest' \in Nat /\ entries' \in Seq(Rows)
      <3>1. <<next>> \in Seq(Rows) /\ Append(entries, next) \in Seq(Rows)
        BY <2>1 DEF LpmTypeOK
      <3>2. entries' \in {entries, <<next>>, Append(entries, next)}
        BY <2>4 DEF Collect
      <3>3. entries' \in Seq(Rows)
        BY <3>1, <3>2 DEF LpmTypeOK
      <3>4. longest' \in Nat /\ shortest' \in Nat
        BY <2>1, <2>3, <2>4 DEF Collect
      <3>5. QED
        BY <3>3, <3>4
    <2>5. longest' \in Nat /\ shortest' \in Nat /\ entries' \in Seq(Rows)
      BY <1>1, <2>4 DEF Scan, Skip, LpmTypeOK, route
    <2>6. QED
      BY <2>2, <2>5 DEF LpmTypeOK
  <1>2. CASE UNCHANGED lpmVars
    BY <1>2 DEF lpmVars, LpmTypeOK, Rows
  <1>3. QED
    BY <1>1, <1>2 DEF LpmNext

(* The state of the pass keeps its type.                                   *)
THEOREM LpmTypeCorrect == LpmSpec => []LpmTypeOK
  BY InitTypeOK, NextTypeOK, PTL DEF LpmSpec

---------------------------------------------------------------------------
(* The loop's invariant: among the rows seen, longest bounds the prefixes, *)
(* shortest bounds the metrics of the longest ones, and the rows that meet *)
(* both bounds are collected.  Nothing is collected only as long as        *)
(* nothing has matched.                                                    *)
Seen == 1 .. next - 1

Bounds ==
    \A k \in Seen : table[k].match =>
        /\ table[k].len <= longest
        /\ table[k].len = longest => shortest <= table[k].metric

Hits == {k \in Seen : /\ table[k].match
                      /\ table[k].len = longest /\ table[k].metric = shortest}

NothingYet ==
    \/ /\ entries = <<>> /\ shortest = NoMetric /\ longest = 0
       /\ \A k \in Seen : ~table[k].match
    \/ entries # <<>> /\ shortest < NoMetric

LoopInv == Bounds /\ Collected = Hits /\ NothingYet

LEMMA InitLoopInv == LpmInit => LoopInv /\ InTableOrder
  BY DEF LpmInit, LoopInv, Bounds, Collected, Hits, NothingYet, InTableOrder, Seen

LEMMA CollectedOf ==
    ASSUME NEW n
    PROVE  {<<n>>[x] : x \in 1 .. Len(<<n>>)} = {n}
  OBVIOUS

LEMMA CollectedOfAppend ==
    ASSUME NEW S, NEW s \in Seq(S), NEW n \in S
    PROVE  {Append(s, n)[x] : x \in 1 .. Len(Append(s, n))}
           = {s[x] : x \in 1 .. Len(s)} \cup {n}
  <1> DEFINE t == Append(s, n)
  <1>1. /\ Len(s) \in Nat /\ Len(t) = Len(s) + 1
        /\ t[Len(s) + 1] = n
        /\ \A x \in 1 .. Len(s) : t[x] = s[x]
    OBVIOUS
  <1> HIDE DEF t
  <1>2. 1 .. Len(t) = (1 .. Len(s)) \cup {Len(s) + 1}
    BY <1>1
  <1>3. {t[x] : x \in 1 .. Len(t)} = {s[x] : x \in 1 .. Len(s)} \cup {n}
    BY <1>1, <1>2
  <1>4. QED
    BY <1>3 DEF t

LEMMA ScanKeepsLoopInv ==
    ASSUME LpmTypeOK, LoopInv, Scan
    PROVE  LoopInv'
  <1> DEFINE route == table[next]
  <1>1. /\ next \in Rows /\ next \in Nat /\ next >= 1 /\ Len(table) \in Nat
        /\ longest \in Nat /\ shortest \in Nat /\ entries \in Seq(Rows)
    BY TableRows DEF Scan, LpmTypeOK, Rows
  <1>2. table' = table /\ next' = next + 1
    BY DEF Scan
  <1>3. Seen' = Seen \cup {next} /\ next \notin Seen
    BY <1>1, <1>2 DEF Seen
  <1>4. \A k \in Seen \cup {next} : /\ table[k].len \in Nat /\ table[k].metric \in Nat
                                    /\ table[k].metric < NoMetric /\ NoMetric \in Nat
    BY <1>1, TableRows, MetricAssumption DEF Seen, Rows, LpmTypeOK
  <1>5. CASE Skip /\ (~route.match \/ route.len < longest)
    <2>1. longest' = longest /\ shortest' = shortest /\ entries' = entries
      BY <1>5 DEF Skip
    <2>2. Bounds'
      BY <1>1, <1>2, <1>3, <1>4, <1>5, <2>1 DEF LoopInv, Bounds
    <2>3. Hits' = Hits
      BY <1>1, <1>2, <1>3, <1>4, <1>5, <2>1 DEF Hits
    <2>4. NothingYet'
      BY <1>1, <1>2, <1>3, <1>4, <1>5, <2>1 DEF LoopInv, Bounds, NothingYet
    <2>5. QED
      BY <2>1, <2>2, <2>3, <2>4 DEF LoopInv, Collected
  <1>6. CASE /\ route.match /\ route.len >= longest /\ Collect(route)
             /\ route.metric < MetricToBeat(route)
    <2>1. longest' = route.len /\ shortest' = route.metric /\ entries' = <<next>>
      BY <1>1, <1>4, <1>6, MetricAssumption DEF Collect, MetricToBeat
    <2>2. \A k \in Seen : table[k].match =>
            \/ table[k].len < route.len
            \/ table[k].len = route.len /\ route.metric < table[k].metric
      <3>1. CASE route.len > longest
        BY <1>1, <1>4, <3>1 DEF LoopInv, Bounds
      <3>2. CASE route.len = longest
        <4>1. route.metric < shortest
          BY <1>1, <1>6, <3>2 DEF MetricToBeat
        <4>2. QED
          BY <1>1, <1>4, <3>2, <4>1 DEF LoopInv, Bounds
      <3>3. QED
        BY <1>1, <1>4, <1>6, <3>1, <3>2
    <2>3. Bounds'
      BY <1>2, <1>3, <1>4, <2>1, <2>2 DEF Bounds
    <2>4. Hits' = {next}
      BY <1>2, <1>3, <1>4, <1>6, <2>1, <2>2 DEF Hits
    <2>5. Collected' = {next}
      BY <2>1, CollectedOf DEF Collected
    <2>6. NothingYet'
      BY <1>4, <2>1 DEF NothingYet
    <2>7. QED
      BY <2>3, <2>4, <2>5, <2>6 DEF LoopInv
  <1>7. CASE /\ route.match /\ route.len >= longest /\ Collect(route)
             /\ ~(route.metric < MetricToBeat(route))
    <2>1. route.len = longest /\ MetricToBeat(route) = shortest /\ longest' = longest
          /\ shortest' = shortest /\ shortest <= route.metric
      BY <1>1, <1>4, <1>7 DEF Collect, MetricToBeat
    <2>2. entries # <<>> /\ shortest < NoMetric
      BY <1>1, <1>4, <2>1 DEF LoopInv, NothingYet
    <2>3. Bounds'
      BY <1>1, <1>2, <1>3, <1>4, <2>1 DEF LoopInv, Bounds
    <2>4. CASE route.metric > shortest
      <3>1. entries' = entries
        BY <1>1, <1>4, <1>7, <2>1, <2>4 DEF Collect
      <3>2. Hits' = Hits
        BY <1>1, <1>2, <1>3, <1>4, <2>1, <2>4 DEF Hits
      <3>3. QED
        BY <2>1, <2>2, <2>3, <3>1, <3>2 DEF LoopInv, Collected, NothingYet
    <2>5. CASE route.metric = shortest
      <3>1. entries' = Append(entries, next)
        BY <1>1, <1>4, <1>7, <2>1, <2>5 DEF Collect
      <3>2. Hits' = Hits \cup {next}
        BY <1>1, <1>2, <1>3, <1>4, <1>7, <2>1, <2>5 DEF Hits
      <3>3. Collected' = Collected \cup {next}
        BY <1>1, <3>1, CollectedOfAppend DEF Collected
      <3>4. entries' # <<>>
        BY <1>1, <3>1
      <3>5. QED
        BY <2>1, <2>2, <2>3, <3>2, <3>3, <3>4 DEF LoopInv, NothingYet
    <2>6. QED
      BY <1>1, <1>4, <2>1, <2>4, <2>5
  <1>8. \/ Skip /\ (~route.match \/ route.len < longest)
        \/ route.match /\ route.len >= longest /\ Collect(route)
    BY DEF Scan
  <1>9. QED
    BY <1>5, <1>6, <1>7, <1>8

LEMMA ScanKeepsOrder ==
    ASSUME LpmTypeOK, LoopInv, InTableOrder, Scan
    PROVE  InTableOrder'
  <1>1. next \in Rows /\ next \in Nat /\ entries \in Seq(Rows)
    BY TableRows DEF Scan, LpmTypeOK, Rows
  <1>2. entries' \in {entries, <<next>>, Append(entries, next)}
    BY DEF Scan, Skip, Collect
  <1>3. CASE entries' = entries
    BY <1>3 DEF InTableOrder
  <1>4. CASE entries' = <<next>>
    BY <1>4 DEF InTableOrder
  <1>5. CASE entries' = Append(entries, next)
    <2>1. \A x \in 1 .. Len(entries) : entries[x] < next
      <3>1. \A x \in 1 .. Len(entries) : entries[x] \in Seen
        BY DEF LoopInv, Collected, Hits
      <3>2. QED
        BY <1>1, <3>1 DEF Seen
    <2>2. /\ Len(entries) \in Nat /\ Len(entries') = Len(entries) + 1
          /\ entries'[Len(entries) + 1] = next
          /\ \A x \in 1 .. Len(entries) : entries'[x] = entries[x]
      BY <1>1, <1>5
    <2>3. QED
      BY <2>1, <2>2 DEF InTableOrder
  <1>6. QED
    BY <1>2, <1>3, <1>4, <1>5

(* What the bounds say of the rows seen, the definition of Best asks.      *)
LEMMA LoopInvCollectsTheBest ==
    ASSUME LpmTypeOK, LoopInv
    PROVE  CollectsTheBest
  <1>1. next \in Nat /\ longest \in Nat /\ shortest \in Nat
    BY TableRows DEF LpmTypeOK
  <1>2. \A k \in Seen : table[k].len \in Nat /\ table[k].metric \in Nat
    BY TableRows DEF LpmTypeOK, Seen, Rows
  <1>3. CASE entries = <<>>
    <2>1. \A k \in Seen : ~table[k].match
      BY <1>3 DEF LoopInv, NothingYet
    <2>2. Best(next) = {}
      BY <2>1 DEF Best, Seen
    <2>3. Collected = {}
      BY <2>1 DEF LoopInv, Hits
    <2>4. QED
      BY <2>2, <2>3 DEF CollectsTheBest
  <1>4. CASE entries # <<>>
    <2>1. PICK b \in Hits : TRUE
      <3>1. Len(entries) >= 1 /\ Len(entries) \in Nat
        BY <1>4 DEF LpmTypeOK
      <3>2. entries[1] \in Collected
        BY <3>1 DEF Collected
      <3>3. QED
        BY <3>2 DEF LoopInv
    <2>2. b \in Seen /\ table[b].match /\ table[b].len = longest /\ table[b].metric = shortest
      BY <2>1 DEF Hits
    <2>3. ASSUME NEW k \in Hits PROVE k \in Best(next)
      BY <1>1, <1>2, <2>3 DEF Hits, Best, Seen, AsGood, LoopInv, Bounds
    <2>4. ASSUME NEW k \in Best(next) PROVE k \in Hits
      <3>1. k \in Seen /\ table[k].match /\ AsGood(k, b)
        BY <2>2, <2>4 DEF Best, Seen
      <3>2. QED
        BY <1>1, <1>2, <2>2, <3>1 DEF Hits, AsGood, LoopInv, Bounds
    <2>5. QED
      BY <2>3, <2>4 DEF CollectsTheBest, LoopInv
  <1>5. QED
    BY <1>3, <1>4

LEMMA NextLoopInv ==
    LpmTypeOK /\ LoopInv /\ InTableOrder /\ [LpmNext]_lpmVars => LoopInv' /\ InTableOrder'
  <1> SUFFICES ASSUME LpmTypeOK, LoopInv, InTableOrder, [LpmNext]_lpmVars
               PROVE  LoopInv' /\ InTableOrder'
    OBVIOUS
  <1>1. CASE Scan
    BY <1>1, ScanKeepsLoopInv, ScanKeepsOrder
  <1>2. CASE UNCHANGED lpmVars
    BY <1>2 DEF lpmVars, LoopInv, Bounds, Hits, Collected, NothingYet, Seen, InTableOrder
  <1>3. QED
    BY <1>1, <1>2 DEF LpmNext

(* MultiLpm returns the equal-cost best routes, all of them and nothing    *)
(* else, for tables of any length.                                         *)
THEOREM LpmCollectsTheBestCorrect == LpmSpec => []CollectsTheBest
  BY InitTypeOK, NextTypeOK, InitLoopInv, NextLoopInv, LoopInvCollectsTheBest, PTL
     DEF LpmSpec

(* ... in the order of the table.                                          *)
THEOREM LpmInTableOrderCorrect == LpmSpec => []InTableOrder
  BY InitTypeOK, NextTypeOK, InitLoopInv, NextLoopInv, PTL DEF LpmSpec

===========================================================================
