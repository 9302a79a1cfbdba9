------------------------- MODULE ClosSetup_proofs -------------------------
(***************************************************************************)
(* For a fabric of any size and any accepted options: the nodes are on the *)
(* processes that the rest of the code computes, every number computed for *)
(* an interface or a cable is its number, and the routes lead where the    *)
(* cables lead.                                                            *)
(***************************************************************************)
EXTENDS ClosSetup, FiniteSetTheorems, TLAPS

---------------------------------------------------------------------------
(* Division.                                                               *)

LEMMA Sizes ==
    /\ Half \in Nat /\ Half >= 1 /\ SwitchRadix = 2 * Half
    /\ NumPods \in Nat /\ NumPods >= 1
    /\ NumServers \in Nat /\ NumServers >= 1
  BY RadixAssumption, PodsAssumption, ServersAssumption DEF Half

(* A product grows with its factor by at least the other factor.           *)
LEMMA LessByAFactor ==
    ASSUME NEW d \in Nat, NEW x \in Int, NEW y \in Int, x < y
    PROVE  x * d + d <= y * d
  <1>1. PICK k \in Nat : y = x + 1 + k
    <2>1. y - x - 1 \in Nat /\ y = x + 1 + (y - x - 1)
      OBVIOUS
    <2>2. QED
      BY <2>1
  <1>2. y * d = x * d + d + k * d
    BY <1>1
  <1>3. k * d \in Nat /\ x * d \in Int
    OBVIOUS
  <1>4. QED
    BY <1>2, <1>3

LEMMA Quotient ==
    ASSUME NEW n \in Nat, NEW d \in Nat, d >= 1
    PROVE  /\ n \div d \in Nat /\ n % d \in Nat /\ n % d < d
           /\ n = (n \div d) * d + (n % d)
  OBVIOUS

(* The quotient and the remainder are the only ones.                       *)
LEMMA QuotientIs ==
    ASSUME NEW d \in Nat, NEW q \in Nat, NEW r \in Nat, r < d
    PROVE  (q * d + r) \div d = q /\ (q * d + r) % d = r
  <1> DEFINE n == q * d + r
             x == n \div d
             y == n % d
  <1>1. n \in Nat /\ d >= 1
    OBVIOUS
  <1>2. x \in Nat /\ y \in Nat /\ y < d /\ n = x * d + y
    BY <1>1, Quotient
  <1> HIDE DEF x, y
  <1>3. q * d \in Nat /\ x * d \in Nat
    BY <1>2
  <1>4. ~(x < q)
    <2> SUFFICES ASSUME x < q PROVE FALSE
      OBVIOUS
    <2>1. x * d + d <= q * d
      BY <1>2, LessByAFactor
    <2>2. QED
      BY <1>2, <1>3, <2>1
  <1>5. ~(q < x)
    <2> SUFFICES ASSUME q < x PROVE FALSE
      OBVIOUS
    <2>1. q * d + d <= x * d
      BY <1>2, LessByAFactor
    <2>2. QED
      BY <1>2, <1>3, <2>1
  <1>6. x = q
    BY <1>2, <1>4, <1>5
  <1>7. y = r
    BY <1>2, <1>3, <1>6
  <1>8. QED
    BY <1>6, <1>7 DEF x, y

(* A number below a product has a quotient below the other factor.         *)
LEMMA QuotientBelow ==
    ASSUME NEW n \in Nat, NEW d \in Nat, d >= 1, NEW m \in Nat, n < m * d
    PROVE  n \div d < m
  <1> DEFINE q == n \div d
  <1>1. q \in Nat /\ q * d <= n
    <2> DEFINE r == n % d
    <2>1. r \in Nat /\ q \in Nat /\ n = q * d + r
      BY Quotient
    <2> HIDE DEF q, r
    <2>2. q * d \in Nat
      BY <2>1
    <2>3. QED
      BY <2>1, <2>2
  <1> HIDE DEF q
  <1>2. ~(m < q)
    <2> SUFFICES ASSUME m < q PROVE FALSE
      OBVIOUS
    <2>1. m * d + d <= q * d /\ m * d \in Nat /\ q * d \in Nat
      BY <1>1, LessByAFactor
    <2>2. QED
      BY <1>1, <2>1
  <1>3. q # m
    BY <1>1
  <1>4. QED
    BY <1>1, <1>2, <1>3 DEF q

---------------------------------------------------------------------------
(* Flat numbers.                                                           *)

LEMMA FlatNumbers ==
    ASSUME NEW p \in Pods, NEW e \in Idx
    PROVE  /\ FlatIndex(p, e) \in Nat /\ FlatIndex(p, e) < NumTors
           /\ PodAndIndex(FlatIndex(p, e)) = <<p, e>>
           /\ FlatIndex(p, e) = p * Half + e
  <1>1. p \in Nat /\ e \in Nat /\ p < NumPods /\ e < Half
    BY Sizes DEF Pods, Idx
  <1>2. p * Half \in Nat /\ p * Half + Half <= NumPods * Half
    BY <1>1, Sizes, LessByAFactor
  <1>3. (p * Half + e) \div Half = p /\ (p * Half + e) % Half = e
    BY <1>1, Sizes, QuotientIs
  <1>4. NumPods * Half \in Nat
    BY Sizes
  <1>5. QED
    BY <1>1, <1>2, <1>3, <1>4, Sizes DEF FlatIndex, PodAndIndex, NumTors

LEMMA TorNumbers ==
    ASSUME NEW t \in Nat, t < NumTors
    PROVE  /\ PodAndIndex(t) \in Edge
           /\ FlatIndex(PodAndIndex(t)[1], PodAndIndex(t)[2]) = t
  <1>1. t \div Half \in Nat /\ t % Half \in Nat /\ t % Half < Half
        /\ t = (t \div Half) * Half + (t % Half)
    BY Sizes, Quotient
  <1>2. t \div Half < NumPods
    BY Sizes, QuotientBelow DEF NumTors
  <1>3. QED
    BY <1>1, <1>2, Sizes DEF PodAndIndex, FlatIndex, Edge, Pods, Idx

LEMMA CoreNumbers ==
    ASSUME NEW c \in Idx, NEW r \in Idx
    PROVE  /\ CoreIndex(c, r) \in Nat /\ CoreAt(CoreIndex(c, r)) = <<c, r>>
           /\ CoreIndex(c, r) \div Half = r
           /\ CoreIndex(c, r) = r * Half + c
  <1>1. r \in Nat /\ c \in Nat /\ c < Half
    BY Sizes DEF Idx
  <1>2. (r * Half + c) \div Half = r /\ (r * Half + c) % Half = c
    BY <1>1, Sizes, QuotientIs
  <1>3. r * Half \in Nat
    BY <1>1, Sizes
  <1>4. QED
    BY <1>1, <1>2, <1>3, Sizes DEF CoreIndex, CoreAt

---------------------------------------------------------------------------
(* The numbers of the interfaces.  How many iterations of the three nests  *)
(* of loops have passed for one switch tells how many interfaces it has,   *)
(* and so the number of each of them.                                      *)

Limit == IF phase = "server" THEN NumServers ELSE Half

PositionOK ==
    /\ phase \in {"server", "aggEdge", "aggCore", "done"}
    /\ pod \in Nat /\ pod < NumPods
    /\ i \in Nat /\ i < Half
    /\ j \in Nat /\ j < Limit

(* The iterations of the outer loops that are over.                        *)
Passed(p, x) == p < pod \/ (p = pod /\ x < i)

(* Of one switch, the iterations of an innermost loop that are over, when  *)
(* the outer loops name the switch.                                        *)
OfThree(p, x) == IF Passed(p, x) THEN Limit ELSE IF p = pod /\ x = i THEN j ELSE 0

ServersDone(p, e) == IF phase = "server" THEN OfThree(p, e) ELSE NumServers

EdgesDone(p, a) ==
    IF phase = "server" THEN 0 ELSE IF phase = "aggEdge" THEN OfThree(p, a) ELSE Half

RowsDone(p, a) ==
    IF phase = "aggCore" THEN OfThree(p, a) ELSE IF phase = "done" THEN Half ELSE 0

AggsDone(p, e) ==
    IF phase = "server" THEN 0
    ELSE IF phase # "aggEdge" \/ p < pod THEN Half
    ELSE IF p = pod THEN (IF e < j THEN i + 1 ELSE i)
    ELSE 0

PodsDone(c, r) ==
    IF phase = "done" THEN NumPods
    ELSE IF phase # "aggCore" THEN 0
    ELSE IF c < i \/ (c = i /\ r < j) THEN pod + 1 ELSE pod

(* The counts, one for every switch.                                       *)
ServersOf == [s \in Edge |-> ServersDone(s[1], s[2])]
AggsOf == [s \in Edge |-> AggsDone(s[1], s[2])]
EdgesOf == [a \in Agg |-> EdgesDone(a[1], a[2])]
RowsOf == [a \in Agg |-> RowsDone(a[1], a[2])]
PodsOf == [c \in Core |-> PodsDone(c[1], c[2])]

CountersInv ==
    /\ edgeIfs \in [Edge -> Int] /\ aggIfs \in [Agg -> Int] /\ coreIfs \in [Core -> Int]
    /\ \A s \in Edge : edgeIfs[s] = 1 + ServersOf[s] + AggsOf[s]
    /\ \A a \in Agg : aggIfs[a] = 1 + EdgesOf[a] + RowsOf[a]
    /\ \A c \in Core : coreIfs[c] = 1 + PodsOf[c]

(* What is done has its number, the rest none.                             *)
Number(base, n, done) == IF n < done THEN base + n ELSE 0

Numbered(table, S, T, base, done) ==
    /\ table \in [S -> [T -> Int]]
    /\ \A s \in S, t \in T : table[s][t] = Number(base, t, done[s])

NumbersInv ==
    /\ Numbered(edgeServerIf, Edge, Servers, 1, ServersOf)
    /\ Numbered(edgeAggIf, Edge, Idx, NumServers + 1, AggsOf)
    /\ Numbered(aggEdgeIf, Agg, Idx, 1, EdgesOf)
    /\ Numbered(aggCoreIf, Agg, Idx, Half + 1, RowsOf)
    /\ Numbered(coreAggIf, Core, Pods, 1, PodsOf)

InterfacesInv == PositionOK /\ CountersInv /\ NumbersInv

LEMMA SwitchParts ==
    /\ \A s \in Edge : /\ s = <<s[1], s[2]>>
                       /\ s[1] \in Nat /\ s[1] < NumPods /\ s[2] \in Nat /\ s[2] < Half
    /\ \A c \in Core : /\ c = <<c[1], c[2]>>
                       /\ c[1] \in Nat /\ c[1] < Half /\ c[2] \in Nat /\ c[2] < Half
    /\ \A x : x \in Pods <=> x \in Nat /\ x < NumPods
    /\ \A x : x \in Idx <=> x \in Nat /\ x < Half
    /\ \A x : x \in Servers <=> x \in Nat /\ x < NumServers
  BY Sizes DEF Edge, Core, Pods, Idx, Servers

LEMMA InitInterfaces == InterfacesInit => InterfacesInv
  <1> SUFFICES ASSUME InterfacesInit PROVE InterfacesInv
    OBVIOUS
  <1>1. PositionOK
    BY Sizes DEF InterfacesInit, PositionOK, Limit
  <1>2. \A p, x \in Nat : /\ ServersDone(p, x) = 0 /\ AggsDone(p, x) = 0
                          /\ EdgesDone(p, x) = 0 /\ RowsDone(p, x) = 0
                          /\ PodsDone(p, x) = 0
    BY DEF InterfacesInit, ServersDone, AggsDone, EdgesDone, RowsDone, PodsDone, OfThree, Passed
  <1>3. /\ \A s \in Edge : ServersOf[s] = 0 /\ AggsOf[s] = 0
        /\ \A a \in Agg : EdgesOf[a] = 0 /\ RowsOf[a] = 0
        /\ \A c \in Core : PodsOf[c] = 0
    BY <1>2, SwitchParts DEF ServersOf, AggsOf, EdgesOf, RowsOf, PodsOf, Agg, Edge
  <1>4. CountersInv
    BY <1>3 DEF InterfacesInit, CountersInv
  <1>5. NumbersInv
    BY <1>3, SwitchParts DEF InterfacesInit, NumbersInv, Numbered, Number
  <1>6. QED
    BY <1>1, <1>4, <1>5 DEF InterfacesInv

(* The next iteration is one further, for the switch of this one.          *)
LEMMA AdvanceCounts ==
    ASSUME PositionOK, phase # "done",
           NEW following \in {"aggEdge", "aggCore", "done"}, following # phase,
           Advance(Limit, following)
    PROVE  /\ PositionOK'
           /\ phase' = phase \/ (phase' = following /\ pod' = 0 /\ i' = 0 /\ j' = 0)
           /\ phase' = phase => \A p, x \in Nat : p < NumPods /\ x < Half =>
                OfThree(p, x)' = OfThree(p, x) + (IF p = pod /\ x = i THEN 1 ELSE 0)
           /\ phase' # phase => \A p, x \in Nat : p < NumPods /\ x < Half =>
                Limit = OfThree(p, x) + (IF p = pod /\ x = i THEN 1 ELSE 0)
           /\ OfThree(pod, i) = j
  <1>1. /\ pod \in Nat /\ i \in Nat /\ j \in Nat /\ Limit \in Nat /\ Limit >= 1
        /\ pod < NumPods /\ i < Half /\ j < Limit
    BY Sizes DEF PositionOK, Limit
  <1>2. phase' = phase => Limit' = Limit
    BY DEF Limit
  <1>3. phase' = following => Limit' >= 1 /\ Limit' \in Nat
    BY Sizes DEF Limit
  <1>4. PositionOK'
    <2>1. phase' \in {phase, following} /\ phase \in {"server", "aggEdge", "aggCore", "done"}
      BY DEF Advance, PositionOK
    <2>2. pod' \in Nat /\ pod' < NumPods /\ i' \in Nat /\ i' < Half
      BY <1>1, Sizes DEF Advance
    <2>3. j' \in Nat /\ j' < Limit'
      BY <1>1, <1>2, <1>3, Sizes DEF Advance
    <2>4. QED
      BY <2>1, <2>2, <2>3 DEF PositionOK
  <1>5. phase' = phase \/ (phase' = following /\ pod' = 0 /\ i' = 0 /\ j' = 0)
    BY DEF Advance
  <1>6. ASSUME NEW p \in Nat, NEW x \in Nat, p < NumPods, x < Half
        PROVE  /\ phase' = phase =>
                    OfThree(p, x)' = OfThree(p, x) + (IF p = pod /\ x = i THEN 1 ELSE 0)
               /\ phase' # phase =>
                    Limit = OfThree(p, x) + (IF p = pod /\ x = i THEN 1 ELSE 0)
    <2>1. CASE j + 1 < Limit /\ j' = j + 1 /\ UNCHANGED <<phase, pod, i>>
      BY <1>1, <1>2, <1>6, <2>1 DEF OfThree, Passed
    <2>2. CASE j + 1 = Limit /\ i + 1 < Half /\ j' = 0 /\ i' = i + 1 /\ UNCHANGED <<phase, pod>>
      BY <1>1, <1>2, <1>6, <2>2 DEF OfThree, Passed
    <2>3. CASE /\ j + 1 = Limit /\ i + 1 = Half /\ pod + 1 < NumPods
               /\ j' = 0 /\ i' = 0 /\ pod' = pod + 1 /\ UNCHANGED phase
      BY <1>1, <1>2, <1>6, <2>3, Sizes DEF OfThree, Passed
    <2>4. CASE /\ j + 1 = Limit /\ i + 1 = Half /\ pod + 1 = NumPods
               /\ phase' = following
      BY <1>1, <1>6, <2>4, Sizes DEF OfThree, Passed
    <2>5. QED
      BY <2>1, <2>2, <2>3, <2>4 DEF Advance
  <1>7. OfThree(pod, i) = j
    BY <1>1 DEF OfThree, Passed
  <1>8. QED
    BY <1>4, <1>5, <1>6, <1>7


LEMMA ServerCounts ==
    ASSUME PositionOK, phase = "server", Advance(NumServers, "aggEdge")
    PROVE  /\ PositionOK'
           /\ \A p, x \in Nat : p < NumPods /\ x < Half =>
                /\ ServersDone(p, x)' = ServersDone(p, x) + (IF p = pod /\ x = i THEN 1 ELSE 0)
                /\ AggsDone(p, x)' = AggsDone(p, x) /\ EdgesDone(p, x)' = EdgesDone(p, x)
                /\ RowsDone(p, x)' = RowsDone(p, x)
           /\ \A c, r \in Nat : c < Half /\ r < Half => PodsDone(c, r)' = PodsDone(c, r)
           /\ ServersDone(pod, i) = j /\ AggsDone(pod, i) = 0
  <1>1. Limit = NumServers
    BY DEF Limit
  <1>2. /\ PositionOK'
        /\ phase' = phase \/ (phase' = "aggEdge" /\ pod' = 0 /\ i' = 0 /\ j' = 0)
        /\ phase' = phase => \A p, x \in Nat : p < NumPods /\ x < Half =>
                OfThree(p, x)' = OfThree(p, x) + (IF p = pod /\ x = i THEN 1 ELSE 0)
        /\ phase' # phase => \A p, x \in Nat : p < NumPods /\ x < Half =>
                Limit = OfThree(p, x) + (IF p = pod /\ x = i THEN 1 ELSE 0)
        /\ OfThree(pod, i) = j
    BY <1>1, AdvanceCounts
  <1>3. phase' # phase => \A p, x \in Nat : OfThree(p, x)' = 0
    BY <1>2 DEF OfThree, Passed
  <1>4. ASSUME NEW p \in Nat, NEW x \in Nat, p < NumPods, x < Half
        PROVE  /\ ServersDone(p, x)'
                    = ServersDone(p, x) + (IF p = pod /\ x = i THEN 1 ELSE 0)
               /\ AggsDone(p, x)' = AggsDone(p, x) /\ EdgesDone(p, x)' = EdgesDone(p, x)
               /\ RowsDone(p, x)' = RowsDone(p, x)
    <2>1. CASE phase' = phase
      BY <1>2, <1>4, <2>1 DEF ServersDone, AggsDone, EdgesDone, RowsDone
    <2>2. CASE phase' # phase
      BY <1>1, <1>2, <1>3, <1>4, <2>2 DEF ServersDone, AggsDone, EdgesDone, RowsDone
    <2>3. QED
      BY <2>1, <2>2
  <1>5. ASSUME NEW c \in Nat, NEW r \in Nat, c < Half, r < Half
        PROVE  PodsDone(c, r)' = PodsDone(c, r)
    BY <1>2 DEF PodsDone
  <1>6. ServersDone(pod, i) = j /\ AggsDone(pod, i) = 0
    BY <1>2 DEF ServersDone, AggsDone
  <1>7. QED
    BY <1>2, <1>4, <1>5, <1>6

LEMMA AggEdgeCounts ==
    ASSUME PositionOK, phase = "aggEdge", Advance(Half, "aggCore")
    PROVE  /\ PositionOK'
           /\ \A p, x \in Nat : p < NumPods /\ x < Half =>
                /\ EdgesDone(p, x)' = EdgesDone(p, x) + (IF p = pod /\ x = i THEN 1 ELSE 0)
                /\ AggsDone(p, x)' = AggsDone(p, x) + (IF p = pod /\ x = j THEN 1 ELSE 0)
                /\ ServersDone(p, x)' = ServersDone(p, x) /\ RowsDone(p, x)' = RowsDone(p, x)
           /\ \A c, r \in Nat : c < Half /\ r < Half => PodsDone(c, r)' = PodsDone(c, r)
           /\ EdgesDone(pod, i) = j /\ RowsDone(pod, i) = 0
           /\ AggsDone(pod, j) = i /\ ServersDone(pod, j) = NumServers
  <1>1. Limit = Half
    BY DEF Limit
  <1>2. /\ PositionOK'
        /\ phase' = phase \/ (phase' = "aggCore" /\ pod' = 0 /\ i' = 0 /\ j' = 0)
        /\ phase' = phase => \A p, x \in Nat : p < NumPods /\ x < Half =>
                OfThree(p, x)' = OfThree(p, x) + (IF p = pod /\ x = i THEN 1 ELSE 0)
        /\ phase' # phase => \A p, x \in Nat : p < NumPods /\ x < Half =>
                Limit = OfThree(p, x) + (IF p = pod /\ x = i THEN 1 ELSE 0)
        /\ OfThree(pod, i) = j
    BY <1>1, AdvanceCounts
  <1>3. phase' # phase => \A p, x \in Nat : OfThree(p, x)' = 0
    BY <1>2 DEF OfThree, Passed
  <1>4. ASSUME NEW p \in Nat, NEW x \in Nat, p < NumPods, x < Half
        PROVE  /\ EdgesDone(p, x)' = EdgesDone(p, x) + (IF p = pod /\ x = i THEN 1 ELSE 0)
               /\ ServersDone(p, x)' = ServersDone(p, x) /\ RowsDone(p, x)' = RowsDone(p, x)
    <2>1. CASE phase' = phase
      BY <1>2, <1>4, <2>1 DEF ServersDone, EdgesDone, RowsDone
    <2>2. CASE phase' # phase
      BY <1>1, <1>2, <1>3, <1>4, <2>2 DEF ServersDone, EdgesDone, RowsDone
    <2>3. QED
      BY <2>1, <2>2
  <1>5. /\ pod \in Nat /\ i \in Nat /\ j \in Nat /\ pod < NumPods /\ i < Half /\ j < Half
    BY <1>1 DEF PositionOK
  <1>6. ASSUME NEW p \in Nat, NEW x \in Nat, p < NumPods, x < Half
        PROVE  AggsDone(p, x)' = AggsDone(p, x) + (IF p = pod /\ x = j THEN 1 ELSE 0)
    <2>1. CASE j + 1 < Half /\ j' = j + 1 /\ UNCHANGED <<phase, pod, i>>
      BY <1>5, <1>6, <2>1, Sizes DEF AggsDone
    <2>2. CASE j + 1 = Half /\ i + 1 < Half /\ j' = 0 /\ i' = i + 1 /\ UNCHANGED <<phase, pod>>
      BY <1>5, <1>6, <2>2, Sizes DEF AggsDone
    <2>3. CASE /\ j + 1 = Half /\ i + 1 = Half /\ pod + 1 < NumPods
               /\ j' = 0 /\ i' = 0 /\ pod' = pod + 1 /\ UNCHANGED phase
      BY <1>5, <1>6, <2>3, Sizes DEF AggsDone
    <2>4. CASE /\ j + 1 = Half /\ i + 1 = Half /\ pod + 1 = NumPods
               /\ phase' = "aggCore"
      BY <1>5, <1>6, <2>4, Sizes DEF AggsDone
    <2>5. QED
      BY <2>1, <2>2, <2>3, <2>4 DEF Advance
  <1>7. ASSUME NEW c \in Nat, NEW r \in Nat, c < Half, r < Half
        PROVE  PodsDone(c, r)' = PodsDone(c, r)
    BY <1>2, <1>7 DEF PodsDone
  <1>8. /\ EdgesDone(pod, i) = j /\ RowsDone(pod, i) = 0
        /\ AggsDone(pod, j) = i /\ ServersDone(pod, j) = NumServers
    BY <1>2, <1>5 DEF EdgesDone, RowsDone, AggsDone, ServersDone
  <1>9. QED
    BY <1>2, <1>4, <1>6, <1>7, <1>8

LEMMA AggCoreCounts ==
    ASSUME PositionOK, phase = "aggCore", Advance(Half, "done")
    PROVE  /\ PositionOK'
           /\ \A p, x \in Nat : p < NumPods /\ x < Half =>
                /\ RowsDone(p, x)' = RowsDone(p, x) + (IF p = pod /\ x = i THEN 1 ELSE 0)
                /\ ServersDone(p, x)' = ServersDone(p, x)
                /\ AggsDone(p, x)' = AggsDone(p, x) /\ EdgesDone(p, x)' = EdgesDone(p, x)
           /\ \A c, r \in Nat : c < Half /\ r < Half =>
                PodsDone(c, r)' = PodsDone(c, r) + (IF c = i /\ r = j THEN 1 ELSE 0)
           /\ RowsDone(pod, i) = j /\ EdgesDone(pod, i) = Half
           /\ PodsDone(i, j) = pod
  <1>1. Limit = Half
    BY DEF Limit
  <1>2. /\ PositionOK'
        /\ phase' = phase \/ (phase' = "done" /\ pod' = 0 /\ i' = 0 /\ j' = 0)
        /\ phase' = phase => \A p, x \in Nat : p < NumPods /\ x < Half =>
                OfThree(p, x)' = OfThree(p, x) + (IF p = pod /\ x = i THEN 1 ELSE 0)
        /\ phase' # phase => \A p, x \in Nat : p < NumPods /\ x < Half =>
                Limit = OfThree(p, x) + (IF p = pod /\ x = i THEN 1 ELSE 0)
        /\ OfThree(pod, i) = j
    BY <1>1, AdvanceCounts
  <1>3. ASSUME NEW p \in Nat, NEW x \in Nat, p < NumPods, x < Half
        PROVE  /\ RowsDone(p, x)' = RowsDone(p, x) + (IF p = pod /\ x = i THEN 1 ELSE 0)
               /\ ServersDone(p, x)' = ServersDone(p, x)
               /\ AggsDone(p, x)' = AggsDone(p, x) /\ EdgesDone(p, x)' = EdgesDone(p, x)
    <2>1. CASE phase' = phase
      BY <1>2, <1>3, <2>1 DEF ServersDone, AggsDone, EdgesDone, RowsDone
    <2>2. CASE phase' # phase
      BY <1>1, <1>2, <1>3, <2>2 DEF ServersDone, AggsDone, EdgesDone, RowsDone
    <2>3. QED
      BY <2>1, <2>2
  <1>4. /\ pod \in Nat /\ i \in Nat /\ j \in Nat /\ pod < NumPods /\ i < Half /\ j < Half
    BY <1>1 DEF PositionOK
  <1>5. ASSUME NEW c \in Nat, NEW r \in Nat, c < Half, r < Half
        PROVE  PodsDone(c, r)' = PodsDone(c, r) + (IF c = i /\ r = j THEN 1 ELSE 0)
    <2>1. CASE j + 1 < Half /\ j' = j + 1 /\ UNCHANGED <<phase, pod, i>>
      BY <1>4, <1>5, <2>1, Sizes DEF PodsDone
    <2>2. CASE j + 1 = Half /\ i + 1 < Half /\ j' = 0 /\ i' = i + 1 /\ UNCHANGED <<phase, pod>>
      BY <1>4, <1>5, <2>2, Sizes DEF PodsDone
    <2>3. CASE /\ j + 1 = Half /\ i + 1 = Half /\ pod + 1 < NumPods
               /\ j' = 0 /\ i' = 0 /\ pod' = pod + 1 /\ UNCHANGED phase
      BY <1>4, <1>5, <2>3, Sizes DEF PodsDone
    <2>4. CASE /\ j + 1 = Half /\ i + 1 = Half /\ pod + 1 = NumPods
               /\ phase' = "done"
      BY <1>4, <1>5, <2>4, Sizes DEF PodsDone
    <2>5. QED
      BY <2>1, <2>2, <2>3, <2>4 DEF Advance
  <1>6. RowsDone(pod, i) = j /\ EdgesDone(pod, i) = Half /\ PodsDone(i, j) = pod
    BY <1>2, <1>4 DEF RowsDone, EdgesDone, PodsDone
  <1>7. QED
    BY <1>2, <1>3, <1>5, <1>6

(* Setting one number in a table of numbers.                               *)
LEMMA SetOne ==
    ASSUME NEW S, NEW T, NEW f \in [S -> [T -> Int]],
           NEW s0 \in S, NEW t0 \in T, NEW n \in Int, NEW g, g = [f EXCEPT ![s0][t0] = n]
    PROVE  /\ \A s \in S, t \in T : g[s][t] = IF s = s0 /\ t = t0 THEN n ELSE f[s][t]
           /\ g \in [S -> [T -> Int]]
  <1> DEFINE h == [f[s0] EXCEPT ![t0] = n]
  <1>1. g = [s \in S |-> IF s = s0 THEN h ELSE f[s]]
    OBVIOUS
  <1>2. f[s0] \in [T -> Int]
    OBVIOUS
  <1>3. h \in [T -> Int] /\ \A t \in T : h[t] = IF t = t0 THEN n ELSE f[s0][t]
    BY <1>2
  <1> HIDE DEF h
  <1>4. \A s \in S, t \in T : g[s][t] = IF s = s0 /\ t = t0 THEN n ELSE f[s][t]
    BY <1>1, <1>3
  <1>5. g \in [S -> [T -> Int]]
    BY <1>1, <1>3
  <1>6. QED
    BY <1>4, <1>5

(* One iteration more for one of them.                                     *)
OneMore(done, doneNext, S, s0) ==
    /\ done \in [S -> Int] /\ doneNext \in [S -> Int]
    /\ \A s \in S : doneNext[s] = done[s] + (IF s = s0 THEN 1 ELSE 0)

(* The next number of one switch is given.                                 *)
LEMMA NextNumber ==
    ASSUME NEW S, NEW T \in SUBSET Nat, NEW base \in Nat, NEW f, NEW g,
           NEW s0 \in S, NEW t0 \in T, NEW done, NEW doneNext,
           Numbered(f, S, T, base, done), OneMore(done, doneNext, S, s0), done[s0] = t0,
           g = [f EXCEPT ![s0][t0] = base + t0]
    PROVE  Numbered(g, S, T, base, doneNext)
  <1>1. t0 \in Nat /\ base + t0 \in Int
    OBVIOUS
  <1>2. /\ \A s \in S, t \in T : g[s][t] = IF s = s0 /\ t = t0 THEN base + t0 ELSE f[s][t]
        /\ g \in [S -> [T -> Int]]
    BY <1>1, SetOne DEF Numbered
  <1>3. ASSUME NEW s \in S, NEW t \in T
        PROVE  g[s][t] = Number(base, t, doneNext[s])
    <2> DEFINE d == done[s]
               here == s = s0
    <2>1. /\ d \in Int /\ t \in Nat
          /\ doneNext[s] = d + (IF here THEN 1 ELSE 0)
          /\ here => d = t0
          /\ g[s][t] = IF here /\ t = t0 THEN base + t0 ELSE f[s][t]
          /\ f[s][t] = IF t < d THEN base + t ELSE 0
      BY <1>2 DEF Number, Numbered, OneMore
    <2> HIDE DEF d, here
    <2>2. QED
      BY <1>1, <2>1 DEF Number
  <1>4. QED
    BY <1>2, <1>3 DEF Numbered

LEMMA CountTypes ==
    ASSUME PositionOK
    PROVE  /\ \A p, x \in Nat : p < NumPods /\ x < Half =>
                /\ ServersDone(p, x) \in Int /\ AggsDone(p, x) \in Int
                /\ EdgesDone(p, x) \in Int /\ RowsDone(p, x) \in Int
           /\ \A c, r \in Nat : c < Half /\ r < Half => PodsDone(c, r) \in Int
  BY Sizes
  DEF ServersDone, AggsDone, EdgesDone, RowsDone, PodsDone, OfThree, PositionOK, Limit

LEMMA CountsOfSwitches ==
    ASSUME PositionOK
    PROVE  /\ ServersOf \in [Edge -> Int] /\ AggsOf \in [Edge -> Int]
           /\ EdgesOf \in [Agg -> Int] /\ RowsOf \in [Agg -> Int]
           /\ PodsOf \in [Core -> Int]
  BY CountTypes, SwitchParts DEF ServersOf, AggsOf, EdgesOf, RowsOf, PodsOf, Agg, Edge


LEMMA CurrentSwitches ==
    ASSUME PositionOK
    PROVE  /\ pod \in Pods /\ i \in Idx
           /\ phase = "server" => j \in Servers
           /\ phase # "server" => j \in Idx
  BY SwitchParts DEF PositionOK, Limit

(* One more interface of one switch.                                       *)
LEMMA CountOne ==
    ASSUME NEW S, NEW f \in [S -> Int], NEW s0 \in S, NEW g, g = [f EXCEPT ![s0] = @ + 1]
    PROVE  /\ g \in [S -> Int]
           /\ \A s \in S : g[s] = f[s] + (IF s = s0 THEN 1 ELSE 0)
  OBVIOUS

LEMMA ServerStep == ASSUME InterfacesInv, AddServerInterface PROVE InterfacesInv'
  <1> DEFINE here == <<pod, i>>
  <1>1. /\ PositionOK /\ phase = "server" /\ Advance(NumServers, "aggEdge")
        /\ edgeIfs' = [edgeIfs EXCEPT ![here] = @ + 1]
        /\ edgeServerIf' = [edgeServerIf EXCEPT ![here][j] = edgeIfs[here]]
        /\ UNCHANGED <<aggIfs, coreIfs, edgeAggIf, aggEdgeIf, aggCoreIf, coreAggIf>>
        /\ CountersInv /\ NumbersInv
    BY DEF InterfacesInv, AddServerInterface
  <1>2. /\ PositionOK'
        /\ \A p, x \in Nat : p < NumPods /\ x < Half =>
             /\ ServersDone(p, x)' = ServersDone(p, x) + (IF p = pod /\ x = i THEN 1 ELSE 0)
             /\ AggsDone(p, x)' = AggsDone(p, x) /\ EdgesDone(p, x)' = EdgesDone(p, x)
             /\ RowsDone(p, x)' = RowsDone(p, x)
        /\ \A c, r \in Nat : c < Half /\ r < Half => PodsDone(c, r)' = PodsDone(c, r)
        /\ ServersDone(pod, i) = j /\ AggsDone(pod, i) = 0
    BY <1>1, ServerCounts
  <1>3. here \in Edge /\ j \in Servers /\ Servers \in SUBSET Nat /\ j \in Nat
    BY <1>1, CurrentSwitches, SwitchParts DEF Edge
  <1>4. /\ \A s \in Edge : ServersOf'[s] = ServersOf[s] + (IF s = here THEN 1 ELSE 0)
        /\ AggsOf' = AggsOf /\ EdgesOf' = EdgesOf /\ RowsOf' = RowsOf /\ PodsOf' = PodsOf
        /\ ServersOf[here] = j /\ AggsOf[here] = 0
    BY <1>2, <1>3, SwitchParts DEF ServersOf, AggsOf, EdgesOf, RowsOf, PodsOf, Agg, Edge
  <1> HIDE DEF here
  <1>5. OneMore(ServersOf, ServersOf', Edge, here) /\ AggsOf \in [Edge -> Int]
    <2>1. ServersOf \in [Edge -> Int] /\ AggsOf \in [Edge -> Int]
      BY <1>1, CountsOfSwitches
    <2>2. ServersOf' = [s \in Edge |-> ServersOf'[s]]
      BY DEF ServersOf
    <2>3. QED
      BY <1>4, <2>1, <2>2 DEF OneMore
  <1>6. edgeIfs[here] = 1 + j
    BY <1>1, <1>3, <1>4 DEF CountersInv
  <1>7. CountersInv'
    <2>1. /\ edgeIfs' \in [Edge -> Int]
          /\ \A s \in Edge : edgeIfs'[s] = edgeIfs[s] + (IF s = here THEN 1 ELSE 0)
      BY <1>1, <1>3, CountOne DEF CountersInv
    <2>2. \A s \in Edge : edgeIfs'[s] = 1 + ServersOf'[s] + AggsOf'[s]
      BY <1>1, <1>4, <1>5, <2>1 DEF CountersInv, OneMore
    <2>3. QED
      BY <1>1, <1>4, <2>1, <2>2 DEF CountersInv
  <1>8. NumbersInv'
    <2>1. edgeServerIf' = [edgeServerIf EXCEPT ![here][j] = 1 + j]
      BY <1>1, <1>6
    <2>2. Numbered(edgeServerIf', Edge, Servers, 1, ServersOf')
      <3>1. Numbered(edgeServerIf, Edge, Servers, 1, ServersOf) /\ ServersOf[here] = j
        BY <1>1, <1>4 DEF NumbersInv
      <3>2. QED
        BY <1>3, <1>5, <2>1, <3>1, NextNumber
    <2>3. QED
      BY <1>1, <1>4, <2>2 DEF NumbersInv
  <1>9. QED
    BY <1>2, <1>7, <1>8 DEF InterfacesInv


LEMMA AggEdgeStep == ASSUME InterfacesInv, AddAggEdgeInterfaces PROVE InterfacesInv'
  <1> DEFINE edge == <<pod, j>>
             agg == <<pod, i>>
  <1>1. /\ PositionOK /\ phase = "aggEdge" /\ Advance(Half, "aggCore")
        /\ edgeIfs' = [edgeIfs EXCEPT ![edge] = @ + 1]
        /\ aggIfs' = [aggIfs EXCEPT ![agg] = @ + 1]
        /\ edgeAggIf' = [edgeAggIf EXCEPT ![edge][i] = edgeIfs[edge]]
        /\ aggEdgeIf' = [aggEdgeIf EXCEPT ![agg][j] = aggIfs[agg]]
        /\ UNCHANGED <<coreIfs, edgeServerIf, aggCoreIf, coreAggIf>>
        /\ CountersInv /\ NumbersInv
    BY DEF InterfacesInv, AddAggEdgeInterfaces
  <1>2. /\ PositionOK'
        /\ \A p, x \in Nat : p < NumPods /\ x < Half =>
             /\ EdgesDone(p, x)' = EdgesDone(p, x) + (IF p = pod /\ x = i THEN 1 ELSE 0)
             /\ AggsDone(p, x)' = AggsDone(p, x) + (IF p = pod /\ x = j THEN 1 ELSE 0)
             /\ ServersDone(p, x)' = ServersDone(p, x) /\ RowsDone(p, x)' = RowsDone(p, x)
        /\ \A c, r \in Nat : c < Half /\ r < Half => PodsDone(c, r)' = PodsDone(c, r)
        /\ EdgesDone(pod, i) = j /\ RowsDone(pod, i) = 0
        /\ AggsDone(pod, j) = i /\ ServersDone(pod, j) = NumServers
    BY <1>1, AggEdgeCounts
  <1>3. /\ edge \in Edge /\ agg \in Agg /\ i \in Idx /\ j \in Idx /\ Idx \in SUBSET Nat
        /\ i \in Nat /\ j \in Nat
    BY <1>1, CurrentSwitches, SwitchParts DEF Edge, Agg
  <1>4. /\ \A s \in Edge : AggsOf'[s] = AggsOf[s] + (IF s = edge THEN 1 ELSE 0)
        /\ \A a \in Agg : EdgesOf'[a] = EdgesOf[a] + (IF a = agg THEN 1 ELSE 0)
        /\ ServersOf' = ServersOf /\ RowsOf' = RowsOf /\ PodsOf' = PodsOf
    BY <1>2, <1>3, SwitchParts DEF ServersOf, AggsOf, EdgesOf, RowsOf, PodsOf, Agg, Edge
  <1>5. /\ AggsOf[edge] = i /\ ServersOf[edge] = NumServers
        /\ EdgesOf[agg] = j /\ RowsOf[agg] = 0
    BY <1>2, <1>3 DEF ServersOf, AggsOf, EdgesOf, RowsOf
  <1> HIDE DEF edge, agg
  <1>6. /\ OneMore(AggsOf, AggsOf', Edge, edge) /\ ServersOf \in [Edge -> Int]
        /\ OneMore(EdgesOf, EdgesOf', Agg, agg) /\ RowsOf \in [Agg -> Int]
    <2>1. /\ ServersOf \in [Edge -> Int] /\ AggsOf \in [Edge -> Int]
          /\ EdgesOf \in [Agg -> Int] /\ RowsOf \in [Agg -> Int]
      BY <1>1, CountsOfSwitches
    <2>2. AggsOf' = [s \in Edge |-> AggsOf'[s]] /\ EdgesOf' = [a \in Agg |-> EdgesOf'[a]]
      BY DEF AggsOf, EdgesOf
    <2>3. OneMore(AggsOf, AggsOf', Edge, edge)
      BY <1>4, <2>1, <2>2 DEF OneMore
    <2>4. OneMore(EdgesOf, EdgesOf', Agg, agg)
      BY <1>4, <2>1, <2>2 DEF OneMore
    <2>5. QED
      BY <2>1, <2>3, <2>4
  <1>7. edgeIfs[edge] = NumServers + 1 + i /\ aggIfs[agg] = 1 + j
    BY <1>1, <1>3, <1>5, Sizes DEF CountersInv
  <1>8. CountersInv'
    <2>1. /\ edgeIfs' \in [Edge -> Int]
          /\ \A s \in Edge : edgeIfs'[s] = edgeIfs[s] + (IF s = edge THEN 1 ELSE 0)
      BY <1>1, <1>3, CountOne DEF CountersInv
    <2>2. /\ aggIfs' \in [Agg -> Int]
          /\ \A a \in Agg : aggIfs'[a] = aggIfs[a] + (IF a = agg THEN 1 ELSE 0)
      BY <1>1, <1>3, CountOne DEF CountersInv
    <2>3. \A s \in Edge : edgeIfs'[s] = 1 + ServersOf'[s] + AggsOf'[s]
      BY <1>1, <1>4, <1>6, <2>1 DEF CountersInv, OneMore
    <2>4. \A a \in Agg : aggIfs'[a] = 1 + EdgesOf'[a] + RowsOf'[a]
      BY <1>1, <1>4, <1>6, <2>2 DEF CountersInv, OneMore
    <2>5. QED
      BY <1>1, <1>4, <2>1, <2>2, <2>3, <2>4 DEF CountersInv
  <1>9. NumbersInv'
    <2>1. Numbered(edgeAggIf', Edge, Idx, NumServers + 1, AggsOf')
      <3> DEFINE first == NumServers + 1
      <3>1. Numbered(edgeAggIf, Edge, Idx, first, AggsOf) /\ first \in Nat
        BY <1>1, Sizes DEF NumbersInv
      <3>2. edgeAggIf' = [edgeAggIf EXCEPT ![edge][i] = first + i]
        BY <1>1, <1>7
      <3>3. edge \in Edge /\ i \in Idx /\ Idx \in SUBSET Nat /\ AggsOf[edge] = i
            /\ OneMore(AggsOf, AggsOf', Edge, edge)
        BY <1>3, <1>5, <1>6
      <3> HIDE DEF first
      <3>4. Numbered(edgeAggIf', Edge, Idx, first, AggsOf')
        BY <3>1, <3>2, <3>3, NextNumber
      <3>5. QED
        BY <3>4 DEF first
    <2>2. Numbered(aggEdgeIf', Agg, Idx, 1, EdgesOf')
      <3>1. Numbered(aggEdgeIf, Agg, Idx, 1, EdgesOf)
        BY <1>1 DEF NumbersInv
      <3>2. aggEdgeIf' = [aggEdgeIf EXCEPT ![agg][j] = 1 + j]
        BY <1>1, <1>7
      <3>3. QED
        BY <1>3, <1>5, <1>6, <3>1, <3>2, NextNumber
    <2>3. QED
      BY <1>1, <1>4, <2>1, <2>2 DEF NumbersInv
  <1>10. QED
    BY <1>2, <1>8, <1>9 DEF InterfacesInv

LEMMA AggCoreStep == ASSUME InterfacesInv, AddAggCoreInterfaces PROVE InterfacesInv'
  <1> DEFINE agg == <<pod, i>>
             core == <<i, j>>
  <1>1. /\ PositionOK /\ phase = "aggCore" /\ Advance(Half, "done")
        /\ aggIfs' = [aggIfs EXCEPT ![agg] = @ + 1]
        /\ coreIfs' = [coreIfs EXCEPT ![core] = @ + 1]
        /\ aggCoreIf' = [aggCoreIf EXCEPT ![agg][j] = aggIfs[agg]]
        /\ coreAggIf' = [coreAggIf EXCEPT ![core][pod] = coreIfs[core]]
        /\ UNCHANGED <<edgeIfs, edgeServerIf, edgeAggIf, aggEdgeIf>>
        /\ CountersInv /\ NumbersInv
    BY DEF InterfacesInv, AddAggCoreInterfaces
  <1>2. /\ PositionOK'
        /\ \A p, x \in Nat : p < NumPods /\ x < Half =>
             /\ RowsDone(p, x)' = RowsDone(p, x) + (IF p = pod /\ x = i THEN 1 ELSE 0)
             /\ ServersDone(p, x)' = ServersDone(p, x)
             /\ AggsDone(p, x)' = AggsDone(p, x) /\ EdgesDone(p, x)' = EdgesDone(p, x)
        /\ \A c, r \in Nat : c < Half /\ r < Half =>
             PodsDone(c, r)' = PodsDone(c, r) + (IF c = i /\ r = j THEN 1 ELSE 0)
        /\ RowsDone(pod, i) = j /\ EdgesDone(pod, i) = Half
        /\ PodsDone(i, j) = pod
    BY <1>1, AggCoreCounts
  <1>3. /\ agg \in Agg /\ core \in Core /\ j \in Idx /\ pod \in Pods
        /\ Idx \in SUBSET Nat /\ Pods \in SUBSET Nat /\ j \in Nat /\ pod \in Nat
    BY <1>1, CurrentSwitches, SwitchParts DEF Agg, Core
  <1>4. /\ \A a \in Agg : RowsOf'[a] = RowsOf[a] + (IF a = agg THEN 1 ELSE 0)
        /\ \A c \in Core : PodsOf'[c] = PodsOf[c] + (IF c = core THEN 1 ELSE 0)
        /\ ServersOf' = ServersOf /\ AggsOf' = AggsOf /\ EdgesOf' = EdgesOf
    BY <1>2, <1>3, SwitchParts DEF ServersOf, AggsOf, EdgesOf, RowsOf, PodsOf, Agg, Edge
  <1>5. RowsOf[agg] = j /\ EdgesOf[agg] = Half /\ PodsOf[core] = pod
    BY <1>2, <1>3 DEF EdgesOf, RowsOf, PodsOf
  <1> HIDE DEF agg, core
  <1>6. /\ OneMore(RowsOf, RowsOf', Agg, agg) /\ EdgesOf \in [Agg -> Int]
        /\ OneMore(PodsOf, PodsOf', Core, core)
    <2>1. EdgesOf \in [Agg -> Int] /\ RowsOf \in [Agg -> Int] /\ PodsOf \in [Core -> Int]
      BY <1>1, CountsOfSwitches
    <2>2. RowsOf' = [a \in Agg |-> RowsOf'[a]] /\ PodsOf' = [c \in Core |-> PodsOf'[c]]
      BY DEF RowsOf, PodsOf
    <2>3. OneMore(RowsOf, RowsOf', Agg, agg)
      BY <1>4, <2>1, <2>2 DEF OneMore
    <2>4. OneMore(PodsOf, PodsOf', Core, core)
      BY <1>4, <2>1, <2>2 DEF OneMore
    <2>5. QED
      BY <2>1, <2>3, <2>4
  <1>7. aggIfs[agg] = Half + 1 + j /\ coreIfs[core] = 1 + pod
    BY <1>1, <1>3, <1>5, Sizes DEF CountersInv
  <1>8. CountersInv'
    <2>1. /\ aggIfs' \in [Agg -> Int]
          /\ \A a \in Agg : aggIfs'[a] = aggIfs[a] + (IF a = agg THEN 1 ELSE 0)
      BY <1>1, <1>3, CountOne DEF CountersInv
    <2>2. /\ coreIfs' \in [Core -> Int]
          /\ \A c \in Core : coreIfs'[c] = coreIfs[c] + (IF c = core THEN 1 ELSE 0)
      BY <1>1, <1>3, CountOne DEF CountersInv
    <2>3. \A a \in Agg : aggIfs'[a] = 1 + EdgesOf'[a] + RowsOf'[a]
      BY <1>1, <1>4, <1>6, <2>1 DEF CountersInv, OneMore
    <2>4. \A c \in Core : coreIfs'[c] = 1 + PodsOf'[c]
      BY <1>1, <1>4, <1>6, <2>2 DEF CountersInv, OneMore
    <2>5. QED
      BY <1>1, <1>4, <2>1, <2>2, <2>3, <2>4 DEF CountersInv
  <1>9. NumbersInv'
    <2>1. Numbered(aggCoreIf', Agg, Idx, Half + 1, RowsOf')
      <3>1. Numbered(aggCoreIf, Agg, Idx, Half + 1, RowsOf) /\ Half + 1 \in Nat
        BY <1>1, Sizes DEF NumbersInv
      <3>2. aggCoreIf' = [aggCoreIf EXCEPT ![agg][j] = Half + 1 + j]
        BY <1>1, <1>7
      <3>3. QED
        BY <1>3, <1>5, <1>6, <3>1, <3>2, NextNumber
    <2>2. Numbered(coreAggIf', Core, Pods, 1, PodsOf')
      <3>1. Numbered(coreAggIf, Core, Pods, 1, PodsOf)
        BY <1>1 DEF NumbersInv
      <3>2. coreAggIf' = [coreAggIf EXCEPT ![core][pod] = 1 + pod]
        BY <1>1, <1>7
      <3>3. QED
        BY <1>3, <1>5, <1>6, <3>1, <3>2, NextNumber
    <2>3. QED
      BY <1>1, <1>4, <2>1, <2>2 DEF NumbersInv
  <1>10. QED
    BY <1>2, <1>8, <1>9 DEF InterfacesInv

LEMMA NextInterfaces == InterfacesInv /\ [InterfacesNext]_interfacesVars => InterfacesInv'
  <1>1. ASSUME InterfacesInv, InterfacesNext PROVE InterfacesInv'
    BY <1>1, ServerStep, AggEdgeStep, AggCoreStep DEF InterfacesNext
  <1>2. ASSUME InterfacesInv, UNCHANGED interfacesVars PROVE InterfacesInv'
    BY <1>2
    DEF InterfacesInv, PositionOK, CountersInv, NumbersInv, Limit, ServersOf, AggsOf, EdgesOf,
        RowsOf, PodsOf, ServersDone, AggsDone, EdgesDone, RowsDone, PodsDone, OfThree, Passed,
        interfacesVars, position, counters, numbers
  <1>3. QED
    BY <1>1, <1>2

---------------------------------------------------------------------------
(* What the numbers are computed as.                                       *)

LEMMA ComputedInterfaces ==
    ASSUME NEW p \in Pods, NEW e \in Idx, NEW a \in Idx, NEW r \in Idx
    PROVE  /\ EdgeAggInterfaces(FlatIndex(p, e), FlatIndex(p, a)) = <<NumServers + 1 + a, 1 + e>>
           /\ AggCoreInterfaces(FlatIndex(p, a), CoreIndex(a, r)) = <<Half + 1 + r, 1 + p>>
  <1>1. /\ PodAndIndex(FlatIndex(p, e)) = <<p, e>> /\ PodAndIndex(FlatIndex(p, a)) = <<p, a>>
        /\ CoreIndex(a, r) \div Half = r
    BY FlatNumbers, CoreNumbers
  <1>2. p \in Nat /\ e \in Nat /\ a \in Nat /\ r \in Nat
    BY SwitchParts
  <1>3. QED
    BY <1>1, <1>2, Sizes DEF EdgeAggInterfaces, AggCoreInterfaces

LEMMA NumbersFollow == InterfacesInv => NumbersAsComputed
  <1> SUFFICES ASSUME InterfacesInv PROVE NumbersAsComputed
    OBVIOUS
  <1>1. NumbersInv
    BY DEF InterfacesInv
  <1>2. \A s \in Edge, k \in Servers : edgeServerIf[s][k] \in {0, k + 1}
    BY <1>1, SwitchParts DEF NumbersInv, Numbered, Number
  <1>3. ASSUME NEW p \in Pods, NEW e \in Idx, NEW a \in Idx
        PROVE  LET ends == EdgeAggInterfaces(FlatIndex(p, e), FlatIndex(p, a)) IN
               /\ edgeAggIf[<<p, e>>][a] \in {0, ends[1]}
               /\ aggEdgeIf[<<p, a>>][e] \in {0, ends[2]}
    <2>1. <<p, e>> \in Edge /\ <<p, a>> \in Agg
      BY DEF Edge, Agg
    <2>2. /\ edgeAggIf[<<p, e>>][a] \in {0, NumServers + 1 + a}
          /\ aggEdgeIf[<<p, a>>][e] \in {0, 1 + e}
      BY <1>1, <2>1 DEF NumbersInv, Numbered, Number
    <2>3. QED
      BY <2>2, ComputedInterfaces
  <1>4. ASSUME NEW p \in Pods, NEW a \in Idx, NEW r \in Idx
        PROVE  LET ends == AggCoreInterfaces(FlatIndex(p, a), CoreIndex(a, r)) IN
               /\ aggCoreIf[<<p, a>>][r] \in {0, ends[1]}
               /\ coreAggIf[<<a, r>>][p] \in {0, ends[2]}
    <2>1. <<p, a>> \in Agg /\ <<a, r>> \in Core
      BY DEF Agg, Core
    <2>2. /\ aggCoreIf[<<p, a>>][r] \in {0, Half + 1 + r}
          /\ coreAggIf[<<a, r>>][p] \in {0, 1 + p}
      BY <1>1, <2>1 DEF NumbersInv, Numbered, Number
    <2>3. QED
      BY <2>2, ComputedInterfaces
  <1>5. QED
    BY <1>2, <1>3, <1>4 DEF NumbersAsComputed

(* Levels are flat numbers of ToRs.                                        *)
LEMMA LevelIs ==
    ASSUME NEW p \in Nat, NEW e \in Nat
    PROVE  TorLevel(p, e) = p * Half + e /\ (p * SwitchRadix) \div 2 = p * Half
  <1>1. p * SwitchRadix = (p * Half) * 2 + 0
    BY Sizes
  <1>2. p * Half \in Nat
    BY Sizes
  <1>3. ((p * Half) * 2 + 0) \div 2 = p * Half
    BY <1>2, QuotientIs
  <1>4. QED
    BY <1>1, <1>3 DEF TorLevel

LEMMA LevelsFollow == LevelsAreDistinct
  <1> SUFFICES ASSUME NEW s \in Edge, NEW t \in Edge
               PROVE  /\ TorLevel(s[1], s[2]) < (NumPods * SwitchRadix) \div 2
                      /\ TorLevel(s[1], s[2]) = TorLevel(t[1], t[2]) => s = t
    BY DEF LevelsAreDistinct
  <1>1. /\ s = <<s[1], s[2]>> /\ s[1] \in Pods /\ s[2] \in Idx
        /\ t = <<t[1], t[2]>> /\ t[1] \in Pods /\ t[2] \in Idx
    BY DEF Edge
  <1>2. /\ TorLevel(s[1], s[2]) = FlatIndex(s[1], s[2])
        /\ TorLevel(t[1], t[2]) = FlatIndex(t[1], t[2])
    BY <1>1, LevelIs, FlatNumbers, SwitchParts
  <1>3. (NumPods * SwitchRadix) \div 2 = NumTors
    BY Sizes, LevelIs DEF NumTors
  <1>4. FlatIndex(s[1], s[2]) < NumTors
    BY <1>1, FlatNumbers
  <1>5. ASSUME FlatIndex(s[1], s[2]) = FlatIndex(t[1], t[2]) PROVE s = t
    BY <1>1, <1>5, FlatNumbers
  <1>6. QED
    BY <1>2, <1>3, <1>4, <1>5

---------------------------------------------------------------------------
(* The processes of the nodes.  The loops place the ToRs in the order of   *)
(* their flat numbers, and the counter, from which a process is computed,  *)
(* lags behind them by one after the pair that stays together.             *)

Counter(t) == IF options.offloadAggs /\ Half >= 2 /\ t > Half + 1 THEN t - 1 ELSE t

PairPlaced(t) ==
    LET s == PodAndIndex(t)
        system == Counter(t) \div Step(PodProcs)
    IN  /\ edgeSystem[s] = system
        /\ aggSystem[s] = IF options.offloadAggs /\ ~Together(s) THEN system + PodProcs ELSE system

ServersPlaced(t) == serverSystem[PodAndIndex(t)] = t \div Step(options.podProcs)

CoresPlaced ==
    options.mpi => \A c \in Core : coreSystem[c] =
        IF options.offloadCore THEN CoreOffloaded(CoreIndex(c[1], c[2]))
        ELSE CoreIndex(c[1], c[2]) % options.count

PlacementTyped ==
    /\ options \in Options /\ Accepted(options)
    /\ placing \in {"cores", "pods", "servers", "placed", "trapped"}
    /\ tor \in Nat /\ tor < NumTors
    /\ coreSystem = [c \in Core |-> coreSystem[c]]
    /\ aggSystem = [s \in Edge |-> aggSystem[s]]
    /\ edgeSystem = [s \in Edge |-> edgeSystem[s]]
    /\ serverSystem = [s \in Edge |-> serverSystem[s]]

PodsProgress ==
    /\ placing = "cores" => tor = 0 /\ sysIdCounter = 0
    /\ placing = "pods" /\ options.mpi => sysIdCounter = Counter(tor)
    /\ placing = "pods" /\ ~options.mpi => tor = 0 /\ sysIdCounter = 0
    /\ placing = "pods" /\ options.mpi => \A t \in Nat : t < tor => PairPlaced(t)
    /\ placing \in {"servers", "placed"} /\ options.mpi =>
            /\ PodProcs # 0
            /\ \A t \in Nat : t < NumTors => PairPlaced(t)

ServersProgress ==
    /\ placing = "servers" => sysIdCounter = tor /\ \A t \in Nat : t < tor => ServersPlaced(t)
    /\ placing = "placed" => \A t \in Nat : t < NumTors => ServersPlaced(t)

PlacementInv ==
    /\ PlacementTyped /\ PodsProgress /\ ServersProgress
    /\ placing # "cores" => CoresPlaced

LEMMA TorsExist == NumTors \in Nat /\ NumTors >= 1
  <1>1. 0 * Half + Half <= NumPods * Half /\ NumPods * Half \in Nat
    BY Sizes, LessByAFactor
  <1>2. QED
    BY <1>1, Sizes DEF NumTors

LEMMA OtherTors ==
    ASSUME NEW t \in Nat, t < NumTors, NEW u \in Nat, u < NumTors,
           PodAndIndex(t) = PodAndIndex(u)
    PROVE  t = u
  BY TorNumbers

(* The pair that stays together, by its flat number.                       *)
LEMMA TogetherIs ==
    ASSUME NEW t \in Nat, t < NumTors
    PROVE  Together(PodAndIndex(t)) <=> options.offloadAggs /\ Half >= 2 /\ t = Half + 1
  <1>1. ASSUME PodAndIndex(t) = <<1, 1>> PROVE Half >= 2 /\ t = Half + 1
    <2>1. <<1, 1>> \in Edge /\ FlatIndex(1, 1) = t
      BY <1>1, TorNumbers
    <2>2. 1 \in Idx
      BY <2>1 DEF Edge
    <2>3. QED
      BY <2>1, <2>2, Sizes DEF FlatIndex, Idx
  <1>2. ASSUME Half >= 2, t = Half + 1 PROVE PodAndIndex(t) = <<1, 1>>
    <2>1. (1 * Half + 1) \div Half = 1 /\ (1 * Half + 1) % Half = 1
      BY <1>2, Sizes, QuotientIs
    <2>2. QED
      BY <1>2, <2>1, Sizes DEF PodAndIndex
  <1>3. QED
    BY <1>1, <1>2 DEF Together

LEMMA InitPlacement == PlacementInit => PlacementInv
  BY TorsExist, SwitchParts DEF PlacementInit, PlacementInv, PlacementTyped, PodsProgress,
     ServersProgress, Agg, Edge

LEMMA CoresStep == ASSUME PlacementInv, CreateCores PROVE PlacementInv'
  <1>1. /\ placing = "cores" /\ placing' = "pods" /\ tor = 0 /\ sysIdCounter = 0
        /\ UNCHANGED <<options, tor, sysIdCounter, aggSystem, edgeSystem, serverSystem>>
    BY DEF PlacementInv, PodsProgress, CreateCores
  <1>2. CoresPlaced'
    BY <1>1 DEF CreateCores, CoresPlaced, CoreOffloaded
  <1>3. PlacementTyped'
    BY <1>1 DEF PlacementInv, PlacementTyped, CreateCores
  <1>4. PodsProgress'
    BY <1>1, Sizes DEF PodsProgress, Counter
  <1>5. ServersProgress'
    BY <1>1 DEF ServersProgress
  <1>6. QED
    BY <1>2, <1>3, <1>4, <1>5 DEF PlacementInv

LEMMA PairStep == ASSUME PlacementInv, CreatePair PROVE PlacementInv'
  <1> DEFINE s == PodAndIndex(tor)
             system == sysIdCounter \div Step(PodProcs)
             away == options.offloadAggs /\ ~Together(s)
  <1>1. /\ placing = "pods" /\ options.mpi /\ PodProcs # 0
        /\ edgeSystem' = [edgeSystem EXCEPT ![s] = system]
        /\ aggSystem' = [aggSystem EXCEPT ![s] = IF away THEN system + PodProcs ELSE system]
        /\ sysIdCounter' = IF tor + 1 = NumTors THEN 0
                           ELSE IF Together(s) THEN sysIdCounter ELSE sysIdCounter + 1
        /\ NextTor("servers")
        /\ UNCHANGED <<options, coreSystem, serverSystem>>
    BY DEF CreatePair
  <1>2. /\ tor \in Nat /\ tor < NumTors /\ NumTors \in Nat /\ s \in Edge
        /\ sysIdCounter = Counter(tor)
    BY <1>1, TorsExist, TorNumbers DEF PlacementInv, PlacementTyped, PodsProgress
  <1>3. CoresPlaced /\ CoresPlaced'
    BY <1>1 DEF PlacementInv, CoresPlaced, CoreOffloaded
  <1>4. /\ \A x, f : Counter(x)' = Counter(x) /\ Step(f)' = Step(f)
        /\ PodProcs' = PodProcs /\ \A x : Together(x)' = Together(x)
    BY <1>1 DEF Counter, Step, PodProcs, Together
  <1>5. PlacementTyped'
    <2>1. /\ tor' \in Nat /\ tor' < NumTors /\ placing' \in {"pods", "servers"}
      BY <1>1, <1>2, TorsExist DEF NextTor
    <2>2. /\ edgeSystem' = [x \in Edge |-> edgeSystem'[x]]
          /\ aggSystem' = [x \in Edge |-> aggSystem'[x]]
      BY <1>1, <1>2 DEF PlacementInv, PlacementTyped
    <2>3. options' \in Options /\ Accepted(options')
      BY <1>1 DEF PlacementInv, PlacementTyped
    <2>4. QED
      BY <1>1, <2>1, <2>2, <2>3 DEF PlacementInv, PlacementTyped, Accepted
  <1>6. ASSUME NEW t \in Nat, t <= tor
        PROVE  PairPlaced(t)'
    <2> DEFINE u == PodAndIndex(t)
    <2>1. u \in Edge /\ t < NumTors
      BY <1>2, <1>6, TorNumbers
    <2>2. CASE t = tor
      <3>1. /\ edgeSystem'[s] = system
            /\ aggSystem'[s] = IF away THEN system + PodProcs ELSE system
        BY <1>1, <1>2 DEF PlacementInv, PlacementTyped
      <3>2. QED
        BY <1>1, <1>2, <1>4, <2>2, <3>1 DEF PairPlaced
    <2>3. CASE t # tor
      <3>1. PairPlaced(t)
        BY <1>1, <1>2, <1>6, <2>3 DEF PlacementInv, PodsProgress
      <3>2. u # s
        BY <1>2, <2>1, <2>3, OtherTors
      <3>3. edgeSystem'[u] = edgeSystem[u] /\ aggSystem'[u] = aggSystem[u]
        BY <1>1, <2>1, <3>2 DEF PlacementInv, PlacementTyped
      <3>4. QED
        BY <1>1, <1>4, <3>1, <3>3 DEF PairPlaced
    <2>4. QED
      BY <2>2, <2>3
  <1>7. CASE tor + 1 < NumTors
    <2>1. tor' = tor + 1 /\ placing' = "pods"
      BY <1>1, <1>7 DEF NextTor
    <2>2. Together(s) <=> options.offloadAggs /\ Half >= 2 /\ tor = Half + 1
      BY <1>2, TogetherIs
    <2>3. sysIdCounter' = Counter(tor + 1)
      BY <1>1, <1>2, <1>7, <2>2, Sizes DEF Counter
    <2>4. PodsProgress'
      BY <1>1, <1>2, <1>4, <1>6, <2>1, <2>3 DEF PodsProgress
    <2>5. QED
      BY <1>3, <1>5, <2>1, <2>4 DEF PlacementInv, ServersProgress
  <1>8. CASE ~(tor + 1 < NumTors)
    <2>1. tor' = 0 /\ placing' = "servers" /\ sysIdCounter' = 0 /\ tor + 1 = NumTors
      BY <1>1, <1>2, <1>8 DEF NextTor
    <2>2. \A t \in Nat : t < NumTors => t <= tor
      BY <1>2, <2>1
    <2>3. PodsProgress'
      BY <1>1, <1>4, <1>6, <2>1, <2>2 DEF PodsProgress
    <2>4. ServersProgress'
      BY <2>1 DEF ServersProgress
    <2>5. QED
      BY <1>3, <1>5, <2>3, <2>4 DEF PlacementInv
  <1>9. QED
    BY <1>7, <1>8

LEMMA OtherPodSteps ==
    ASSUME PlacementInv, CreatePodsSequential \/ CreatePodsTrap PROVE PlacementInv'
  <1>1. /\ placing = "pods"
        /\ (placing' = "servers" /\ ~options.mpi) \/ (placing' = "trapped" /\ options.mpi)
        /\ UNCHANGED <<options, tor, sysIdCounter, systems>>
    BY DEF CreatePodsSequential, CreatePodsTrap
  <1>2. PlacementTyped'
    BY <1>1 DEF PlacementInv, PlacementTyped, Accepted, systems
  <1>3. CoresPlaced'
    BY <1>1 DEF PlacementInv, CoresPlaced, CoreOffloaded, systems
  <1>4. PodsProgress' /\ ServersProgress'
    BY <1>1 DEF PlacementInv, PodsProgress, ServersProgress, systems
  <1>5. QED
    BY <1>2, <1>3, <1>4 DEF PlacementInv

LEMMA ServersStep == ASSUME PlacementInv, CreateServersOfTor PROVE PlacementInv'
  <1> DEFINE s == PodAndIndex(tor)
  <1>1. /\ placing = "servers"
        /\ serverSystem' = [serverSystem EXCEPT ![s] = sysIdCounter \div Step(options.podProcs)]
        /\ sysIdCounter' = sysIdCounter + 1
        /\ NextTor("placed")
        /\ UNCHANGED <<options, coreSystem, aggSystem, edgeSystem>>
    BY DEF CreateServersOfTor
  <1>2. /\ tor \in Nat /\ tor < NumTors /\ NumTors \in Nat /\ s \in Edge
        /\ sysIdCounter = tor
    BY <1>1, TorsExist, TorNumbers DEF PlacementInv, PlacementTyped, ServersProgress
  <1>3. CoresPlaced /\ CoresPlaced'
    BY <1>1 DEF PlacementInv, CoresPlaced, CoreOffloaded
  <1>4. /\ tor' \in Nat /\ tor' < NumTors
        /\ (tor + 1 < NumTors /\ tor' = tor + 1 /\ placing' = "servers")
            \/ (tor + 1 = NumTors /\ tor' = 0 /\ placing' = "placed")
    BY <1>1, <1>2, TorsExist DEF NextTor
  <1>5. PlacementTyped'
    <2>1. serverSystem' = [x \in Edge |-> serverSystem'[x]]
      BY <1>1, <1>2 DEF PlacementInv, PlacementTyped
    <2>2. QED
      BY <1>1, <1>4, <2>1 DEF PlacementInv, PlacementTyped, Accepted
  <1>6. PodsProgress'
    BY <1>1, <1>4
    DEF PlacementInv, PodsProgress, PairPlaced, Counter, Step, PodProcs, Together
  <1>7. ASSUME NEW t \in Nat, t <= tor PROVE ServersPlaced(t)'
    <2> DEFINE u == PodAndIndex(t)
    <2>1. u \in Edge /\ t < NumTors
      BY <1>2, <1>7, TorNumbers
    <2>2. CASE t = tor
      BY <1>1, <1>2, <2>2 DEF PlacementInv, PlacementTyped, ServersPlaced, Step
    <2>3. CASE t # tor
      <3>1. ServersPlaced(t)
        BY <1>1, <1>2, <1>7, <2>3 DEF PlacementInv, ServersProgress
      <3>2. u # s
        BY <1>2, <2>1, <2>3, OtherTors
      <3>3. serverSystem'[u] = serverSystem[u]
        BY <1>1, <2>1, <3>2 DEF PlacementInv, PlacementTyped
      <3>4. QED
        BY <1>1, <3>1, <3>3 DEF ServersPlaced, Step
    <2>4. QED
      BY <2>2, <2>3
  <1>8. ServersProgress'
    BY <1>1, <1>2, <1>4, <1>7 DEF ServersProgress
  <1>9. QED
    BY <1>3, <1>5, <1>6, <1>8 DEF PlacementInv

LEMMA NextPlacement == PlacementInv /\ [PlacementNext]_placementVars => PlacementInv'
  <1>1. ASSUME PlacementInv, PlacementNext PROVE PlacementInv'
    BY <1>1, CoresStep, PairStep, OtherPodSteps, ServersStep DEF PlacementNext
  <1>2. ASSUME PlacementInv, UNCHANGED placementVars PROVE PlacementInv'
    BY <1>2
    DEF PlacementInv, PlacementTyped, PodsProgress, ServersProgress, CoresPlaced, PairPlaced,
        ServersPlaced, Counter, Step, PodProcs, Together, CoreOffloaded, placementVars, systems
  <1>3. QED
    BY <1>1, <1>2

---------------------------------------------------------------------------
(* What follows of the placement.                                          *)

LEMMA OptionTypes ==
    ASSUME PlacementInv
    PROVE  /\ options.podProcs \in Nat /\ options.podProcs >= 1
           /\ options.coreProcs \in Nat /\ options.coreProcs >= 1
           /\ options.count \in Nat /\ options.count >= 1
           /\ PodProcs \in Nat
           /\ options.offloadAggs => 2 * PodProcs <= options.podProcs
           /\ ~options.offloadAggs => PodProcs = options.podProcs
           /\ options.offloadCore /\ options.mpi =>
                options.count = options.coreProcs + options.podProcs
  <1>1. /\ options.podProcs \in 1 .. MaxProcs /\ options.coreProcs \in 1 .. MaxProcs
        /\ options.count \in 1 .. 2 * MaxProcs /\ MaxProcs \in Nat /\ Accepted(options)
    BY ProcsAssumption DEF PlacementInv, PlacementTyped, Options
  <1>2. /\ options.podProcs \in Nat /\ options.podProcs >= 1
        /\ options.coreProcs \in Nat /\ options.coreProcs >= 1
        /\ options.count \in Nat /\ options.count >= 1
    BY <1>1
  <1>3. /\ options.podProcs \div 2 \in Nat
        /\ 2 * (options.podProcs \div 2) <= options.podProcs
    BY <1>2
  <1>4. options.offloadCore /\ options.mpi =>
            options.count = options.coreProcs + options.podProcs
    BY <1>1 DEF Accepted
  <1>5. QED
    BY <1>2, <1>3, <1>4 DEF PodProcs

LEMMA Steps ==
    ASSUME NEW procs \in Nat, procs >= 1
    PROVE  /\ Step(procs) \in Nat /\ Step(procs) >= 1
           /\ Step(procs) = IF NumTors > procs THEN NumTors \div procs ELSE 1
  <1> DEFINE q == NumTors \div procs
             r == NumTors % procs
  <1>1. q \in Nat /\ r \in Nat /\ r < procs /\ NumTors = q * procs + r /\ NumTors \in Nat
    BY TorsExist, Quotient
  <1>2. NumTors > procs => q # 0
    <2> SUFFICES ASSUME NumTors > procs, q = 0 PROVE FALSE
      OBVIOUS
    <2> HIDE DEF q, r
    <2>1. q * procs = 0
      OBVIOUS
    <2>2. QED
      BY <1>1, <2>1
  <1>3. ASSUME NumTors = procs PROVE q = 1
    <2>1. (1 * procs + 0) \div procs = 1
      BY QuotientIs
    <2>2. QED
      BY <1>3, <2>1
  <1>4. ASSUME NumTors < procs PROVE q = 0
    <2>1. (0 * procs + NumTors) \div procs = 0
      BY <1>1, <1>4, QuotientIs
    <2>2. QED
      BY <1>1, <2>1
  <1>5. Step(procs) = IF q = 0 THEN 1 ELSE q
    BY DEF Step
  <1> HIDE DEF q, r
  <1>6. Step(procs) = IF NumTors > procs THEN q ELSE 1
    BY <1>1, <1>2, <1>3, <1>4, <1>5
  <1>7. Step(procs) \in Nat /\ Step(procs) >= 1
    BY <1>1, <1>5
  <1>8. QED
    BY <1>6, <1>7 DEF q

LEMMA ServersFollow == PlacementInv => ServersWhereComputed
  <1> SUFFICES ASSUME PlacementInv, options.mpi, placing = "placed",
                      NEW s \in Edge, NEW k \in Servers
               PROVE  serverSystem[s] = SystemIdOfServer(FlatIndex(s[1], s[2]) * NumServers + k)
    BY DEF ServersWhereComputed, SystemIdsAsAsserted
  <1> DEFINE t == FlatIndex(s[1], s[2])
  <1>1. s = <<s[1], s[2]>> /\ s[1] \in Pods /\ s[2] \in Idx /\ k \in Nat /\ k < NumServers
    BY SwitchParts DEF Edge
  <1>2. t \in Nat /\ t < NumTors /\ PodAndIndex(t) = s
    BY <1>1, FlatNumbers
  <1>3. serverSystem[s] = t \div Step(options.podProcs)
    BY <1>2 DEF PlacementInv, ServersProgress, ServersPlaced
  <1>4. (t * NumServers + k) \div NumServers = t
    BY <1>1, <1>2, Sizes, QuotientIs
  <1>5. Step(options.podProcs)
            = IF NumTors > options.podProcs THEN NumTors \div options.podProcs ELSE 1
    BY OptionTypes, Steps
  <1>6. QED
    BY <1>3, <1>4, <1>5 DEF SystemIdOfServer

LEMMA CommandedFollow == PlacementInv => CommandedCablesAreLocal
  <1> SUFFICES ASSUME PlacementInv, options.mpi, placing = "placed"
               PROVE  /\ ~options.offloadAggs => coreSystem[<<0, 0>>] = aggSystem[<<0, 0>>]
                      /\ \A s \in Edge : aggSystem[s] = edgeSystem[s]
                            <=> (options.offloadAggs => s = <<1, 1>>)
    BY DEF CommandedCablesAreLocal
  <1>1. PodProcs \in Nat /\ PodProcs # 0 /\ \A t \in Nat : t < NumTors => PairPlaced(t)
    BY OptionTypes DEF PlacementInv, PodsProgress
  <1>2. Step(PodProcs) \in Nat /\ Step(PodProcs) >= 1
    BY <1>1, Steps
  <1>3. ASSUME ~options.offloadAggs PROVE coreSystem[<<0, 0>>] = aggSystem[<<0, 0>>]
    <2>1. <<0, 0>> \in Edge /\ <<0, 0>> \in Core /\ 0 \in Pods /\ 0 \in Idx
      BY Sizes DEF Edge, Core, Pods, Idx
    <2>2. PodAndIndex(0) = <<0, 0>> /\ 0 < NumTors
      BY <2>1, Sizes, FlatNumbers, TorsExist DEF FlatIndex
    <2>3. aggSystem[<<0, 0>>] = 0 \div Step(PodProcs)
      BY <1>1, <1>3, <2>2 DEF PairPlaced, Counter
    <2>4. (0 * Step(PodProcs) + 0) \div Step(PodProcs) = 0
      BY <1>2, QuotientIs
    <2>5. CoreIndex(0, 0) = 0
      BY Sizes DEF CoreIndex
    <2>6. coreSystem[<<0, 0>>] = IF options.offloadCore THEN CoreOffloaded(0)
                                 ELSE 0 % options.count
      BY <2>1, <2>5 DEF PlacementInv, CoresPlaced
    <2>7. 0 % options.count = 0
      BY OptionTypes
    <2>8. QED
      BY <1>2, <2>3, <2>4, <2>6, <2>7 DEF CoreOffloaded
  <1>4. ASSUME NEW s \in Edge
        PROVE  aggSystem[s] = edgeSystem[s] <=> (options.offloadAggs => s = <<1, 1>>)
    <2> DEFINE t == FlatIndex(s[1], s[2])
               system == Counter(t) \div Step(PodProcs)
    <2>1. t \in Nat /\ t < NumTors /\ PodAndIndex(t) = s
      BY FlatNumbers DEF Edge
    <2>2. Counter(t) \in Nat
      BY <2>1, Sizes DEF Counter
    <2>3. system \in Nat
      BY <1>2, <2>2, Quotient
    <2>4. /\ edgeSystem[s] = system
          /\ aggSystem[s] = IF options.offloadAggs /\ ~Together(s) THEN system + PodProcs
                            ELSE system
      BY <1>1, <2>1 DEF PairPlaced
    <2> HIDE DEF system
    <2>5. QED
      BY <1>1, <2>3, <2>4 DEF Together
  <1>5. QED
    BY <1>3, <1>4

(* Where the nodes of one ToR are when the aggregates are not offloaded.   *)
LEMMA PlacedByTor ==
    ASSUME PlacementInv, placing = "placed", options.mpi, ~options.offloadAggs, NEW s \in Edge
    PROVE  LET system == FlatIndex(s[1], s[2]) \div Step(options.podProcs) IN
           edgeSystem[s] = system /\ aggSystem[s] = system /\ serverSystem[s] = system
  <1> DEFINE t == FlatIndex(s[1], s[2])
  <1>1. t \in Nat /\ t < NumTors /\ PodAndIndex(t) = s
    BY FlatNumbers DEF Edge
  <1>2. PairPlaced(t) /\ ServersPlaced(t)
    BY <1>1 DEF PlacementInv, PodsProgress, ServersProgress
  <1>3. PodProcs = options.podProcs
    BY OptionTypes
  <1>4. QED
    BY <1>1, <1>2, <1>3 DEF PairPlaced, ServersPlaced, Counter

(* With m whole pods to a process, the pod alone decides.                  *)
LEMMA WholePods ==
    ASSUME PlacementInv, NumPods % options.podProcs = 0, NEW p \in Pods, NEW e \in Idx
    PROVE  FlatIndex(p, e) \div Step(options.podProcs)
                = p \div (NumPods \div options.podProcs)
  <1> DEFINE procs == options.podProcs
             m == NumPods \div procs
             q == p \div m
             r == p % m
  <1>1. procs \in Nat /\ procs >= 1
    BY OptionTypes
  <1>2. m \in Nat /\ NumPods = m * procs + 0
    <2>1. m \in Nat /\ NumPods = (NumPods \div procs) * procs + (NumPods % procs)
      BY <1>1, Sizes, Quotient
    <2>2. QED
      BY <2>1
  <1>3. p \in Nat /\ e \in Nat /\ p < NumPods /\ e < Half
    BY SwitchParts
  <1> HIDE DEF procs, m
  <1>4. m >= 1
    <2> SUFFICES ASSUME m = 0 PROVE FALSE
      BY <1>2
    <2>1. m * procs = 0
      BY <1>1
    <2>2. QED
      BY <1>2, <2>1, Sizes
  <1>5. NumTors = (m * Half) * procs + 0 /\ m * Half \in Nat
    BY <1>1, <1>2, Sizes DEF NumTors
  <1>6. 0 * Half + Half <= m * Half
    BY <1>2, <1>4, Sizes, LessByAFactor
  <1>7. Step(procs) = m * Half
    <2>1. NumTors \div procs = m * Half
      BY <1>1, <1>5, QuotientIs
    <2>2. QED
      BY <1>5, <1>6, <2>1, Sizes DEF Step
  <1>8. q \in Nat /\ r \in Nat /\ r < m /\ p = q * m + r
    <2>1. p = (p \div m) * m + (p % m) /\ q \in Nat /\ r \in Nat /\ r < m
      BY <1>2, <1>3, <1>4, Quotient
    <2>2. QED
      BY <2>1
  <1> HIDE DEF q, r
  <1>9. r * Half + e < m * Half /\ r * Half + e \in Nat
    <2>1. r * Half + Half <= m * Half /\ r * Half \in Nat
      BY <1>2, <1>8, Sizes, LessByAFactor
    <2>2. QED
      BY <1>3, <1>5, <2>1, Sizes
  <1>10. FlatIndex(p, e) = q * (m * Half) + (r * Half + e)
    <2>1. p * Half = q * (m * Half) + r * Half
      BY <1>2, <1>8, Sizes
    <2>2. q * (m * Half) \in Nat /\ r * Half \in Nat
      BY <1>2, <1>8, Sizes
    <2>3. QED
      BY <1>3, <2>1, <2>2 DEF FlatIndex
  <1>11. FlatIndex(p, e) \div (m * Half) = q
    <2> DEFINE d == m * Half
               x == r * Half + e
    <2>1. d \in Nat /\ x \in Nat /\ x < d /\ FlatIndex(p, e) = q * d + x
      BY <1>5, <1>9, <1>10
    <2> HIDE DEF d, x
    <2>2. FlatIndex(p, e) \div d = q
      BY <1>8, <2>1, QuotientIs
    <2>3. QED
      BY <2>2 DEF d
  <1>12. QED
    BY <1>7, <1>11 DEF q, m, procs

(* With two processes to a pod, the process tells the pod.                 *)
LEMMA HalfPods ==
    ASSUME PlacementInv, options.podProcs = 2 * NumPods, Half % 2 = 0,
           NEW p \in Pods, NEW e \in Idx
    PROVE  FlatIndex(p, e) \div Step(options.podProcs) \in {2 * p, 2 * p + 1}
  <1> DEFINE h == Half \div 2
             x == e \div h
             y == e % h
  <1>1. h \in Nat /\ Half = 2 * h /\ h >= 1
    BY Sizes
  <1>2. p \in Nat /\ e \in Nat /\ p < NumPods /\ e < Half
    BY SwitchParts
  <1> HIDE DEF h
  <1>3. Step(options.podProcs) = h
    <2>1. NumTors = h * (2 * NumPods) + 0 /\ 2 * NumPods \in Nat
      BY <1>1, Sizes DEF NumTors
    <2>2. NumTors \div (2 * NumPods) = h
      BY <1>1, <2>1, Sizes, QuotientIs
    <2>3. QED
      BY <1>1, <2>2 DEF Step
  <1>4. x \in Nat /\ y \in Nat /\ y < h /\ e = x * h + y
    <2>1. e = (e \div h) * h + (e % h) /\ x \in Nat /\ y \in Nat /\ y < h
      BY <1>1, <1>2, Quotient
    <2>2. QED
      BY <2>1
  <1>5. x < 2
    BY <1>1, <1>2, QuotientBelow
  <1> HIDE DEF x, y
  <1>6. FlatIndex(p, e) = (2 * p + x) * h + y
    <2>1. p * Half = (2 * p) * h /\ (2 * p + x) * h = (2 * p) * h + x * h
      BY <1>1, <1>2, <1>4
    <2>2. (2 * p) * h \in Nat /\ x * h \in Nat
      BY <1>1, <1>2, <1>4
    <2>3. QED
      BY <1>4, <2>1, <2>2 DEF FlatIndex
  <1>7. FlatIndex(p, e) \div h = 2 * p + x
    <2> DEFINE q == 2 * p + x
    <2>1. q \in Nat /\ FlatIndex(p, e) = q * h + y
      BY <1>2, <1>4, <1>6
    <2> HIDE DEF q
    <2>2. FlatIndex(p, e) \div h = q
      BY <1>1, <1>4, <2>1, QuotientIs
    <2>3. QED
      BY <2>2 DEF q
  <1>8. QED
    BY <1>2, <1>3, <1>4, <1>5, <1>7

LEMMA TogetherFollow == PlacementInv => PodsTogether
  <1> SUFFICES ASSUME PlacementInv, placing = "placed", options.mpi, ~options.offloadAggs
               PROVE  PodsTogether
    BY DEF PodsTogether
  <1>1. ASSUME NumPods % options.podProcs = 0, NEW s \in Edge, NEW t \in Edge, s[1] = t[1]
        PROVE  edgeSystem[s] = aggSystem[t] /\ edgeSystem[s] = serverSystem[t]
    BY <1>1, PlacedByTor, WholePods DEF Edge
  <1>2. ASSUME options.podProcs = 2 * NumPods, Half % 2 = 0, NEW s \in Edge, NEW t \in Edge
        PROVE  /\ edgeSystem[s] = edgeSystem[t] => s[1] = t[1]
               /\ edgeSystem[s] = aggSystem[s] /\ edgeSystem[s] = serverSystem[s]
    <2>1. /\ s[1] \in Pods /\ s[2] \in Idx /\ t[1] \in Pods /\ t[2] \in Idx
          /\ s[1] \in Nat /\ t[1] \in Nat
      BY SwitchParts DEF Edge
    <2>2. edgeSystem[s] \in {2 * s[1], 2 * s[1] + 1} /\ edgeSystem[t] \in {2 * t[1], 2 * t[1] + 1}
      BY <1>2, <2>1, PlacedByTor, HalfPods
    <2>3. QED
      BY <2>1, <2>2, PlacedByTor
  <1>3. QED
    BY <1>1, <1>2 DEF PodsTogether

(* Procs processes that share the ToRs evenly, or suffice for all of them. *)
LEMMA WithinProcs ==
    ASSUME NEW procs \in Nat, procs >= 1, Divides(procs), NEW t \in Nat, t < NumTors
    PROVE  t \div Step(procs) \in Nat /\ t \div Step(procs) < procs
  <1>1. Step(procs) \in Nat /\ Step(procs) >= 1 /\ NumTors \in Nat /\ NumTors >= 1
    BY Steps, TorsExist
  <1>2. t \div Step(procs) \in Nat
    BY <1>1, Quotient
  <1>3. CASE NumTors % procs = 0
    <2> DEFINE q == NumTors \div procs
    <2>1. NumTors = (NumTors \div procs) * procs + (NumTors % procs) /\ q \in Nat
      BY <1>1, Quotient
    <2>2. NumTors = q * procs
      BY <1>3, <2>1
    <2> HIDE DEF q
    <2>3. q >= 1
      <3> SUFFICES ASSUME q = 0 PROVE FALSE
        BY <2>1
      <3>1. QED
        BY <1>1, <2>2
    <2>4. Step(procs) = q
      BY <2>3 DEF Step, q
    <2>5. t < procs * q
      BY <2>1, <2>2
    <2>6. t \div q < procs
      BY <2>1, <2>3, <2>5, QuotientBelow
    <2>7. QED
      BY <1>2, <2>4, <2>6
  <1>4. CASE NumTors < procs
    <2>1. Step(procs) = 1
      BY <1>1, <1>4, Steps
    <2>2. t \div 1 = t
      BY QuotientIs
    <2>3. QED
      BY <1>1, <1>4, <2>1, <2>2
  <1>5. QED
    BY <1>3, <1>4 DEF Divides

LEMMA ProcessesFollow == PlacementInv => ProcessesExist
  <1> SUFFICES ASSUME PlacementInv, placing = "placed", options.mpi,
                      options.podProcs <= options.count,
                      Divides(PodProcs), Divides(options.podProcs)
               PROVE  /\ \A c \in Core : coreSystem[c] < options.count
                      /\ \A s \in Edge : /\ aggSystem[s] < options.count
                                         /\ edgeSystem[s] < options.count
                                         /\ serverSystem[s] < options.count
    BY DEF ProcessesExist
  <1> DEFINE podProcs == options.podProcs
             count == options.count
  <1>1. /\ podProcs \in Nat /\ podProcs >= 1 /\ count \in Nat /\ count >= 1
        /\ PodProcs \in Nat /\ PodProcs >= 1
        /\ options.offloadAggs => 2 * PodProcs <= podProcs
        /\ ~options.offloadAggs => PodProcs = podProcs
    <2>1. PodProcs # 0
      BY DEF Divides
    <2>2. QED
      BY <2>1, OptionTypes
  <1>2. ASSUME NEW c \in Core PROVE coreSystem[c] < count
    <2> DEFINE k == CoreIndex(c[1], c[2])
    <2>1. k \in Nat
      BY CoreNumbers DEF Core
    <2>2. coreSystem[c] = IF options.offloadCore THEN CoreOffloaded(k) ELSE k % count
      BY DEF PlacementInv, CoresPlaced
    <2> HIDE DEF k
    <2>3. CASE options.offloadCore
      <3> DEFINE d == count - podProcs
      <3>1. d \in Nat /\ d >= 1
        BY <2>3, OptionTypes
      <3>2. k % d \in Nat /\ k % d < d
        BY <2>1, <3>1, Quotient
      <3>3. CoreOffloaded(k) = IF k = 0 THEN 0 ELSE podProcs + (k % d)
        BY DEF CoreOffloaded
      <3> DEFINE y == k % d
      <3>4. y \in Nat /\ y < count - podProcs
        BY <3>2
      <3>5. coreSystem[c] = IF k = 0 THEN 0 ELSE podProcs + y
        BY <2>2, <2>3, <3>3
      <3> HIDE DEF y, d
      <3>6. QED
        BY <1>1, <3>4, <3>5
    <2>4. CASE ~options.offloadCore
      <3>1. k % count < count
        BY <1>1, <2>1, Quotient
      <3>2. QED
        BY <2>2, <2>4, <3>1
    <2>5. QED
      BY <2>3, <2>4
  <1>3. ASSUME NEW s \in Edge
        PROVE  aggSystem[s] < count /\ edgeSystem[s] < count /\ serverSystem[s] < count
    <2> DEFINE t == FlatIndex(s[1], s[2])
               system == Counter(t) \div Step(PodProcs)
               servers == t \div Step(podProcs)
    <2>1. t \in Nat /\ t < NumTors /\ PodAndIndex(t) = s
      BY FlatNumbers DEF Edge
    <2>2. Counter(t) \in Nat /\ Counter(t) < NumTors
      BY <2>1, TorsExist, Sizes DEF Counter
    <2>3. system \in Nat /\ system < PodProcs
      BY <1>1, <2>2, WithinProcs
    <2>4. servers \in Nat /\ servers < podProcs
      BY <1>1, <2>1, WithinProcs
    <2>5. PairPlaced(t) /\ ServersPlaced(t)
      BY <2>1 DEF PlacementInv, PodsProgress, ServersProgress
    <2>6. /\ edgeSystem[s] = system /\ serverSystem[s] = servers
          /\ aggSystem[s] \in {system, system + PodProcs}
          /\ ~options.offloadAggs => aggSystem[s] = system
      BY <2>1, <2>5 DEF PairPlaced, ServersPlaced
    <2> HIDE DEF system, servers
    <2>7. QED
      BY <1>1, <2>3, <2>4, <2>6
  <1>4. QED
    BY <1>2, <1>3

---------------------------------------------------------------------------
(* The set-up as a whole.                                                  *)

HasLinks == setup \in {"addresses", "interfaces", "routes", "ready"}

(* Placement and numbering stand where their loops are, and what a loop    *)
(* that is over has filled in is known in full.                            *)
SetupInv ==
    /\ PlacementInv
    /\ InterfacesInv
    /\ setup \in {"nodes", "links", "addresses", "interfaces", "routes", "ready"}
    /\ HasLinks => /\ edgeToAggLinks = EdgeCables
                   /\ aggToCoreLinks = CoreCables
                   /\ serverToEdgeLinks = ServerCables
                   /\ serverDevices = [s \in Edge |-> [k \in Servers |-> <<s[1], s[2], k>>]]
    /\ setup \in {"interfaces", "routes", "ready"} =>
            serverAddress = [n \in Server |-> <<n[1], n[2], n[3] + 1>>]
    /\ setup \in {"routes", "ready"} => phase = "done"

LEMMA InitSetup == Init => SetupInv
  BY InitPlacement, InitInterfaces DEF Init, SetupInv, HasLinks

(* A device is that of one server only, and so the address is its own.     *)
LEMMA AddressesStep ==
    ASSUME SetupInv, AssignServerIps
    PROVE  serverAddress' = [n \in Server |-> <<n[1], n[2], n[3] + 1>>]
  <1> DEFINE address(n) == LET s == CHOOSE t \in Edge : \E k \in Servers : serverDevices[t][k] = n
                               k == CHOOSE x \in Servers : serverDevices[s][x] = n
                           IN  <<s[1], s[2], HostNumber(k)>>
  <1>1. /\ serverDevices = [s \in Edge |-> [k \in Servers |-> <<s[1], s[2], k>>]]
        /\ serverAddress' = [n \in Server |-> address(n)]
    BY DEF SetupInv, HasLinks, AssignServerIps
  <1>2. ASSUME NEW n \in Server
        PROVE  address(n) = <<n[1], n[2], n[3] + 1>>
    <2> DEFINE s == CHOOSE t \in Edge : \E k \in Servers : serverDevices[t][k] = n
               k == CHOOSE x \in Servers : serverDevices[s][x] = n
    <2>1. PICK u \in Edge, m \in Servers : n = <<u[1], u[2], m>>
      BY DEF Server
    <2>2. \A t \in Edge, x \in Servers : serverDevices[t][x] = <<t[1], t[2], x>>
      BY <1>1
    <2>3. s \in Edge /\ \E x \in Servers : serverDevices[s][x] = n
      <3>1. serverDevices[u][m] = n
        BY <2>1, <2>2
      <3>2. \E t \in Edge : \E x \in Servers : serverDevices[t][x] = n
        BY <3>1
      <3>3. QED
        BY <3>2
    <2> HIDE DEF s
    <2>4. k \in Servers /\ serverDevices[s][k] = n
      BY <2>3
    <2> HIDE DEF k
    <2>5. <<s[1], s[2], k>> = n
      BY <2>2, <2>3, <2>4
    <2>6. n[1] = s[1] /\ n[2] = s[2] /\ n[3] = k
      BY <2>5
    <2>7. <<s[1], s[2], HostNumber(k)>> = <<n[1], n[2], n[3] + 1>>
      BY <2>6 DEF HostNumber
    <2>8. QED
      BY <2>7 DEF s, k
  <1> HIDE DEF address
  <1>3. QED
    BY <1>1, <1>2

LEMMA NextSetup == SetupInv /\ [Next]_vars => SetupInv'
  <1> SUFFICES ASSUME SetupInv, [Next]_vars PROVE SetupInv'
    OBVIOUS
  <1>1. CASE CreateNodes
    <2>1. PlacementInv'
      BY <1>1, NextPlacement DEF CreateNodes, SetupInv
    <2>2. InterfacesInv'
      BY <1>1, NextInterfaces DEF CreateNodes, SetupInv
    <2>3. QED
      BY <1>1, <2>1, <2>2 DEF CreateNodes, SetupInv, HasLinks
  <1>2. CASE CreateLinks
    <2>1. PlacementInv' /\ InterfacesInv'
      BY <1>2, NextPlacement, NextInterfaces DEF CreateLinks, SetupInv
    <2>2. setup' = "addresses"
      BY <1>2 DEF CreateLinks
    <2>3. QED
      BY <1>2, <2>1, <2>2 DEF CreateLinks, SetupInv, HasLinks
  <1>3. CASE AssignServerIps
    <2>1. PlacementInv' /\ InterfacesInv'
      BY <1>3, NextPlacement, NextInterfaces DEF AssignServerIps, SetupInv
    <2>2. serverAddress' = [n \in Server |-> <<n[1], n[2], n[3] + 1>>]
      BY <1>3, AddressesStep
    <2>3. setup = "addresses" /\ setup' = "interfaces" /\ UNCHANGED linkMaps
      BY <1>3 DEF AssignServerIps
    <2>4. QED
      BY <2>1, <2>2, <2>3 DEF SetupInv, HasLinks, linkMaps
  <1>4. CASE CreateFabricInterfaces
    <2>1. PlacementInv'
      BY <1>4, NextPlacement DEF CreateFabricInterfaces, SetupInv
    <2>2. InterfacesInv'
      BY <1>4, NextInterfaces DEF CreateFabricInterfaces, SetupInv
    <2>3. /\ setup = "interfaces" /\ setup' = IF phase' = "done" THEN "routes" ELSE "interfaces"
          /\ UNCHANGED <<linkMaps, serverAddress>>
      BY <1>4 DEF CreateFabricInterfaces
    <2>4. QED
      BY <2>1, <2>2, <2>3 DEF SetupInv, HasLinks, linkMaps
  <1>5. CASE SetupRoutes
    <2>1. PlacementInv' /\ InterfacesInv'
      BY <1>5, NextPlacement, NextInterfaces DEF SetupRoutes, SetupInv
    <2>2. /\ setup = "routes" /\ setup' = "ready"
          /\ UNCHANGED <<linkMaps, serverAddress, phase>>
      BY <1>5 DEF SetupRoutes, interfacesVars, position
    <2>3. QED
      BY <2>1, <2>2 DEF SetupInv, HasLinks, linkMaps
  <1>6. CASE UNCHANGED vars
    <2>1. PlacementInv' /\ InterfacesInv'
      BY <1>6, NextPlacement, NextInterfaces DEF vars, SetupInv
    <2>2. UNCHANGED <<setup, linkMaps, serverAddress, phase>>
      BY <1>6 DEF vars, interfacesVars, position
    <2>3. QED
      BY <2>1, <2>2 DEF SetupInv, HasLinks, linkMaps
  <1>7. QED
    BY <1>1, <1>2, <1>3, <1>4, <1>5, <1>6 DEF Next

---------------------------------------------------------------------------
(* What follows of the set-up.                                             *)

LEMMA CablesFollow == SetupInv => NextCableExists
  <1> SUFFICES ASSUME SetupInv, setup = "interfaces" PROVE NextCableExists
    BY DEF NextCableExists
  <1>1. /\ edgeToAggLinks = EdgeCables /\ aggToCoreLinks = CoreCables
        /\ serverToEdgeLinks = ServerCables /\ PositionOK
    BY DEF SetupInv, HasLinks, InterfacesInv
  <1>2. pod \in Pods /\ i \in Idx
    BY <1>1, CurrentSwitches
  <1>3. ASSUME phase = "server"
        PROVE  Cable(FlatIndex(pod, i), NumServers * FlatIndex(pod, i) + j,
                     <<pod, i, j>>, <<pod, i>>) \in serverToEdgeLinks
    <2> DEFINE s == <<pod, i>>
               t == FlatIndex(pod, i)
    <2>1. j \in Servers /\ s \in Edge /\ j \in Nat
      BY <1>1, <1>2, <1>3, CurrentSwitches, SwitchParts DEF Edge
    <2>2. t \in Nat /\ NumServers * t \in Nat
      BY <1>2, FlatNumbers, Sizes
    <2>3. NumServers * t + j = j + NumServers * t
      BY <2>1, <2>2
    <2>4. Cable(FlatIndex(s[1], s[2]), j + NumServers * FlatIndex(s[1], s[2]),
                <<s[1], s[2], j>>, s) \in ServerCables
      BY <2>1 DEF ServerCables
    <2>5. QED
      BY <1>1, <2>3, <2>4
  <1>4. ASSUME phase = "aggEdge"
        PROVE  Cable(FlatIndex(pod, j), FlatIndex(pod, i), <<pod, j>>, <<pod, i>>)
                    \in edgeToAggLinks
    <2> DEFINE s == <<pod, j>>
    <2>1. s \in Edge
      BY <1>1, <1>2, <1>4, CurrentSwitches DEF Edge
    <2>2. Cable(FlatIndex(s[1], s[2]), FlatIndex(s[1], i), s, <<s[1], i>>) \in EdgeCables
      BY <1>2, <2>1 DEF EdgeCables
    <2>3. QED
      BY <1>1, <2>2
  <1>5. ASSUME phase = "aggCore"
        PROVE  Cable(FlatIndex(pod, i), j * Half + i, <<pod, i>>, <<i, j>>) \in aggToCoreLinks
    <2> DEFINE a == <<pod, i>>
    <2>1. a \in Agg /\ j \in Idx /\ i \in Nat /\ j \in Nat
      BY <1>1, <1>2, <1>5, CurrentSwitches, SwitchParts DEF Agg
    <2>2. CoreAt(CoreIndex(i, j)) = <<i, j>> /\ CoreIndex(i, j) = j * Half + i
      BY <1>2, <2>1, CoreNumbers
    <2>3. i + Half * j = j * Half + i
      BY <2>1, Sizes
    <2>4. Cable(FlatIndex(a[1], a[2]), a[2] + Half * j, a, CoreAt(a[2] + Half * j)) \in CoreCables
      BY <2>1 DEF CoreCables
    <2>5. QED
      BY <1>1, <2>2, <2>3, <2>4
  <1>6. QED
    BY <1>3, <1>4, <1>5 DEF NextCableExists

LEMMA AllNumbered ==
    ASSUME InterfacesInv, phase = "done"
    PROVE  /\ \A s \in Edge, k \in Servers : edgeServerIf[s][k] = k + 1
           /\ \A s \in Edge, a \in Idx : edgeAggIf[s][a] = NumServers + 1 + a
           /\ \A a \in Agg, e \in Idx : aggEdgeIf[a][e] = e + 1
           /\ \A a \in Agg, r \in Idx : aggCoreIf[a][r] = Half + 1 + r
           /\ \A c \in Core, p \in Pods : coreAggIf[c][p] = p + 1
  <1>1. /\ \A s \in Edge : ServersOf[s] = NumServers /\ AggsOf[s] = Half
        /\ \A a \in Agg : EdgesOf[a] = Half /\ RowsOf[a] = Half
        /\ \A c \in Core : PodsOf[c] = NumPods
    BY DEF ServersOf, AggsOf, EdgesOf, RowsOf, PodsOf, ServersDone, AggsDone, EdgesDone,
           RowsDone, PodsDone
  <1>2. NumbersInv
    BY DEF InterfacesInv
  <1>3. \A s \in Edge, k \in Servers : edgeServerIf[s][k] = k + 1
    BY <1>1, <1>2, SwitchParts DEF NumbersInv, Numbered, Number
  <1>4. \A s \in Edge, a \in Idx : edgeAggIf[s][a] = NumServers + 1 + a
    BY <1>1, <1>2, SwitchParts DEF NumbersInv, Numbered, Number
  <1>5. ASSUME NEW a \in Agg, NEW e \in Idx PROVE aggEdgeIf[a][e] = e + 1
    <2>1. aggEdgeIf[a][e] = Number(1, e, Half)
      BY <1>1, <1>2 DEF NumbersInv, Numbered
    <2>2. e \in Nat /\ e < Half
      BY SwitchParts
    <2>3. QED
      BY <2>1, <2>2 DEF Number
  <1>6. \A a \in Agg, r \in Idx : aggCoreIf[a][r] = Half + 1 + r
    BY <1>1, <1>2, SwitchParts DEF NumbersInv, Numbered, Number
  <1>7. \A c \in Core, p \in Pods : coreAggIf[c][p] = p + 1
    BY <1>1, <1>2, SwitchParts DEF NumbersInv, Numbered, Number
  <1>8. QED
    BY <1>3, <1>4, <1>5, <1>6, <1>7

LEMMA ServersFinite == IsFiniteSet(Server)
  <1> DEFINE pairs == Edge \X Servers
             f == [x \in pairs |-> <<x[1][1], x[1][2], x[2]>>]
  <1>1. IsFiniteSet(Pods) /\ IsFiniteSet(Idx) /\ IsFiniteSet(Servers)
    BY Sizes, FS_Interval DEF Pods, Idx, Servers
  <1>2. IsFiniteSet(pairs)
    BY <1>1, FS_Product DEF Edge
  <1>3. f \in Surjection(pairs, Server)
    <2>1. \A x \in pairs : f[x] \in Server
      BY DEF Server
    <2>2. ASSUME NEW n \in Server PROVE \E x \in pairs : f[x] = n
      <3>1. PICK s \in Edge, k \in Servers : n = <<s[1], s[2], k>>
        BY DEF Server
      <3>2. <<s, k>> \in pairs /\ f[<<s, k>>] = n
        BY <3>1
      <3>3. QED
        BY <3>2
    <2>3. f \in [pairs -> Server]
      BY <2>1
    <2>4. QED
      BY <2>2, <2>3 DEF Surjection
  <1>4. QED
    BY <1>2, <1>3, FS_Surjection

LEMMA AddressesApart ==
    ASSUME serverAddress = [n \in Server |-> <<n[1], n[2], n[3] + 1>>]
    PROVE  Cardinality({serverAddress[n] : n \in Server}) = Cardinality(Server)
  <1> DEFINE T == {serverAddress[n] : n \in Server}
  <1>1. serverAddress \in Surjection(Server, T)
    BY DEF Surjection
  <1>2. ASSUME NEW m \in Server, NEW n \in Server, serverAddress[m] = serverAddress[n]
        PROVE  m = n
    <2>1. PICK s \in Edge, k \in Servers : m = <<s[1], s[2], k>>
      BY DEF Server
    <2>2. PICK t \in Edge, x \in Servers : n = <<t[1], t[2], x>>
      BY DEF Server
    <2>3. serverAddress[m] = <<s[1], s[2], k + 1>> /\ serverAddress[n] = <<t[1], t[2], x + 1>>
      BY <2>1, <2>2
    <2>4. s[1] = t[1] /\ s[2] = t[2] /\ k + 1 = x + 1
      BY <1>2, <2>3
    <2>5. k = x
      BY <2>4, SwitchParts
    <2>6. QED
      BY <2>1, <2>2, <2>4, <2>5
  <1>3. serverAddress \in Injection(Server, T)
    BY <1>2 DEF Injection, IsInjective
  <1>4. QED
    BY <1>1, <1>3, ServersFinite, FS_Surjection

LEMMA RoutesFollow == SetupInv => RoutesFollowCables
  <1> SUFFICES ASSUME SetupInv, setup = "ready" PROVE RoutesFollowCables
    BY DEF RoutesFollowCables
  <1>1. /\ InterfacesInv /\ phase = "done"
        /\ serverAddress = [n \in Server |-> <<n[1], n[2], n[3] + 1>>]
    BY DEF SetupInv
  <1>2. /\ \A s \in Edge, k \in Servers : edgeServerIf[s][k] = k + 1
        /\ \A s \in Edge, a \in Idx : edgeAggIf[s][a] = NumServers + 1 + a
        /\ \A a \in Agg, e \in Idx : aggEdgeIf[a][e] = e + 1
        /\ \A a \in Agg, r \in Idx : aggCoreIf[a][r] = Half + 1 + r
        /\ \A c \in Core, p \in Pods : coreAggIf[c][p] = p + 1
    BY <1>1, AllNumbered
  <1>3. ASSUME NEW s \in Edge
        PROVE  HostRoutes(s) =
                {<<serverAddress[<<s[1], s[2], k>>], edgeServerIf[s][k]>> : k \in Servers}
    <2>1. \A k \in Servers : serverAddress[<<s[1], s[2], k>>] = <<s[1], s[2], k + 1>>
      <3> SUFFICES ASSUME NEW k \in Servers
                   PROVE  serverAddress[<<s[1], s[2], k>>] = <<s[1], s[2], k + 1>>
        OBVIOUS
      <3>1. <<s[1], s[2], k>> \in Server
        BY DEF Server
      <3>2. QED
        BY <1>1, <3>1
    <2> DEFINE route(k) == <<<<s[1], s[2], k + 1>>, k + 1>>
               found(k) == <<serverAddress[<<s[1], s[2], k>>], edgeServerIf[s][k]>>
    <2>2. \A k \in Servers : route(k) = found(k)
      BY <1>2, <2>1
    <2>3. HostRoutes(s) = {route(k) : k \in Servers}
      BY DEF HostRoutes
    <2> HIDE DEF route, found
    <2>4. {route(k) : k \in Servers} = {found(k) : k \in Servers}
      BY <2>2
    <2>5. QED
      BY <2>3, <2>4 DEF found
  <1>4. Cardinality({serverAddress[n] : n \in Server}) = Cardinality(Server)
    BY <1>1, AddressesApart
  <1>5. \A a \in Agg : TorRoutes(a) = {<<<<a[1], e>>, aggEdgeIf[a][e]>> : e \in Idx}
    BY <1>2 DEF TorRoutes
  <1>6. \A c \in Core : PodRoutes(c) = {<<p, coreAggIf[c][p]>> : p \in Pods}
    BY <1>2 DEF PodRoutes
  <1>7. ASSUME NEW s \in Edge PROVE EdgeWildcards = {edgeAggIf[s][a] : a \in Idx}
    <2>1. ASSUME NEW x \in EdgeWildcards PROVE \E a \in Idx : x = edgeAggIf[s][a]
      <3>1. x - (NumServers + 1) \in Idx
        BY Sizes DEF EdgeWildcards, Idx
      <3>2. x = NumServers + 1 + (x - (NumServers + 1))
        BY Sizes DEF EdgeWildcards
      <3>3. QED
        BY <1>2, <3>1, <3>2
    <2>2. ASSUME NEW a \in Idx PROVE edgeAggIf[s][a] \in EdgeWildcards
      BY <1>2, Sizes DEF EdgeWildcards, Idx
    <2>3. QED
      BY <2>1, <2>2
  <1>8. ASSUME NEW s \in Agg PROVE AggWildcards = {aggCoreIf[s][r] : r \in Idx}
    <2>1. ASSUME NEW x \in AggWildcards PROVE \E r \in Idx : x = aggCoreIf[s][r]
      <3>1. x - (Half + 1) \in Idx
        BY Sizes DEF AggWildcards, Idx
      <3>2. x = Half + 1 + (x - (Half + 1))
        BY Sizes DEF AggWildcards
      <3>3. QED
        BY <1>2, <3>1, <3>2
    <2>2. ASSUME NEW r \in Idx PROVE aggCoreIf[s][r] \in AggWildcards
      BY <1>2, Sizes DEF AggWildcards, Idx
    <2>3. QED
      BY <2>1, <2>2
  <1>9. QED
    BY <1>3, <1>4, <1>5, <1>6, <1>7, <1>8 DEF RoutesFollowCables

---------------------------------------------------------------------------
(* The results.                                                            *)

LEMMA SetupInvariant == Spec => []SetupInv
  <1>1. Init => SetupInv
    BY InitSetup
  <1>2. SetupInv /\ [Next]_vars => SetupInv'
    BY NextSetup
  <1>3. QED
    BY <1>1, <1>2, PTL DEF Spec

(* Every server is on the process that getSystemIdOfServer computes for    *)
(* it, by which every process decides whose applications and probes it     *)
(* installs, for any size of the fabric and any options that               *)
(* setupSwarmSimulator accepts.                                            *)
THEOREM ServersWhereComputedCorrect == Spec => []ServersWhereComputed
  <1>1. SetupInv => ServersWhereComputed
    BY ServersFollow DEF SetupInv
  <1>2. QED
    BY <1>1, SetupInvariant, PTL

(* With whole pods to every process, no cable within a pod joins two       *)
(* processes; with two processes to a pod, each has nodes of one pod only  *)
(* (createTopology).                                                       *)
THEOREM PodsTogetherCorrect == Spec => []PodsTogether
  <1>1. SetupInv => PodsTogether
    BY TogetherFollow DEF SetupInv
  <1>2. QED
    BY <1>1, SetupInvariant, PTL

(* No node is placed on a process that was not started, when the processes *)
(* share the ToRs evenly or suffice for all of them (createCoreMPI,        *)
(* createPodMPI, createServers).                                           *)
THEOREM ProcessesExistCorrect == Spec => []ProcessesExist
  <1>1. SetupInv => ProcessesExist
    BY ProcessesFollow DEF SetupInv
  <1>2. QED
    BY <1>1, SetupInvariant, PTL

(* The cables that the options keep on one process for the link commands   *)
(* are on one process: that of core 0 and aggregate 0, and the pair of pod *)
(* 1.                                                                      *)
THEOREM CommandedCablesAreLocalCorrect == Spec => []CommandedCablesAreLocal
  <1>1. SetupInv => CommandedCablesAreLocal
    BY CommandedFollow DEF SetupInv
  <1>2. QED
    BY <1>1, SetupInvariant, PTL

(* The number that getLinkInterfaceIndices and doEcmp compute for an       *)
(* interface is the one that ns-3 has given it in createFabricInterfaces.  *)
THEOREM NumbersAsComputedCorrect == Spec => []NumbersAsComputed
  <1>1. SetupInv => NumbersAsComputed
    BY NumbersFollow DEF SetupInv
  <1>2. QED
    BY <1>1, SetupInvariant, PTL

(* Each cable that createFabricInterfaces looks up by flat numbers is in   *)
(* the map, with the two nodes that are being configured.                  *)
THEOREM NextCableExistsCorrect == Spec => []NextCableExists
  <1>1. SetupInv => NextCableExists
    BY CablesFollow
  <1>2. QED
    BY <1>1, SetupInvariant, PTL

(* When the experiment begins, the static routes and the WCMP wildcard     *)
(* routes lead where the cables lead, and no two servers share an address  *)
(* (doEcmp, setupCoreRouting, setupServerRouting).                         *)
THEOREM RoutesFollowCablesCorrect == Spec => []RoutesFollowCables
  <1>1. SetupInv => RoutesFollowCables
    BY RoutesFollow
  <1>2. QED
    BY <1>1, SetupInvariant, PTL

(* No two ToRs share a WCMP level, and all levels are below the number     *)
(* given to the WCMP stacks (torLevelMapper, installWcmpStack).            *)
THEOREM LevelsAreDistinctCorrect == Spec => []LevelsAreDistinct
  BY LevelsFollow, PTL
===========================================================================
