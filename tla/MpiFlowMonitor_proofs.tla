---------------------- MODULE MpiFlowMonitor_proofs ----------------------
(***************************************************************************)
(* For any number of processes, hosts, flows and packets: no receiver ever *)
(* meets the packet that "should not happen"; as long as the numbers last, *)
(* a flow number and a tag belong to one flow and one packet of the whole  *)
(* run, what the two processes of a flow count adds up to what became of   *)
(* its packets, and what they write says when the flow was complete.       *)
(*                                                                         *)
(* IInv is about numbers and tags and inductive by itself; JInv, about the *)
(* statistics and the packets still tracked, is so together with it.       *)
(***************************************************************************)
EXTENDS MpiFlowMonitor, SequenceTheorems, FiniteSetTheorems, WellFoundedInduction, TLAPS

Span == ProcSpan * IdSpan

(* The k-th number of process p.                                           *)
Number(p, k) == IF p * IdSpan + k = Span THEN 0 ELSE p * IdSpan + k

LEMMA SpanType == Span \in Nat /\ Span > 0 /\ IdSpan \in Nat /\ IdSpan > 0 /\ ProcSpan \in Nat
  <1>1. IdSpan \in Nat /\ IdSpan > 0 /\ ProcSpan \in Nat /\ ProcSpan > 0
    BY MonitorAssumption
  <1>2. \A x, y \in Nat : x > 0 /\ y > 0 => x * y \in Nat /\ x * y > 0
    OBVIOUS
  <1>3. QED
    BY <1>1, <1>2 DEF Span

(* The blocks of numbers follow one another.                               *)
LEMMA Blocks ==
    ASSUME NEW p \in Nat, NEW q \in Nat, p < q
    PROVE  p * IdSpan + IdSpan <= q * IdSpan
  <1>1. PICK d \in Nat : q = p + 1 + d
    <2>1. q - p - 1 \in Nat /\ q = p + 1 + (q - p - 1)
      OBVIOUS
    <2>2. QED
      BY <2>1
  <1>2. q * IdSpan = p * IdSpan + IdSpan + d * IdSpan
    BY <1>1, SpanType
  <1>3. d * IdSpan >= 0 /\ d * IdSpan \in Int /\ p * IdSpan \in Int
    BY SpanType
  <1>4. QED
    BY <1>2, <1>3, SpanType

LEMMA NumberRange ==
    ASSUME NEW p \in Procs, NumProcs <= ProcSpan, NEW k \in 0 .. IdSpan
    PROVE  /\ p * IdSpan \in Nat /\ p * IdSpan + k \in 0 .. Span
           /\ k < IdSpan => p * IdSpan + k < Span
           /\ Number(p, k) \in Nat
  <1>1. p \in Nat /\ p < ProcSpan /\ k \in Nat
    BY MonitorAssumption DEF Procs
  <1>2. p * IdSpan + IdSpan <= ProcSpan * IdSpan
    BY <1>1, SpanType, Blocks
  <1>3. p * IdSpan \in Nat
    BY <1>1, SpanType
  <1>4. QED
    BY <1>1, <1>2, <1>3, SpanType DEF Span, Number

LEMMA NumberApart ==
    ASSUME NumProcs <= ProcSpan, NEW p \in Procs, NEW q \in Procs,
           NEW k \in 1 .. IdSpan, NEW j \in 1 .. IdSpan, Number(p, k) = Number(q, j)
    PROVE  p = q /\ k = j
  <1>1. /\ p \in Nat /\ q \in Nat /\ k \in Nat /\ j \in Nat
        /\ k >= 1 /\ j >= 1 /\ k <= IdSpan /\ j <= IdSpan
    BY MonitorAssumption, SpanType DEF Procs
  <1>2. /\ p * IdSpan \in Nat /\ q * IdSpan \in Nat
        /\ p * IdSpan + k <= Span /\ q * IdSpan + j <= Span
    <2>1. k \in 0 .. IdSpan /\ j \in 0 .. IdSpan
      BY <1>1, SpanType
    <2>2. QED
      BY <2>1, NumberRange, SpanType
  <1>3. p * IdSpan + k = q * IdSpan + j
    BY <1>1, <1>2, SpanType DEF Number
  <1>4. ~(p < q)
    <2>1. SUFFICES ASSUME p < q PROVE FALSE
      OBVIOUS
    <2>2. p * IdSpan + IdSpan <= q * IdSpan
      BY <1>1, <2>1, Blocks
    <2>3. QED
      BY <1>1, <1>2, <1>3, <2>2, SpanType
  <1>5. ~(q < p)
    <2>1. SUFFICES ASSUME q < p PROVE FALSE
      OBVIOUS
    <2>2. q * IdSpan + IdSpan <= p * IdSpan
      BY <1>1, <2>1, Blocks
    <2>3. QED
      BY <1>1, <1>2, <1>3, <2>2, SpanType
  <1>6. p = q
    BY <1>1, <1>4, <1>5
  <1>7. QED
    BY <1>1, <1>2, <1>3, <1>6

(* Counting on, in 32 bits, within the block of a process.                 *)
LEMMA NextNumber ==
    ASSUME NumProcs <= ProcSpan, NEW p \in Procs, NEW k \in Nat, k < IdSpan
    PROVE  (Number(p, k) + 1) % Span = Number(p, k + 1)
  <1>1. k \in 0 .. IdSpan /\ k + 1 \in 0 .. IdSpan
    BY SpanType
  <1>2. p * IdSpan \in Nat /\ p * IdSpan + k < Span
    BY <1>1, NumberRange
  <1> DEFINE x == p * IdSpan
  <1>3. x \in Nat /\ Number(p, k) = x + k
    BY <1>2, SpanType DEF Number
  <1>4. Number(p, k + 1) = IF x + k + 1 = Span THEN 0 ELSE x + k + 1
    BY <1>3 DEF Number
  <1> HIDE DEF x
  <1>5. \A y, s \in Nat : s > 0 /\ y <= s => y % s = IF y = s THEN 0 ELSE y
    OBVIOUS
  <1>6. x + k + 1 \in Nat /\ x + k + 1 <= Span
    BY <1>2, <1>3, SpanType DEF x
  <1>7. QED
    BY <1>3, <1>4, <1>5, <1>6, SpanType

---------------------------------------------------------------------------
(* The invariant.                                                          *)

Tag == [flow : Int, packet : Int]
Packet == [tuple : FiveTuples, tag : Tag, sent : Nat, fate : Fates, at : Int, by : Int]

Known(p) == DOMAIN flowMap[p]
Count(p) == Cardinality(Known(p))

MapsTypeOK ==
    /\ until \in Int /\ now \in [Procs -> Nat]
    /\ lastNewFlowId \in [Procs -> Nat]
    /\ DOMAIN flowMap = Procs /\ DOMAIN pktId = Procs
    /\ \A p \in Procs :
        /\ IsFiniteSet(Known(p))
        /\ \A t \in Known(p) :
            /\ t \in FiveTuples /\ Sender(t) = p
            /\ flowMap[p][t] \in Nat
            /\ flowMap[p][t] \in DOMAIN pktId[p]
        /\ \A f \in DOMAIN pktId[p] : pktId[p][f] \in Nat

PacketsTypeOK == packets \in Seq(Packet)

(* A process counts its flows on, from where its numbers begin.            *)
CountedOn ==
    NumProcs <= ProcSpan => \A p \in Procs : Count(p) <= IdSpan =>
        /\ lastNewFlowId[p] = Number(p, Count(p))
        /\ \A t \in Known(p) : \E k \in 1 .. Count(p) : flowMap[p][t] = Number(p, k)

NumbersApart ==
    IdsSuffice => \A p, q \in Procs : \A t \in Known(p), u \in Known(q) :
        flowMap[p][t] = flowMap[q][u] => t = u

(* What was sent without a tag was sent too late, or is filtered.          *)
UntaggedIsLate ==
    \A n \in 1 .. Len(packets) :
        packets[n].tag.flow < 0 =>
            packets[n].tag = NoTag /\ (Filtered(packets[n].tuple) \/ packets[n].sent > until)

(* A tag says the number of its tuple, and a packet already counted.       *)
TagsCounted ==
    IdsSuffice => \A n \in 1 .. Len(packets) :
        LET t == packets[n].tuple
            g == packets[n].tag
        IN  g.flow >= 0 =>
                /\ t \in Known(Sender(t))
                /\ g.flow = flowMap[Sender(t)][t]
                /\ g.packet <= pktId[Sender(t)][g.flow]

TagsApart ==
    IdsSuffice => \A m, n \in 1 .. Len(packets) :
        m # n /\ packets[m].tag.flow >= 0 => packets[m].tag # packets[n].tag

IInv ==
    /\ MapsTypeOK /\ PacketsTypeOK /\ CountedOn /\ NumbersApart
    /\ UntaggedIsLate /\ TagsCounted /\ TagsApart /\ NeverAborts

LEMMA SenderType == ASSUME NEW t \in FiveTuples PROVE Sender(t) \in Procs /\ ProcOf(t.dst) \in Procs
  <1>1. /\ t.src \in 0 .. NumHosts - 1 /\ t.dst \in 0 .. NumHosts - 1
        /\ NumHosts \in Nat /\ NumProcs \in Nat /\ HostsPerProc \in Nat /\ HostsPerProc > 0
        /\ NumHosts <= NumProcs * HostsPerProc
    BY TupleAssumption, MonitorAssumption
  <1>2. ASSUME NEW h \in Nat, h < NumProcs * HostsPerProc PROVE h \div HostsPerProc \in Procs
    <2> DEFINE q == h \div HostsPerProc
    <2>1. q \in Nat /\ q * HostsPerProc <= h
      BY <1>1
    <2> HIDE DEF q
    <2>2. q < NumProcs
      <3>1. SUFFICES ASSUME q >= NumProcs PROVE FALSE
        BY <1>1, <2>1
      <3>2. PICK d \in Nat : q = NumProcs + d
        <4>1. q - NumProcs \in Nat /\ q = NumProcs + (q - NumProcs)
          BY <1>1, <2>1, <3>1
        <4>2. QED
          BY <4>1
      <3>3. q * HostsPerProc = NumProcs * HostsPerProc + d * HostsPerProc
        BY <1>1, <3>2
      <3>4. d * HostsPerProc \in Nat /\ NumProcs * HostsPerProc \in Nat
        BY <1>1
      <3>5. QED
        BY <1>2, <2>1, <3>3, <3>4
    <2>3. QED
      BY <1>1, <2>1, <2>2 DEF Procs, q
  <1>3. QED
    BY <1>1, <1>2 DEF Sender, ProcOf

LEMMA InitInv == Init => IInv
  <1> SUFFICES ASSUME Init PROVE IInv
    OBVIOUS
  <1>1. \A p \in Procs : SystemId(p) \in Nat
    <2> SUFFICES ASSUME NEW p \in Procs PROVE SystemId(p) \in Nat
      OBVIOUS
    <2>1. p % ProcSpan \in Nat
      BY MonitorAssumption DEF Procs
    <2> DEFINE x == p % ProcSpan
    <2> HIDE DEF x
    <2>2. x \in Nat => x * IdSpan \in Nat
      BY SpanType
    <2>3. QED
      BY <2>1, <2>2 DEF SystemId, x
  <1>2. \A p \in Procs : Known(p) = {} /\ IsFiniteSet(Known(p)) /\ Count(p) = 0
    BY FS_EmptySet DEF Init, Known, Count
  <1>3. until \in Int
    BY MonitorAssumption DEF Init
  <1>4. MapsTypeOK
    BY <1>1, <1>2, <1>3 DEF Init, MapsTypeOK
  <1>5. packets = <<>> /\ PacketsTypeOK
    BY DEF Init, PacketsTypeOK
  <1>6. CountedOn
    <2> SUFFICES ASSUME NumProcs <= ProcSpan, NEW p \in Procs
                 PROVE  lastNewFlowId[p] = Number(p, 0)
      BY <1>2 DEF CountedOn
    <2>1. p \in Nat /\ p < ProcSpan
      BY MonitorAssumption DEF Procs
    <2>2. p % ProcSpan = p
      BY <2>1, SpanType
    <2>3. p * IdSpan < Span /\ p * IdSpan \in Nat
      <3>1. 0 \in 0 .. IdSpan /\ 0 < IdSpan
        BY SpanType
      <3>2. p * IdSpan + 0 < Span /\ p * IdSpan \in Nat
        BY <3>1, NumberRange
      <3>3. QED
        BY <3>2
    <2>4. lastNewFlowId[p] = p * IdSpan
      BY <2>2 DEF Init, SystemId
    <2>5. QED
      BY <2>3, <2>4, SpanType DEF Number
  <1>7. NumbersApart
    BY <1>2 DEF NumbersApart
  <1>8. QED
    BY <1>4, <1>5, <1>6, <1>7
    DEF IInv, UntaggedIsLate, TagsCounted, TagsApart, NeverAborts, Init

---------------------------------------------------------------------------
(* Classify.                                                               *)

(* A tuple that is known already: the maps of the flows stay.              *)
LEMMA ClassifyKnown ==
    ASSUME IInv, NEW p \in Procs, NEW t \in Known(p), Classify(p, t), UNCHANGED <<until, now>>
    PROVE  /\ UNCHANGED <<flowMap, lastNewFlowId>>
           /\ MapsTypeOK'
           /\ FlowIdOf(p, t) = flowMap[p][t]
           /\ pktId'[p][flowMap[p][t]] = pktId[p][flowMap[p][t]] + 1
           /\ \A q \in Procs : \A f \in DOMAIN pktId[q] : pktId'[q][f] >= pktId[q][f]
  <1> DEFINE f == flowMap[p][t]
  <1>1. /\ FlowIdOf(p, t) = f /\ UNCHANGED <<flowMap, lastNewFlowId>>
        /\ pktId' = [pktId EXCEPT ![p][f] = @ + 1]
    BY DEF Classify, FlowIdOf, Known
  <1>2. /\ DOMAIN pktId = Procs /\ f \in DOMAIN pktId[p]
        /\ \A q \in Procs : \A g \in DOMAIN pktId[q] : pktId[q][g] \in Nat
    BY DEF IInv, MapsTypeOK
  <1> HIDE DEF f
  <1>3. /\ DOMAIN pktId' = Procs
        /\ \A q \in Procs : DOMAIN pktId'[q] = DOMAIN pktId[q]
        /\ pktId'[p][f] = pktId[p][f] + 1
        /\ \A q \in Procs : \A g \in DOMAIN pktId[q] :
                pktId'[q][g] \in Nat /\ pktId'[q][g] >= pktId[q][g]
    BY <1>1, <1>2
  <1>4. MapsTypeOK'
    BY <1>1, <1>3 DEF IInv, MapsTypeOK, Known
  <1>5. QED
    BY <1>1, <1>3, <1>4 DEF f

(* A new one.                                                              *)
LEMMA ClassifyNew ==
    ASSUME IInv, NEW p \in Procs, NEW t \in FiveTuples, Sender(t) = p, t \notin Known(p),
           Classify(p, t), UNCHANGED <<until, now>>
    PROVE  /\ MapsTypeOK' /\ CountedOn' /\ NumbersApart'
           /\ IdsSuffice' => IdsSuffice
           /\ t \in Known(p)' /\ flowMap'[p][t] = FlowIdOf(p, t)
           /\ pktId'[p][FlowIdOf(p, t)] = 0
           /\ \A q \in Procs : /\ Known(q) \subseteq Known(q)'
                               /\ \A u \in Known(q) : flowMap'[q][u] = flowMap[q][u]
           /\ \A q \in Procs : \A f \in DOMAIN pktId[q] :
                q # p \/ f # FlowIdOf(p, t) => pktId'[q][f] = pktId[q][f]
  <1> DEFINE f == FlowIdOf(p, t)
             c == Count(p)
  <1> USE DEF IInv
  <1>1. /\ f = (lastNewFlowId[p] + 1) % Span
        /\ flowMap' = [flowMap EXCEPT ![p] = Put(@, t, f)]
        /\ lastNewFlowId' = [lastNewFlowId EXCEPT ![p] = f]
        /\ pktId' = [pktId EXCEPT ![p] = Put(@, f, 0)]
    BY DEF Classify, FlowIdOf, Known, Span
  <1>2. f \in Nat
    <2>1. lastNewFlowId[p] + 1 \in Nat
      BY DEF MapsTypeOK
    <2>2. QED
      BY <1>1, <2>1, SpanType
  <1>3. \A q \in Procs : q # p => /\ flowMap'[q] = flowMap[q] /\ pktId'[q] = pktId[q]
                                /\ lastNewFlowId'[q] = lastNewFlowId[q]
                                /\ Known(q)' = Known(q) /\ Count(q)' = Count(q)
    BY <1>1 DEF MapsTypeOK, Known, Count
  <1> HIDE DEF f
  <1>4. /\ Known(p)' = Known(p) \cup {t}
        /\ flowMap'[p][t] = f
        /\ \A u \in Known(p) : flowMap'[p][u] = flowMap[p][u]
    <2>1. flowMap'[p] = Put(flowMap[p], t, f)
      BY <1>1 DEF MapsTypeOK
    <2>2. QED
      BY <2>1 DEF Put, Known
  <1>5. /\ DOMAIN pktId'[p] = DOMAIN pktId[p] \cup {f} /\ pktId'[p][f] = 0
        /\ \A g \in DOMAIN pktId[p] : g # f => pktId'[p][g] = pktId[p][g]
    <2>1. pktId'[p] = Put(pktId[p], f, 0)
      BY <1>1 DEF MapsTypeOK
    <2>2. QED
      BY <2>1 DEF Put
  <1>6. IsFiniteSet(Known(p)') /\ Count(p)' = c + 1 /\ c \in Nat
    BY <1>4, FS_AddElement, FS_CardinalityType DEF MapsTypeOK, Count
  <1>7. MapsTypeOK'
    <2>1. /\ until' \in Int /\ now' \in [Procs -> Nat]
          /\ lastNewFlowId' \in [Procs -> Nat]
          /\ DOMAIN flowMap' = Procs /\ DOMAIN pktId' = Procs
      BY <1>1, <1>2 DEF MapsTypeOK
    <2>2. ASSUME NEW q \in Procs
          PROVE  /\ IsFiniteSet(Known(q)')
                 /\ \A u \in Known(q)' : /\ u \in FiveTuples /\ Sender(u) = q
                                        /\ flowMap'[q][u] \in Nat
                                        /\ flowMap'[q][u] \in DOMAIN pktId'[q]
                 /\ \A g \in DOMAIN pktId'[q] : pktId'[q][g] \in Nat
      <3>1. CASE q = p
        <4>1. \A u \in Known(p) : /\ u \in FiveTuples /\ Sender(u) = p
                                  /\ flowMap[p][u] \in Nat /\ flowMap[p][u] \in DOMAIN pktId[p]
          BY DEF MapsTypeOK
        <4>2. \A g \in DOMAIN pktId[p] : pktId[p][g] \in Nat
          BY DEF MapsTypeOK
        <4>3. \A u \in Known(p)' : /\ u \in FiveTuples /\ Sender(u) = p
                                   /\ flowMap'[p][u] \in Nat /\ flowMap'[p][u] \in DOMAIN pktId'[p]
          BY <1>2, <1>4, <1>5, <4>1
        <4>4. \A g \in DOMAIN pktId'[p] : pktId'[p][g] \in Nat
          BY <1>5, <4>2
        <4>5. QED
          BY <1>6, <3>1, <4>3, <4>4
      <3>2. CASE q # p
        BY <1>3, <3>2 DEF MapsTypeOK
      <3>3. QED
        BY <3>1, <3>2
    <2>3. QED
      BY <2>1, <2>2 DEF MapsTypeOK, Sender, ProcOf
  <1>8. IdsSuffice' => IdsSuffice
    <2> SUFFICES ASSUME IdsSuffice', NEW q \in Procs PROVE Count(q) <= IdSpan /\ NumProcs <= ProcSpan
      BY DEF IdsSuffice, Count, Known
    <2>1. Count(q)' <= IdSpan /\ NumProcs <= ProcSpan
      BY DEF IdsSuffice, Count, Known
    <2>2. QED
      BY <1>3, <1>6, <2>1, SpanType
  (* The new number is the next of the block.                              *)
  <1>9. ASSUME NumProcs <= ProcSpan, Count(p)' <= IdSpan
        PROVE  f = Number(p, c + 1) /\ c + 1 \in 1 .. IdSpan /\ c <= IdSpan
    <2>1. c < IdSpan /\ c \in Nat /\ c + 1 \in 1 .. IdSpan
      BY <1>6, <1>9, SpanType
    <2>2. lastNewFlowId[p] = Number(p, c)
      BY <1>9, <2>1, SpanType DEF CountedOn
    <2>3. QED
      BY <1>1, <1>9, <2>1, <2>2, NextNumber, SpanType
  <1>10. CountedOn'
    <2> SUFFICES ASSUME NumProcs <= ProcSpan, NEW q \in Procs, Count(q)' <= IdSpan
                 PROVE  /\ lastNewFlowId'[q] = Number(q, Count(q)')
                        /\ \A u \in Known(q)' : \E k \in 1 .. Count(q)' : flowMap'[q][u] = Number(q, k)
      BY DEF CountedOn, Number, Span
    <2>1. CASE q = p
      <3>1. lastNewFlowId'[p] = f
        BY <1>1 DEF MapsTypeOK
      <3>2. \A u \in Known(p) : \E k \in 1 .. c : flowMap[p][u] = Number(p, k)
        BY <1>9, <2>1 DEF CountedOn
      <3>3. \A u \in Known(p)' : \E k \in 1 .. c + 1 : flowMap'[p][u] = Number(p, k)
        <4> SUFFICES ASSUME NEW u \in Known(p)' PROVE \E k \in 1 .. c + 1 : flowMap'[p][u] = Number(p, k)
          OBVIOUS
        <4>1. CASE u = t
          BY <1>4, <1>6, <1>9, <2>1, <4>1
        <4>2. CASE u # t
          <5>1. PICK k \in 1 .. c : flowMap[p][u] = Number(p, k)
            BY <1>4, <3>2, <4>2
          <5>2. k \in 1 .. c + 1
            BY <1>6
          <5>3. QED
            BY <1>4, <4>2, <5>1, <5>2
        <4>3. QED
          BY <4>1, <4>2
      <3>4. QED
        BY <1>6, <1>9, <2>1, <3>1, <3>3
    <2>2. CASE q # p
      BY <1>3, <2>2 DEF CountedOn
    <2>3. QED
      BY <2>1, <2>2
  <1>11. NumbersApart'
    <2> SUFFICES ASSUME IdsSuffice', NEW q \in Procs, NEW r \in Procs,
                        NEW u \in Known(q)', NEW v \in Known(r)', flowMap'[q][u] = flowMap'[r][v]
                 PROVE  u = v
      BY DEF NumbersApart
    <2>1. /\ NumProcs <= ProcSpan /\ Count(p)' <= IdSpan
          /\ \A x \in Procs : Count(x) <= IdSpan /\ Count(x) \in Nat
      BY <1>8, FS_CardinalityType DEF IdsSuffice, Count, Known, MapsTypeOK
    <2>2. ASSUME NEW x \in Procs, NEW y \in Known(x) PROVE flowMap[x][y] # f
      <3>1. PICK k \in 1 .. Count(x) : flowMap[x][y] = Number(x, k)
        BY <2>1 DEF CountedOn
      <3>2. k \in 1 .. IdSpan
        BY <2>1, SpanType
      <3>3. SUFFICES ASSUME Number(x, k) = Number(p, c + 1) PROVE FALSE
        BY <1>9, <2>1, <3>1
      <3>4. x = p /\ k = c + 1
        BY <1>9, <2>1, <3>2, <3>3, NumberApart
      <3>5. QED
        BY <1>6, <3>1, <3>4
    <2>3. CASE u = t /\ q = p
      <3>1. ~(v # t \/ r # p)
        <4>1. v # t \/ r # p => v \in Known(r) /\ flowMap'[r][v] = flowMap[r][v]
          BY <1>3, <1>4
        <4>2. QED
          BY <1>4, <2>2, <2>3, <4>1
      <3>2. QED
        BY <2>3, <3>1
    <2>4. CASE v = t /\ r = p
      <3>1. ~(u # t \/ q # p)
        <4>1. u # t \/ q # p => u \in Known(q) /\ flowMap'[q][u] = flowMap[q][u]
          BY <1>3, <1>4
        <4>2. QED
          BY <1>4, <2>2, <2>4, <4>1
      <3>2. QED
        BY <2>4, <3>1
    <2>5. CASE ~(u = t /\ q = p) /\ ~(v = t /\ r = p)
      <3>1. u \in Known(q) /\ flowMap'[q][u] = flowMap[q][u]
        BY <1>3, <1>4, <2>5
      <3>2. v \in Known(r) /\ flowMap'[r][v] = flowMap[r][v]
        BY <1>3, <1>4, <2>5
      <3>3. QED
        BY <1>8, <3>1, <3>2 DEF NumbersApart
    <2>6. QED
      BY <2>3, <2>4, <2>5
  <1>12. \A q \in Procs : /\ Known(q) \subseteq Known(q)'
                         /\ \A u \in Known(q) : flowMap'[q][u] = flowMap[q][u]
    BY <1>3, <1>4
  <1>13. \A q \in Procs : \A g \in DOMAIN pktId[q] : q # p \/ g # f => pktId'[q][g] = pktId[q][g]
    BY <1>3, <1>5
  <1>14. QED
    BY <1>4, <1>5, <1>7, <1>8, <1>10, <1>11, <1>12, <1>13 DEF f

---------------------------------------------------------------------------
(* Sending.                                                                *)

(* What holds of the maps after Classify, in both of its cases.            *)
LEMMA ClassifyKeeps ==
    ASSUME IInv, NEW p \in Procs, NEW t \in FiveTuples, Sender(t) = p,
           Classify(p, t), UNCHANGED <<until, now>>
    PROVE  /\ MapsTypeOK' /\ CountedOn' /\ NumbersApart'
           /\ IdsSuffice' => IdsSuffice
           /\ t \in Known(p)' /\ flowMap'[p][t] = FlowIdOf(p, t)
           /\ FlowIdOf(p, t) \in Nat /\ pktId'[p][FlowIdOf(p, t)] \in Nat
           /\ \A q \in Procs : \A u \in Known(q) :
                /\ u \in Known(q)' /\ flowMap'[q][u] = flowMap[q][u]
                /\ IdsSuffice' => pktId'[q][flowMap[q][u]] >= pktId[q][flowMap[q][u]]
           /\ t \in Known(p) => pktId'[p][FlowIdOf(p, t)] = pktId[p][FlowIdOf(p, t)] + 1
  <1>1. CASE t \in Known(p)
    <2>1. /\ UNCHANGED <<flowMap, lastNewFlowId>> /\ MapsTypeOK'
          /\ FlowIdOf(p, t) = flowMap[p][t]
          /\ pktId'[p][flowMap[p][t]] = pktId[p][flowMap[p][t]] + 1
          /\ \A q \in Procs : \A f \in DOMAIN pktId[q] : pktId'[q][f] >= pktId[q][f]
      BY <1>1, ClassifyKnown
    <2>2. CountedOn' /\ NumbersApart' /\ IdsSuffice' = IdsSuffice
      BY <2>1 DEF IInv, CountedOn, NumbersApart, IdsSuffice, Known, Count, Number, Span
    <2>3. \A q \in Procs : \A u \in Known(q) : u \in Known(q)' /\ flowMap[q][u] \in DOMAIN pktId[q]
      BY <2>1 DEF IInv, MapsTypeOK, Known
    <2>4. t \in Known(p)' /\ flowMap'[p][t] = FlowIdOf(p, t)
      BY <1>1, <2>1, <2>3
    <2>5. FlowIdOf(p, t) \in Nat /\ pktId'[p][FlowIdOf(p, t)] \in Nat
      BY <2>1, <2>4 DEF MapsTypeOK
    <2>6. QED
      BY <2>1, <2>2, <2>3, <2>4, <2>5
  <1>2. CASE t \notin Known(p)
    <2> DEFINE f == FlowIdOf(p, t)
    <2>1. /\ MapsTypeOK' /\ CountedOn' /\ NumbersApart'
          /\ IdsSuffice' => IdsSuffice
          /\ t \in Known(p)' /\ flowMap'[p][t] = f /\ pktId'[p][f] = 0
          /\ \A q \in Procs : /\ Known(q) \subseteq Known(q)'
                              /\ \A u \in Known(q) : flowMap'[q][u] = flowMap[q][u]
          /\ \A q \in Procs : \A g \in DOMAIN pktId[q] : q # p \/ g # f => pktId'[q][g] = pktId[q][g]
      BY <1>2, ClassifyNew
    <2> HIDE DEF f
    <2>2. f \in Nat
      BY <2>1 DEF MapsTypeOK
    <2>3. ASSUME IdsSuffice', NEW q \in Procs, NEW u \in Known(q)
          PROVE  pktId'[q][flowMap[q][u]] >= pktId[q][flowMap[q][u]]
      <3>1. flowMap[q][u] \in DOMAIN pktId[q] /\ pktId[q][flowMap[q][u]] \in Nat
        BY DEF IInv, MapsTypeOK
      <3>2. ~(q = p /\ flowMap[q][u] = f)
        <4>1. SUFFICES ASSUME q = p, flowMap[q][u] = f PROVE FALSE
          OBVIOUS
        <4>2. u \in Known(p)' /\ flowMap'[p][u] = flowMap'[p][t]
          BY <2>1, <4>1
        <4>3. u = t
          BY <2>1, <2>3, <4>2 DEF NumbersApart
        <4>4. QED
          BY <1>2, <4>1, <4>3
      <3>3. QED
        BY <2>1, <3>1, <3>2
    <2>4. QED
      BY <1>2, <2>1, <2>2, <2>3 DEF f
  <1>3. QED
    BY <1>1, <1>2

LEMMA AppendedPacket ==
    ASSUME PacketsTypeOK, NEW k \in Packet, packets' = Append(packets, k)
    PROVE  /\ PacketsTypeOK' /\ Len(packets') = Len(packets) + 1 /\ Len(packets) \in Nat
           /\ \A n \in 1 .. Len(packets) : packets'[n] = packets[n]
           /\ packets'[Len(packets) + 1] = k
           /\ \A n \in 1 .. Len(packets') : n \in 1 .. Len(packets) \/ n = Len(packets) + 1
  <1>1. packets \in Seq(Packet)
    BY DEF PacketsTypeOK
  <1>2. /\ packets' \in Seq(Packet) /\ Len(packets') = Len(packets) + 1 /\ Len(packets) \in Nat
        /\ \A n \in 1 .. Len(packets) : packets'[n] = packets[n]
        /\ packets'[Len(packets) + 1] = k
    BY <1>1, AppendProperties
  <1>3. QED
    BY <1>2 DEF PacketsTypeOK

LEMMA PacketAt ==
    ASSUME PacketsTypeOK, NEW n \in 1 .. Len(packets)
    PROVE  /\ packets[n] \in Packet
           /\ packets[n].tuple \in FiveTuples /\ packets[n].sent \in Nat
           /\ packets[n].tag \in Tag /\ packets[n].tag.flow \in Int /\ packets[n].tag.packet \in Int
  <1>1. packets[n] \in Packet
    BY ElementOfSeq DEF PacketsTypeOK
  <1>2. QED
    BY <1>1 DEF Packet, Tag

LEMMA SendTaggedKeeps ==
    ASSUME IInv, NEW t \in FiveTuples, SendTagged(Sender(t), t), UNCHANGED <<until, now, aborted>>
    PROVE  IInv'
  <1> DEFINE p == Sender(t)
             f == FlowIdOf(p, t)
             tag == [flow |-> f, packet |-> pktId'[p][f]]
             k == [tuple |-> t, tag |-> tag, sent |-> now[p], fate |-> "flying", at |-> -1, by |-> -1]
             new == Len(packets) + 1
  <1> USE DEF IInv
  <1>1. p \in Procs /\ Classify(p, t) /\ packets' = Append(packets, k)
    BY SenderType DEF SendTagged
  <1>2. /\ MapsTypeOK' /\ CountedOn' /\ NumbersApart'
        /\ IdsSuffice' => IdsSuffice
        /\ t \in Known(p)' /\ flowMap'[p][t] = f
        /\ f \in Nat /\ pktId'[p][f] \in Nat
        /\ \A q \in Procs : \A u \in Known(q) :
              /\ u \in Known(q)' /\ flowMap'[q][u] = flowMap[q][u]
              /\ IdsSuffice' => pktId'[q][flowMap[q][u]] >= pktId[q][flowMap[q][u]]
        /\ t \in Known(p) => pktId'[p][f] = pktId[p][f] + 1
    BY <1>1, ClassifyKeeps
  <1> HIDE DEF f
  <1>3. k \in Packet /\ tag \in Tag
    BY <1>1, <1>2 DEF Packet, Tag, Fates, MapsTypeOK
  <1>4. k.tuple = t /\ k.tag = tag /\ tag.flow = f /\ tag.packet = pktId'[p][f]
    OBVIOUS
  <1> HIDE DEF k, tag
  <1>5. /\ PacketsTypeOK' /\ Len(packets') = new /\ Len(packets) \in Nat
        /\ \A n \in 1 .. Len(packets) : packets'[n] = packets[n]
        /\ packets'[new] = k
        /\ \A n \in 1 .. Len(packets') : n \in 1 .. Len(packets) \/ n = new
    BY <1>1, <1>3, AppendedPacket
  <1>6. UntaggedIsLate'
    <2> SUFFICES ASSUME NEW n \in 1 .. Len(packets'), packets'[n].tag.flow < 0
                 PROVE  /\ packets'[n].tag = NoTag
                        /\ Filtered(packets'[n].tuple) \/ packets'[n].sent > until'
      BY DEF UntaggedIsLate, Filtered, NoTag
    <2>1. n \in 1 .. Len(packets)
      BY <1>2, <1>4, <1>5
    <2>2. QED
      BY <1>5, <2>1 DEF UntaggedIsLate
  <1>7. ASSUME IdsSuffice', NEW n \in 1 .. Len(packets), packets[n].tag.flow >= 0
        PROVE  LET u == packets[n].tuple
                   g == packets[n].tag
               IN  /\ u \in FiveTuples /\ Sender(u) \in Procs
                   /\ u \in Known(Sender(u)) /\ u \in DOMAIN flowMap'[Sender(u)]
                   /\ g.flow = flowMap[Sender(u)][u] /\ g.flow = flowMap'[Sender(u)][u]
                   /\ g.packet <= pktId[Sender(u)][g.flow]
                   /\ g.packet <= pktId'[Sender(u)][g.flow]
    <2> DEFINE u == packets[n].tuple
               g == packets[n].tag
    <2>1. u \in FiveTuples /\ Sender(u) \in Procs /\ g.packet \in Int
      BY PacketAt, SenderType
    <2>2. /\ u \in Known(Sender(u)) /\ g.flow = flowMap[Sender(u)][u]
          /\ g.packet <= pktId[Sender(u)][g.flow]
      BY <1>2, <1>7 DEF TagsCounted
    <2>3. /\ u \in DOMAIN flowMap'[Sender(u)] /\ flowMap'[Sender(u)][u] = flowMap[Sender(u)][u]
          /\ pktId'[Sender(u)][g.flow] >= pktId[Sender(u)][g.flow]
      BY <1>2, <1>7, <2>1, <2>2 DEF Known
    <2>4. pktId[Sender(u)][g.flow] \in Nat /\ pktId'[Sender(u)][g.flow] \in Nat
      BY <1>2, <2>1, <2>2, <2>3 DEF MapsTypeOK, Known
    <2> HIDE DEF u, g
    <2>5. g.packet <= pktId'[Sender(u)][g.flow]
      BY <2>1, <2>2, <2>3, <2>4
    <2>6. QED
      BY <2>1, <2>2, <2>3, <2>5 DEF u, g
  <1>8. TagsCounted'
    <2> SUFFICES ASSUME IdsSuffice', NEW n \in 1 .. Len(packets'), packets'[n].tag.flow >= 0
                 PROVE  LET u == packets'[n].tuple
                            g == packets'[n].tag
                        IN  /\ u \in DOMAIN flowMap'[Sender(u)]
                            /\ g.flow = flowMap'[Sender(u)][u]
                            /\ g.packet <= pktId'[Sender(u)][g.flow]
      BY DEF TagsCounted, Known, Sender
    <2>1. CASE n = new
      BY <1>2, <1>4, <1>5, <2>1 DEF Known
    <2>2. CASE n \in 1 .. Len(packets)
      BY <1>5, <1>7, <2>2
    <2>3. QED
      BY <1>5, <2>1, <2>2
  <1>9. TagsApart'
    <2>1. ASSUME IdsSuffice', NEW n \in 1 .. Len(packets), packets[n].tag.flow >= 0
          PROVE  packets[n].tag # tag
      <3> DEFINE u == packets[n].tuple
                 g == packets[n].tag
      <3>1. SUFFICES ASSUME g = tag PROVE FALSE
        OBVIOUS
      <3>2. /\ u \in FiveTuples /\ Sender(u) \in Procs
            /\ u \in Known(Sender(u)) /\ u \in DOMAIN flowMap'[Sender(u)]
            /\ g.flow = flowMap'[Sender(u)][u]
            /\ g.packet <= pktId[Sender(u)][g.flow]
        BY <1>7, <2>1
      <3>3. u = t
        BY <1>1, <1>2, <1>4, <2>1, <3>1, <3>2 DEF NumbersApart, Known
      <3>4. pktId'[p][f] = pktId[p][f] + 1 /\ pktId[p][f] \in Nat
        <4>1. t \in Known(p) /\ flowMap[p][t] = f
          BY <1>1, <1>2, <3>2, <3>3
        <4>2. QED
          BY <1>1, <1>2, <4>1 DEF MapsTypeOK
      <3>5. g.flow = f /\ g.packet = pktId'[p][f] /\ g.packet <= pktId[p][f]
        BY <1>4, <3>1, <3>2, <3>3
      <3>6. QED
        BY <3>4, <3>5
    <2> SUFFICES ASSUME IdsSuffice', NEW m \in 1 .. Len(packets'), NEW n \in 1 .. Len(packets'),
                        m # n, packets'[m].tag.flow >= 0
                 PROVE  packets'[m].tag # packets'[n].tag
      BY DEF TagsApart
    <2>2. CASE m = new
      <3>1. n \in 1 .. Len(packets) /\ packets'[n] = packets[n] /\ packets'[m].tag = tag
        BY <1>4, <1>5, <2>2
      <3>2. CASE packets[n].tag.flow >= 0
        BY <2>1, <3>1, <3>2
      <3>3. CASE ~(packets[n].tag.flow >= 0)
        BY <2>2, <3>1, <3>3
      <3>4. QED
        BY <3>2, <3>3
    <2>3. CASE n = new
      BY <1>4, <1>5, <2>1, <2>3
    <2>4. CASE m \in 1 .. Len(packets) /\ n \in 1 .. Len(packets)
      BY <1>2, <1>5, <2>4 DEF TagsApart
    <2>5. QED
      BY <1>5, <2>2, <2>3, <2>4
  <1>10. QED
    BY <1>2, <1>5, <1>6, <1>8, <1>9 DEF NeverAborts

LEMMA SendUntaggedKeeps ==
    ASSUME IInv, NEW t \in FiveTuples, SendUntagged(Sender(t), t), UNCHANGED <<until, now, aborted>>
    PROVE  IInv'
  <1> DEFINE p == Sender(t)
             k == [tuple |-> t, tag |-> NoTag, sent |-> now[p], fate |-> "flying", at |-> -1, by |-> -1]
             new == Len(packets) + 1
  <1> USE DEF IInv
  <1>1. /\ p \in Procs /\ ~IsMonitored(p, t) /\ packets' = Append(packets, k)
        /\ UNCHANGED <<flowMap, lastNewFlowId, pktId>>
    BY SenderType DEF SendUntagged
  <1>2. k \in Packet
    BY <1>1 DEF Packet, Tag, Fates, NoTag, MapsTypeOK
  <1>3. k.tuple = t /\ k.tag = NoTag /\ k.sent = now[p] /\ NoTag.flow = -1
    BY DEF NoTag
  <1>4. Filtered(t) \/ now[p] > until
    BY <1>1 DEF IsMonitored, MapsTypeOK
  <1> HIDE DEF k
  <1>5. /\ PacketsTypeOK' /\ Len(packets') = new /\ Len(packets) \in Nat
        /\ \A n \in 1 .. Len(packets) : packets'[n] = packets[n]
        /\ packets'[new] = k
        /\ \A n \in 1 .. Len(packets') : n \in 1 .. Len(packets) \/ n = new
    BY <1>1, <1>2, AppendedPacket
  <1>6. MapsTypeOK' /\ CountedOn' /\ NumbersApart' /\ IdsSuffice' = IdsSuffice /\ NeverAborts'
    BY <1>1 DEF MapsTypeOK, CountedOn, NumbersApart, IdsSuffice, Known, Count, NeverAborts
  <1>7. UntaggedIsLate'
    <2> SUFFICES ASSUME NEW n \in 1 .. Len(packets'), packets'[n].tag.flow < 0
                 PROVE  /\ packets'[n].tag = NoTag
                        /\ Filtered(packets'[n].tuple) \/ packets'[n].sent > until'
      BY DEF UntaggedIsLate, Filtered, NoTag
    <2>1. CASE n = new
      BY <1>3, <1>4, <1>5, <2>1
    <2>2. CASE n \in 1 .. Len(packets)
      BY <1>5, <2>2 DEF UntaggedIsLate
    <2>3. QED
      BY <1>5, <2>1, <2>2
  <1>8. \A n \in 1 .. Len(packets') : packets'[n].tag.flow >= 0 => n \in 1 .. Len(packets)
    BY <1>3, <1>5
  <1>9. TagsCounted'
    BY <1>1, <1>5, <1>6, <1>8 DEF TagsCounted, Known
  <1>10. TagsApart'
    <2> SUFFICES ASSUME IdsSuffice', NEW m \in 1 .. Len(packets'), NEW n \in 1 .. Len(packets'),
                        m # n, packets'[m].tag.flow >= 0
                 PROVE  packets'[m].tag # packets'[n].tag
      BY DEF TagsApart
    <2>1. m \in 1 .. Len(packets) /\ packets'[m] = packets[m]
      BY <1>5, <1>8
    <2>2. CASE n = new
      BY <1>3, <1>5, <2>1, <2>2
    <2>3. CASE n \in 1 .. Len(packets)
      BY <1>5, <1>6, <2>1, <2>3 DEF TagsApart
    <2>4. QED
      BY <1>5, <2>2, <2>3
  <1>11. QED
    BY <1>5, <1>6, <1>7, <1>9, <1>10

---------------------------------------------------------------------------
(* The end of a packet.                                                    *)

LEMMA ProcsAreInts == \A p \in Procs : p \in Int /\ p # -1
  BY MonitorAssumption DEF Procs

LEMMA EndsKeeps ==
    ASSUME IInv, NEW n \in DOMAIN packets, NEW fate \in Fates, NEW time \in Int,
           NEW proc \in Int, Ends(n, fate, time, proc), NeverAborts',
           UNCHANGED <<until, now, flowMap, lastNewFlowId, pktId>>
    PROVE  IInv'
  <1> USE DEF IInv
  <1>1. /\ packets \in Seq(Packet) /\ n \in 1 .. Len(packets) /\ packets[n] \in Packet
        /\ packets' = [packets EXCEPT ![n] = [packets[n] EXCEPT !.fate = fate, !.at = time, !.by = proc]]
    <2>1. packets \in Seq(Packet) /\ n \in 1 .. Len(packets)
      BY DEF PacketsTypeOK
    <2>2. QED
      BY <2>1, ElementOfSeq DEF Ends
  <1> DEFINE k == [packets[n] EXCEPT !.fate = fate, !.at = time, !.by = proc]
  <1>2. /\ k \in Packet /\ k.tuple = packets[n].tuple /\ k.tag = packets[n].tag
        /\ k.sent = packets[n].sent
    BY <1>1 DEF Packet
  <1> HIDE DEF k
  <1>3. /\ packets' \in Seq(Packet) /\ Len(packets') = Len(packets)
        /\ \A m \in 1 .. Len(packets) : packets'[m] = IF m = n THEN k ELSE packets[m]
    <2>1. packets' = [packets EXCEPT ![n] = k]
      BY <1>1 DEF k
    <2>2. QED
      BY <1>1, <1>2, <2>1, ExceptSeq
  <1>4. \A m \in 1 .. Len(packets) : /\ packets'[m].tuple = packets[m].tuple
                                     /\ packets'[m].tag = packets[m].tag
                                     /\ packets'[m].sent = packets[m].sent
    BY <1>2, <1>3
  <1>5. PacketsTypeOK'
    BY <1>3 DEF PacketsTypeOK
  <1>6. MapsTypeOK' /\ CountedOn' /\ NumbersApart' /\ IdsSuffice' = IdsSuffice
    BY DEF MapsTypeOK, CountedOn, NumbersApart, IdsSuffice, Known, Count
  <1>7. UntaggedIsLate' /\ TagsCounted' /\ TagsApart'
    BY <1>3, <1>4, <1>6 DEF UntaggedIsLate, TagsCounted, TagsApart, Known
  <1>8. QED
    BY <1>5, <1>6, <1>7

LEMMA NextKeeps == IInv /\ [Next]_vars => IInv'
  <1> SUFFICES ASSUME IInv, [Next]_vars PROVE IInv'
    OBVIOUS
  <1>0. \A n \in DOMAIN packets : packets[n] \in Packet /\ packets[n].sent \in Int
                                  /\ packets[n].tuple \in FiveTuples
    <2> SUFFICES ASSUME NEW n \in DOMAIN packets
                 PROVE  packets[n] \in Packet /\ packets[n].sent \in Int /\ packets[n].tuple \in FiveTuples
      OBVIOUS
    <2>1. n \in 1 .. Len(packets) /\ PacketsTypeOK
      BY DEF IInv, PacketsTypeOK
    <2>2. QED
      BY <2>1, PacketAt
  <1>1. CASE \E p \in Procs : Advance(p)
    <2>1. PICK p \in Procs : Advance(p)
      BY <1>1
    <2>2. /\ now' = [now EXCEPT ![p] = @ + 1]
          /\ UNCHANGED <<until, flowMap, lastNewFlowId, pktId, packets, aborted>>
      BY <2>1 DEF Advance
    <2>3. MapsTypeOK'
      BY <2>2 DEF IInv, MapsTypeOK, Known
    <2>4. QED
      BY <2>2, <2>3 DEF IInv, PacketsTypeOK, CountedOn, NumbersApart, UntaggedIsLate, TagsCounted,
                        TagsApart, NeverAborts, IdsSuffice, Known, Count
  <1>2. CASE \E t \in FiveTuples : Send(t)
    BY <1>2, SendTaggedKeeps, SendUntaggedKeeps DEF Send
  <1>3. CASE \E n \in DOMAIN packets : Deliver(n)
    <2>1. PICK n \in DOMAIN packets : Deliver(n)
      BY <1>3
    <2> DEFINE k == packets[n]
               q == ProcOf(k.tuple.dst)
    <2>2. /\ ~aborted /\ now[q] >= k.sent /\ Ends(n, "delivered", now[q], q)
          /\ UNCHANGED <<until, now, flowMap, lastNewFlowId, pktId>>
          /\ \/ UNCHANGED aborted
             \/ Filtered(k.tuple) /\ aborted' = FALSE
             \/ k.tag = NoTag /\ aborted' = (~Filtered(k.tuple) /\ now[q] <= until)
      BY <2>1 DEF Deliver
    <2>3. q \in Procs /\ q \in Int /\ now[q] \in Int /\ until \in Int /\ k.sent \in Int
      BY <1>0, SenderType, ProcsAreInts DEF IInv, MapsTypeOK
    <2>4. NeverAborts'
      <3>1. CASE k.tag = NoTag /\ aborted' = (~Filtered(k.tuple) /\ now[q] <= until)
        <4>1. n \in 1 .. Len(packets) /\ k.tag.flow < 0
          BY <3>1 DEF IInv, PacketsTypeOK, NoTag
        <4>2. Filtered(k.tuple) \/ k.sent > until
          BY <4>1 DEF IInv, UntaggedIsLate
        <4>3. ~(~Filtered(k.tuple) /\ now[q] <= until)
          <5> DEFINE late == now[q]
                     sent == k.sent
          <5>1. late \in Int /\ sent \in Int /\ until \in Int /\ late >= sent
            BY <2>2, <2>3
          <5>2. Filtered(k.tuple) \/ sent > until
            BY <4>2
          <5> HIDE DEF late, sent
          <5>3. Filtered(k.tuple) \/ ~(late <= until)
            BY <5>1, <5>2
          <5>4. QED
            BY <5>3 DEF late
        <4>4. aborted' = FALSE
          BY <3>1, <4>3, Zenon
        <4>5. QED
          BY <4>4 DEF NeverAborts
      <3>2. QED
        BY <2>2, <3>1 DEF NeverAborts
    <2>5. "delivered" \in Fates
      BY DEF Fates
    <2>6. QED
      BY <2>2, <2>3, <2>4, <2>5, EndsKeeps
  <1>4. CASE \E n \in DOMAIN packets : Lose(n)
    <2>1. PICK n \in DOMAIN packets : Lose(n)
      BY <1>4
    <2>2. /\ Ends(n, "lost", packets[n].sent, -1)
          /\ UNCHANGED <<until, now, flowMap, lastNewFlowId, pktId, aborted>>
      BY <2>1 DEF Lose
    <2>3. "lost" \in Fates /\ -1 \in Int /\ NeverAborts'
      BY <2>2 DEF Fates, IInv, NeverAborts
    <2>4. QED
      BY <1>0, <2>2, <2>3, EndsKeeps
  <1>5. CASE \E n \in DOMAIN packets, host \in Hosts : Drop(n, host)
    <2>1. PICK n \in DOMAIN packets, host \in Hosts : Drop(n, host)
      BY <1>5
    <2>2. /\ Ends(n, "dropped", now[ProcOf(host)], ProcOf(host))
          /\ host \in {packets[n].tuple.src, packets[n].tuple.dst}
          /\ UNCHANGED <<until, now, flowMap, lastNewFlowId, pktId, aborted>>
      BY <2>1 DEF Drop
    <2>3. ProcOf(host) \in Procs /\ ProcOf(host) \in Int /\ now[ProcOf(host)] \in Int
      BY <1>0, <2>2, SenderType, ProcsAreInts DEF Sender, IInv, MapsTypeOK
    <2>4. "dropped" \in Fates /\ NeverAborts'
      BY <2>2 DEF Fates, IInv, NeverAborts
    <2>5. QED
      BY <2>2, <2>3, <2>4, EndsKeeps
  <1>6. CASE UNCHANGED vars
    <2>1. UNCHANGED <<until, now, flowMap, lastNewFlowId, pktId, packets, aborted>>
      BY <1>6 DEF vars
    <2>2. QED
      BY <2>1 DEF IInv, MapsTypeOK, PacketsTypeOK, CountedOn, NumbersApart, UntaggedIsLate,
                  TagsCounted, TagsApart, NeverAborts, IdsSuffice, Known, Count
  <1>7. QED
    BY <1>1, <1>2, <1>3, <1>4, <1>5, <1>6 DEF Next

---------------------------------------------------------------------------
(* Theorems.                                                               *)

LEMMA AlwaysIInv == Spec => []IInv
  BY InitInv, NextKeeps, PTL DEF Spec

(* ForwardUpLogger never meets the packet that "should not happen".        *)
THEOREM NeverAbortsCorrect == Spec => []NeverAborts
  <1>1. IInv => NeverAborts
    BY DEF IInv
  <1>2. QED
    BY <1>1, AlwaysIInv, PTL

(* While they suffice, a number belongs to one flow of the whole run, and  *)
(* a tag to one packet: SetSystemId and GetNewFlowId.                      *)
THEOREM NumbersTellFlowsApartCorrect == Spec => []NumbersTellFlowsApart
  <1>1. IInv => NumbersTellFlowsApart
    <2> SUFFICES ASSUME IInv, IdsSuffice PROVE NumbersTellFlowsApart
      BY DEF NumbersTellFlowsApart
    <2>1. ASSUME NEW p \in Procs, NEW q \in Procs,
                 NEW t \in DOMAIN flowMap[p], NEW u \in DOMAIN flowMap[q],
                 flowMap[p][t] = flowMap[q][u]
          PROVE  t = u
      BY <2>1 DEF IInv, NumbersApart, Known
    <2>2. ASSUME NEW m \in DOMAIN packets, NEW n \in DOMAIN packets, m # n,
                 packets[m].tag # NoTag
          PROVE  packets[m].tag # packets[n].tag
      <3>1. m \in 1 .. Len(packets) /\ n \in 1 .. Len(packets)
        BY DEF IInv, PacketsTypeOK
      <3>2. packets[m].tag.flow \in Int
        BY <3>1, PacketAt DEF IInv
      <3>3. packets[m].tag.flow >= 0
        BY <2>2, <3>1, <3>2 DEF IInv, UntaggedIsLate
      <3>4. QED
        BY <2>2, <3>1, <3>3 DEF IInv, TagsApart
    <2>3. QED
      BY <2>1, <2>2 DEF NumbersTellFlowsApart
  <1>2. QED
    BY <1>1, AlwaysIInv, PTL

---------------------------------------------------------------------------
(* The invariant of clocks, statistics and tracked packets.                *)

Stat == [timeFirstTx : 0 .. MaxTime, timeFirstRx : 0 .. MaxTime, timeLastRx : 0 .. MaxTime,
         txBytes : Nat, rxBytes : Nat, bytesDropped : Nat]

Receiver(t) == ProcOf(t.dst)

(* A packet is not older than the clock of its sender, and is received     *)
(* after it was sent and not after what the receiver's clock shows.        *)
Clocks ==
    /\ now \in [Procs -> 0 .. MaxTime]
    /\ \A n \in 1 .. Len(packets) :
        LET k == packets[n] IN
        /\ k.sent <= now[Sender(k.tuple)] /\ k.at <= MaxTime
        /\ k.fate = "delivered" => k.sent <= k.at /\ k.at <= now[Receiver(k.tuple)]

StatsTypeOK ==
    DOMAIN stats = Procs /\ \A p \in Procs : stats[p] \in [DOMAIN stats[p] -> Stat]

(* What a process tracks is a packet of its own of which it has not seen   *)
(* the end, and the other way round.                                       *)
TrackedHere ==
    /\ DOMAIN tracked = Procs
    /\ \A p \in Procs : \A tag \in tracked[p] :
        /\ tag.flow >= 0
        /\ \E n \in 1 .. Len(packets) :
            /\ packets[n].tag = tag /\ Sender(packets[n].tuple) = p
            /\ IdsSuffice => packets[n].by # p
    /\ \A n \in 1 .. Len(packets) :
        LET k == packets[n] IN
        /\ k.fate = "flying" => k.by = -1
        /\ IdsSuffice /\ k.tag.flow >= 0 /\ k.by # Sender(k.tuple) => k.tag \in tracked[Sender(k.tuple)]

(* Either all packets of a tuple are tagged or none is.                    *)
TaggedIsKnown ==
    /\ \A n \in 1 .. Len(packets) :
        packets[n].tag.flow >= 0 <=> packets[n].tuple \in Known(Sender(packets[n].tuple))
    /\ \A p \in Procs : \A t \in Known(p) : ~Filtered(t)

(* Statistics are of flows that have been sent, and are kept by the        *)
(* processes of the two ends only.                                         *)
StatsOfFlows ==
    \A p \in Procs : \A f \in DOMAIN stats[p] : \E n \in 1 .. Len(packets) :
        LET k == packets[n] IN
        k.tag.flow = f /\ f >= 0 /\ (p = Sender(k.tuple) \/ p = Receiver(k.tuple))

Delivered(t) == PacketsOf(t, {"delivered"})
Dropped(t) == PacketsOf(t, {"dropped"})

FlowCounts(t, f) ==
    LET p == Sender(t)
        q == Receiver(t)
    IN
    /\ PacketsOf(t, Fates) # {}
    /\ StatsOf(p, f).txBytes = Size * Cardinality(PacketsOf(t, Fates))
    /\ StatsOf(q, f).rxBytes = Size * Cardinality(Delivered(t))
    /\ p = q => StatsOf(p, f).bytesDropped = Size * Cardinality(Dropped(t))
    /\ p # q => /\ StatsOf(q, f).txBytes = 0
                /\ StatsOf(p, f).rxBytes = 0 /\ StatsOf(p, f).timeLastRx = 0
                /\ StatsOf(p, f).bytesDropped + StatsOf(q, f).bytesDropped
                   = Size * Cardinality(Dropped(t))

LastRx(t, s) ==
    /\ Delivered(t) = {} => s.timeLastRx = 0
    /\ Delivered(t) # {} => \E n \in Delivered(t) :
        /\ s.timeLastRx = packets[n].at
        /\ \A m \in Delivered(t) : packets[m].at <= packets[n].at

FirstTx(t, s) ==
    LET all == PacketsOf(t, Fates) IN
    /\ Sender(t) # Receiver(t) /\ Delivered(t) = {} => s.timeFirstTx = 0
    /\ (\A n \in all : packets[n].sent > 0) =>
        /\ Sender(t) = Receiver(t) => \E n \in all :
            /\ s.timeFirstTx = packets[n].sent
            /\ \A m \in all : n <= m
        /\ Sender(t) # Receiver(t) /\ Delivered(t) # {} => \E n \in Delivered(t) :
            /\ s.timeFirstTx = packets[n].sent
            /\ \A m \in Delivered(t) : packets[n].at <= packets[m].at

FlowTimes(t, f) ==
    LastRx(t, StatsOf(Receiver(t), f)) /\ FirstTx(t, StatsOf(Receiver(t), f))

FlowsOK ==
    IdsSuffice => \A p \in Procs : \A t \in Known(p) : \A f \in {flowMap[p][t]} :
        FlowCounts(t, f) /\ FlowTimes(t, f)

JInv ==
    /\ Clocks /\ StatsTypeOK /\ TrackedHere /\ TaggedIsKnown /\ StatsOfFlows /\ FlowsOK

---------------------------------------------------------------------------
(* Statistics.                                                             *)

LEMMA SizeTimes ==
    ASSUME NEW c \in Nat
    PROVE  /\ Size * c \in Nat /\ Size * (c + 1) = Size * c + Size
           /\ c > 0 => Size * c > 0
           /\ c = 0 => Size * c = 0
  <1>1. Size \in Nat /\ Size > 0
    BY MonitorAssumption
  <1>2. c > 0 => Size * c > 0
    BY <1>1
  <1>3. QED
    BY <1>1, <1>2

LEMMA StatsOfType ==
    ASSUME StatsTypeOK, NEW p \in Procs, NEW f
    PROVE  StatsOf(p, f) \in Stat
  <1>1. NoStats \in Stat
    BY MonitorAssumption DEF NoStats, Stat
  <1>2. QED
    BY <1>1 DEF StatsTypeOK, StatsOf

LEMMA AfterType ==
    ASSUME NEW s \in Stat, NEW time \in 0 .. MaxTime, NEW sent \in 0 .. MaxTime
    PROVE  /\ AfterTx(s, time) \in Stat /\ AfterRx(s, sent, time) \in Stat /\ AfterDrop(s) \in Stat
           /\ AfterTx(s, time).timeFirstTx = IF s.txBytes = 0 THEN time ELSE s.timeFirstTx
           /\ AfterTx(s, time).timeLastRx = s.timeLastRx
           /\ AfterTx(s, time).txBytes = s.txBytes + Size
           /\ AfterTx(s, time).rxBytes = s.rxBytes
           /\ AfterTx(s, time).bytesDropped = s.bytesDropped
           /\ AfterRx(s, sent, time).timeFirstTx = IF s.timeFirstTx = 0 THEN sent ELSE s.timeFirstTx
           /\ AfterRx(s, sent, time).timeLastRx = time
           /\ AfterRx(s, sent, time).txBytes = s.txBytes
           /\ AfterRx(s, sent, time).rxBytes = s.rxBytes + Size
           /\ AfterRx(s, sent, time).bytesDropped = s.bytesDropped
           /\ AfterDrop(s).timeFirstTx = s.timeFirstTx /\ AfterDrop(s).timeLastRx = s.timeLastRx
           /\ AfterDrop(s).txBytes = s.txBytes /\ AfterDrop(s).rxBytes = s.rxBytes
           /\ AfterDrop(s).bytesDropped = s.bytesDropped + Size
  <1>1. Size \in Nat
    BY MonitorAssumption
  <1>2. /\ s.txBytes + Size \in Nat /\ s.rxBytes + Size \in Nat /\ s.bytesDropped + Size \in Nat
    BY <1>1 DEF Stat
  <1>3. AfterTx(s, time) \in Stat
    BY <1>2 DEF AfterTx, Stat
  <1>4. AfterRx(s, sent, time) \in Stat
    BY <1>2 DEF AfterRx, Stat
  <1>5. AfterDrop(s) \in Stat
    BY <1>2 DEF AfterDrop, Stat
  <1>6. QED
    BY <1>3, <1>4, <1>5 DEF AfterTx, AfterRx, AfterDrop, Stat

(* A report changes the statistics of one flow in one process.             *)
LEMMA RecordEffect ==
    ASSUME StatsTypeOK, NEW p \in Procs, NEW f, NEW s \in Stat, Record(p, f, s)
    PROVE  /\ StatsTypeOK'
           /\ \A r \in Procs : DOMAIN stats'[r] = IF r = p THEN DOMAIN stats[r] \cup {f}
                                                ELSE DOMAIN stats[r]
           /\ \A r \in Procs : \A g :
                StatsOf(r, g)' = IF r = p /\ g = f THEN s ELSE StatsOf(r, g)
  <1>1. /\ stats'[p] = Put(stats[p], f, s) /\ DOMAIN stats' = Procs
        /\ \A r \in Procs : r # p => stats'[r] = stats[r]
    BY DEF StatsTypeOK, Record
  <1>2. /\ DOMAIN stats'[p] = DOMAIN stats[p] \cup {f}
        /\ stats'[p] = [g \in DOMAIN stats[p] \cup {f} |-> IF g = f THEN s ELSE stats[p][g]]
    BY <1>1 DEF Put
  <1>3. stats'[p] \in [DOMAIN stats'[p] -> Stat]
    BY <1>2 DEF StatsTypeOK
  <1>4. StatsTypeOK'
    BY <1>1, <1>3 DEF StatsTypeOK, Stat
  <1>5. \A g : StatsOf(p, g)' = IF g = f THEN s ELSE StatsOf(p, g)
    BY <1>2 DEF StatsOf
  <1>6. \A r \in Procs : r # p => \A g : StatsOf(r, g)' = StatsOf(r, g)
    BY <1>1 DEF StatsOf
  <1>7. QED
    BY <1>1, <1>2, <1>4, <1>5, <1>6

---------------------------------------------------------------------------
(* The packets of a tuple.                                                 *)

LEMMA PacketsOfFinite ==
    ASSUME PacketsTypeOK, NEW t, NEW fates
    PROVE  /\ PacketsOf(t, fates) \subseteq 1 .. Len(packets)
           /\ IsFiniteSet(PacketsOf(t, fates)) /\ Cardinality(PacketsOf(t, fates)) \in Nat
           /\ PacketsOf(t, fates) # {} => Cardinality(PacketsOf(t, fates)) > 0
  <1>1. packets \in Seq(Packet) /\ DOMAIN packets = 1 .. Len(packets) /\ Len(packets) \in Nat
    BY DEF PacketsTypeOK
  <1>2. PacketsOf(t, fates) \subseteq 1 .. Len(packets)
    BY <1>1 DEF PacketsOf
  <1>3. IsFiniteSet(1 .. Len(packets))
    BY <1>1, FS_Interval
  <1>4. IsFiniteSet(PacketsOf(t, fates))
    BY <1>2, <1>3, FS_Subset
  <1>5. QED
    BY <1>2, <1>4, FS_CardinalityType, FS_EmptySet

(* A packet is sent.                                                       *)
LEMMA SentPackets ==
    ASSUME PacketsTypeOK, NEW k \in Packet, k.fate = "flying", packets' = Append(packets, k)
    PROVE  /\ \A t : PacketsOf(t, Fates)' = IF t = k.tuple THEN PacketsOf(t, Fates) \cup {Len(packets) + 1}
                                           ELSE PacketsOf(t, Fates)
           /\ \A t : Delivered(t)' = Delivered(t) /\ Dropped(t)' = Dropped(t)
           /\ \A t, fates : Len(packets) + 1 \notin PacketsOf(t, fates)
  <1>1. /\ PacketsTypeOK' /\ Len(packets') = Len(packets) + 1 /\ Len(packets) \in Nat
        /\ \A n \in 1 .. Len(packets) : packets'[n] = packets[n]
        /\ packets'[Len(packets) + 1] = k
        /\ \A n \in 1 .. Len(packets') : n \in 1 .. Len(packets) \/ n = Len(packets) + 1
    BY AppendedPacket
  <1>2. DOMAIN packets = 1 .. Len(packets) /\ DOMAIN packets' = 1 .. Len(packets')
    BY <1>1 DEF PacketsTypeOK
  <1>3. Len(packets) + 1 \in 1 .. Len(packets') /\ 1 .. Len(packets) \subseteq 1 .. Len(packets')
        /\ Len(packets) + 1 \notin 1 .. Len(packets)
    BY <1>1
  <1>4. "flying" \in Fates
    BY DEF Fates
  <1>5. ASSUME NEW t, NEW fates
        PROVE  PacketsOf(t, fates)' = PacketsOf(t, fates) \cup
                    (IF t = k.tuple /\ "flying" \in fates THEN {Len(packets) + 1} ELSE {})
    BY <1>1, <1>2, <1>3 DEF PacketsOf
  <1>6. \A t, fates : Len(packets) + 1 \notin PacketsOf(t, fates)
    BY <1>2, <1>3 DEF PacketsOf
  <1>7. Fates' = Fates
    BY DEF Fates
  <1>8. QED
    BY <1>4, <1>5, <1>6, <1>7 DEF Delivered, Dropped

(* A packet that was flying meets its end.                                 *)
LEMMA EndedPackets ==
    ASSUME PacketsTypeOK, NEW n \in DOMAIN packets, packets[n].fate = "flying",
           NEW fate \in Fates, NEW time \in Int, NEW proc \in Int,
           Ends(n, fate, time, proc)
    PROVE  /\ DOMAIN packets = 1 .. Len(packets) /\ Len(packets') = Len(packets)
           /\ packets'[n].fate = fate /\ packets'[n].at = time /\ packets'[n].by = proc
           /\ \A m \in 1 .. Len(packets) :
                /\ packets'[m].tuple = packets[m].tuple /\ packets'[m].tag = packets[m].tag
                /\ packets'[m].sent = packets[m].sent
                /\ m # n => packets'[m] = packets[m]
           /\ \A t : PacketsOf(t, Fates)' = PacketsOf(t, Fates)
           /\ \A t : Delivered(t)' = IF fate = "delivered" /\ t = packets[n].tuple
                                     THEN Delivered(t) \cup {n} ELSE Delivered(t)
           /\ \A t : Dropped(t)' = IF fate = "dropped" /\ t = packets[n].tuple
                                   THEN Dropped(t) \cup {n} ELSE Dropped(t)
           /\ n \notin Delivered(packets[n].tuple) /\ n \notin Dropped(packets[n].tuple)
  <1>1. packets \in Seq(Packet) /\ DOMAIN packets = 1 .. Len(packets) /\ packets[n] \in Packet
    <2>1. packets \in Seq(Packet) /\ DOMAIN packets = 1 .. Len(packets)
      BY DEF PacketsTypeOK
    <2>2. QED
      BY <2>1, ElementOfSeq
  <1> DEFINE k == [packets[n] EXCEPT !.fate = fate, !.at = time, !.by = proc]
  <1>2. /\ k \in Packet /\ k.tuple = packets[n].tuple /\ k.tag = packets[n].tag
        /\ k.sent = packets[n].sent /\ k.fate = fate /\ k.at = time /\ k.by = proc
    BY <1>1 DEF Packet
  <1>3. packets' = [packets EXCEPT ![n] = k]
    BY <1>1 DEF Ends
  <1> HIDE DEF k
  <1>4. /\ packets' \in Seq(Packet) /\ Len(packets') = Len(packets)
        /\ DOMAIN packets' = 1 .. Len(packets)
        /\ \A m \in 1 .. Len(packets) : packets'[m] = IF m = n THEN k ELSE packets[m]
    BY <1>1, <1>2, <1>3, ExceptSeq
  <1>5. \A m \in 1 .. Len(packets) :
            /\ packets'[m].tuple = packets[m].tuple /\ packets'[m].tag = packets[m].tag
            /\ packets'[m].sent = packets[m].sent
            /\ m # n => packets'[m] = packets[m]
    BY <1>2, <1>4
  <1>6. packets'[n].fate = fate /\ packets'[n].at = time /\ packets'[n].by = proc
    BY <1>1, <1>2, <1>4
  <1>7. \A t : PacketsOf(t, Fates)' = PacketsOf(t, Fates)
    <2>1. packets[n].fate \in Fates /\ Fates' = Fates
      BY <1>1 DEF Packet, Fates
    <2>2. QED
      BY <1>1, <1>4, <1>5, <1>6, <2>1 DEF PacketsOf
  <1>8. ASSUME NEW t
        PROVE  Delivered(t)' = IF fate = "delivered" /\ t = packets[n].tuple
                               THEN Delivered(t) \cup {n} ELSE Delivered(t)
    BY <1>1, <1>4, <1>5, <1>6 DEF PacketsOf, Delivered
  <1>9. ASSUME NEW t
        PROVE  Dropped(t)' = IF fate = "dropped" /\ t = packets[n].tuple
                             THEN Dropped(t) \cup {n} ELSE Dropped(t)
    BY <1>1, <1>4, <1>5, <1>6 DEF PacketsOf, Dropped
  <1>10. n \notin Delivered(packets[n].tuple) /\ n \notin Dropped(packets[n].tuple)
    BY DEF PacketsOf, Delivered, Dropped
  <1>11. QED
    BY <1>1, <1>4, <1>5, <1>6, <1>7, <1>8, <1>9, <1>10

---------------------------------------------------------------------------
(* The steps.                                                              *)

(* A flow of which neither a packet nor the statistics change.             *)
LEMMA FlowUnchanged ==
    ASSUME NEW t, NEW f, FlowCounts(t, f), FlowTimes(t, f),
           PacketsOf(t, Fates)' = PacketsOf(t, Fates),
           Delivered(t)' = Delivered(t), Dropped(t)' = Dropped(t),
           StatsOf(Sender(t), f)' = StatsOf(Sender(t), f),
           StatsOf(Receiver(t), f)' = StatsOf(Receiver(t), f),
           \A n \in PacketsOf(t, Fates) : packets'[n].sent = packets[n].sent,
           \A n \in Delivered(t) : packets'[n] = packets[n]
    PROVE  FlowCounts(t, f)' /\ FlowTimes(t, f)'
  <1>1. FlowCounts(t, f)'
    BY DEF FlowCounts, Sender, Receiver, ProcOf
  <1> DEFINE all == PacketsOf(t, Fates)
             rec == Delivered(t)
             s == StatsOf(Receiver(t), f)
             p == Sender(t)
             q == Receiver(t)
  <1>2. LastRx(t, StatsOf(Receiver(t), f))'
    <2>1. /\ rec = {} => s.timeLastRx = 0
          /\ rec # {} => \E n \in rec : /\ s.timeLastRx = packets[n].at
                                        /\ \A m \in rec : packets[m].at <= packets[n].at
      BY DEF FlowTimes, LastRx
    <2>2. /\ rec = {} => s.timeLastRx = 0
          /\ rec # {} => \E n \in rec : /\ s.timeLastRx = packets'[n].at
                                        /\ \A m \in rec : packets'[m].at <= packets'[n].at
      BY <2>1
    <2>3. QED
      BY <2>2 DEF LastRx, Receiver, ProcOf
  <1>3. FirstTx(t, StatsOf(Receiver(t), f))'
    <2>1. /\ p # q /\ rec = {} => s.timeFirstTx = 0
          /\ (\A n \in all : packets[n].sent > 0) =>
                /\ p = q => \E n \in all : /\ s.timeFirstTx = packets[n].sent
                                           /\ \A m \in all : n <= m
                /\ p # q /\ rec # {} => \E n \in rec :
                    /\ s.timeFirstTx = packets[n].sent
                    /\ \A m \in rec : packets[n].at <= packets[m].at
      BY DEF FlowTimes, FirstTx
    <2>2. /\ p # q /\ rec = {} => s.timeFirstTx = 0
          /\ (\A n \in all : packets'[n].sent > 0) =>
                /\ p = q => \E n \in all : /\ s.timeFirstTx = packets'[n].sent
                                           /\ \A m \in all : n <= m
                /\ p # q /\ rec # {} => \E n \in rec :
                    /\ s.timeFirstTx = packets'[n].sent
                    /\ \A m \in rec : packets'[n].at <= packets'[m].at
      BY <2>1
    <2>3. QED
      BY <2>2 DEF FirstTx, Sender, Receiver, ProcOf
  <1>4. QED
    BY <1>1, <1>2, <1>3 DEF FlowTimes, Receiver, ProcOf

(* The numbers of two flows differ.                                        *)
LEMMA NumbersDiffer ==
    ASSUME IInv, IdsSuffice, NEW t \in FiveTuples, NEW u \in FiveTuples,
           t \in Known(Sender(t)), u \in Known(Sender(u)), t # u
    PROVE  flowMap[Sender(t)][t] # flowMap[Sender(u)][u]
  BY SenderType DEF IInv, NumbersApart

LEMMA FlowsUnchanged ==
    ASSUME JInv, UNCHANGED <<flowMap, stats, packets>>
    PROVE  FlowsOK'
  <1>1. \A t, fates : PacketsOf(t, fates)' = PacketsOf(t, fates)
    BY DEF PacketsOf
  <1>2. \A r, f : StatsOf(r, f)' = StatsOf(r, f)
    BY DEF StatsOf
  <1>3. ASSUME NEW t, NEW f, FlowCounts(t, f), FlowTimes(t, f)
        PROVE  FlowCounts(t, f)' /\ FlowTimes(t, f)'
    BY <1>1, <1>2, <1>3, FlowUnchanged DEF Delivered, Dropped, Fates
  <1>4. IdsSuffice' = IdsSuffice /\ \A r : Known(r)' = Known(r)
    BY DEF IdsSuffice, Known
  <1>5. QED
    BY <1>3, <1>4 DEF JInv, FlowsOK

LEMMA AdvanceKeeps ==
    ASSUME IInv, JInv, NEW p \in Procs, Advance(p)
    PROVE  JInv'
  <1>1. /\ now' = [now EXCEPT ![p] = @ + 1] /\ now[p] < MaxTime
        /\ UNCHANGED <<until, flowMap, lastNewFlowId, pktId, stats, tracked, packets, aborted>>
    BY DEF Advance
  <1>2. /\ now' \in [Procs -> 0 .. MaxTime]
        /\ \A r \in Procs : now[r] \in Int /\ now'[r] \in Int /\ now[r] <= now'[r]
    BY <1>1, MonitorAssumption DEF JInv, Clocks
  <1>3. Clocks'
    <2> SUFFICES ASSUME NEW n \in 1 .. Len(packets)
                 PROVE  LET k == packets[n] IN
                        /\ k.sent <= now'[Sender(k.tuple)] /\ k.at <= MaxTime
                        /\ k.fate = "delivered" => k.sent <= k.at /\ k.at <= now'[Receiver(k.tuple)]
      BY <1>1, <1>2 DEF Clocks, Sender, Receiver, ProcOf
    <2>1. /\ packets[n].sent \in Int /\ packets[n].at \in Int
          /\ Sender(packets[n].tuple) \in Procs /\ Receiver(packets[n].tuple) \in Procs
      BY PacketAt, SenderType DEF IInv, Packet, Receiver
    <2>2. /\ packets[n].sent <= now[Sender(packets[n].tuple)] /\ packets[n].at <= MaxTime
          /\ packets[n].fate = "delivered" =>
                packets[n].sent <= packets[n].at /\ packets[n].at <= now[Receiver(packets[n].tuple)]
      BY DEF JInv, Clocks
    <2> DEFINE snd == Sender(packets[n].tuple)
               rcv == Receiver(packets[n].tuple)
    <2>3. /\ now[snd] \in Int /\ now'[snd] \in Int /\ now[snd] <= now'[snd]
          /\ now[rcv] \in Int /\ now'[rcv] \in Int /\ now[rcv] <= now'[rcv]
      BY <1>2, <2>1
    <2> HIDE DEF snd, rcv
    <2>4. packets[n].sent <= now[snd] => packets[n].sent <= now'[snd]
      BY <2>1, <2>3
    <2>5. packets[n].at <= now[rcv] => packets[n].at <= now'[rcv]
      BY <2>1, <2>3
    <2>6. QED
      BY <2>2, <2>4, <2>5 DEF snd, rcv
  <1>4. StatsTypeOK' /\ TrackedHere' /\ TaggedIsKnown' /\ StatsOfFlows'
    BY <1>1 DEF JInv, StatsTypeOK, TrackedHere, TaggedIsKnown, StatsOfFlows, Known, Stat,
                Sender, Receiver, ProcOf, Filtered, IdsSuffice
  <1>5. FlowsOK'
    BY <1>1, FlowsUnchanged
  <1>6. QED
    BY <1>3, <1>4, <1>5 DEF JInv

LEMMA SendUntaggedKeepsJ ==
    ASSUME IInv, JInv, NEW t \in FiveTuples, SendUntagged(Sender(t), t), UNCHANGED <<until, now, aborted>>
    PROVE  JInv'
  <1> DEFINE p == Sender(t)
             k == [tuple |-> t, tag |-> NoTag, sent |-> now[p], fate |-> "flying", at |-> -1, by |-> -1]
             new == Len(packets) + 1
  <1>1. /\ p \in Procs /\ ~IsMonitored(p, t) /\ packets' = Append(packets, k)
        /\ UNCHANGED <<flowMap, lastNewFlowId, pktId, stats, tracked>>
    BY SenderType DEF SendUntagged
  <1>2. k \in Packet
    BY <1>1 DEF IInv, Packet, Tag, Fates, NoTag, MapsTypeOK
  <1>3. k.tuple = t /\ k.tag.flow = -1 /\ k.sent = now[p] /\ k.fate = "flying" /\ k.at = -1
        /\ k.by = -1
    BY DEF NoTag
  <1>4. t \notin Known(p)
    BY <1>1 DEF IsMonitored, Known, JInv, TaggedIsKnown
  <1> HIDE DEF k
  <1>5. /\ Len(packets') = new /\ Len(packets) \in Nat
        /\ \A n \in 1 .. Len(packets) : packets'[n] = packets[n]
        /\ packets'[new] = k
        /\ \A n \in 1 .. Len(packets') : n \in 1 .. Len(packets) \/ n = new
        /\ \A n \in 1 .. Len(packets) : n \in 1 .. Len(packets')
    BY <1>1, <1>2, AppendedPacket DEF IInv
  <1>6. Clocks'
    <2> SUFFICES ASSUME NEW n \in 1 .. Len(packets')
                 PROVE  LET j == packets'[n] IN
                        /\ j.sent <= now[Sender(j.tuple)] /\ j.at <= MaxTime
                        /\ j.fate = "delivered" => j.sent <= j.at /\ j.at <= now[Receiver(j.tuple)]
      BY <1>1 DEF JInv, Clocks, Sender, Receiver, ProcOf
    <2>1. CASE n = new
      <3>1. now[p] \in Int /\ MaxTime \in Nat
        BY <1>1, MonitorAssumption DEF IInv, MapsTypeOK
      <3>2. QED
        BY <1>3, <1>5, <2>1, <3>1
    <2>2. CASE n \in 1 .. Len(packets)
      BY <1>5, <2>2 DEF JInv, Clocks
    <2>3. QED
      BY <1>5, <2>1, <2>2
  <1>7. StatsTypeOK'
    BY <1>1 DEF JInv, StatsTypeOK, Stat
  <1>8. TrackedHere'
    <2>1. IdsSuffice' = IdsSuffice
      BY <1>1 DEF IdsSuffice
    <2>2. ASSUME NEW r \in Procs, NEW g \in tracked[r]
          PROVE  /\ g.flow >= 0
                 /\ \E n \in 1 .. Len(packets') :
                        /\ packets'[n].tag = g /\ Sender(packets'[n].tuple) = r
                        /\ IdsSuffice => packets'[n].by # r
      BY <1>5 DEF JInv, TrackedHere
    <2>3. ASSUME NEW n \in 1 .. Len(packets')
          PROVE  LET j == packets'[n] IN
                 /\ j.fate = "flying" => j.by = -1
                 /\ IdsSuffice /\ j.tag.flow >= 0 /\ j.by # Sender(j.tuple) => j.tag \in tracked[Sender(j.tuple)]
      <3>1. CASE n = new
        BY <1>3, <1>5, <3>1
      <3>2. CASE n \in 1 .. Len(packets)
        BY <1>5, <3>2 DEF JInv, TrackedHere
      <3>3. QED
        BY <1>5, <3>1, <3>2
    <2>4. QED
      BY <1>1, <2>1, <2>2, <2>3 DEF JInv, TrackedHere, Sender, ProcOf
  <1>9. TaggedIsKnown'
    <2>1. ASSUME NEW n \in 1 .. Len(packets')
          PROVE  packets'[n].tag.flow >= 0 <=> packets'[n].tuple \in Known(Sender(packets'[n].tuple))
      <3>1. CASE n = new
        BY <1>3, <1>4, <1>5, <3>1
      <3>2. CASE n \in 1 .. Len(packets)
        BY <1>5, <3>2 DEF JInv, TaggedIsKnown
      <3>3. QED
        BY <1>5, <3>1, <3>2
    <2>2. QED
      BY <1>1, <2>1 DEF JInv, TaggedIsKnown, Known, Sender, ProcOf, Filtered
  <1>10. StatsOfFlows'
    <2> SUFFICES ASSUME NEW r \in Procs, NEW f \in DOMAIN stats[r]
                 PROVE  \E n \in 1 .. Len(packets') :
                            LET j == packets'[n] IN
                            j.tag.flow = f /\ f >= 0 /\ (r = Sender(j.tuple) \/ r = Receiver(j.tuple))
      BY <1>1 DEF StatsOfFlows, Sender, Receiver, ProcOf
    <2>1. QED
      BY <1>5 DEF JInv, StatsOfFlows
  <1>11. FlowsOK'
    <2> SUFFICES ASSUME IdsSuffice, NEW q \in Procs, NEW u \in Known(q), NEW f \in {flowMap[q][u]}
                 PROVE  FlowCounts(u, f)' /\ FlowTimes(u, f)'
      BY <1>1 DEF FlowsOK, IdsSuffice, Known
    <2>1. Sender(u) = q /\ u # t
      BY <1>4 DEF IInv, MapsTypeOK
    <2>2. /\ PacketsOf(u, Fates)' = PacketsOf(u, Fates)
          /\ Delivered(u)' = Delivered(u) /\ Dropped(u)' = Dropped(u)
      BY <1>1, <1>2, <1>3, <2>1, SentPackets DEF IInv
    <2>3. \A r, g : StatsOf(r, g)' = StatsOf(r, g)
      BY <1>1 DEF StatsOf
    <2>4. \A fates : \A n \in PacketsOf(u, fates) : packets'[n] = packets[n]
      BY <1>5, PacketsOfFinite DEF IInv
    <2>5. FlowCounts(u, f) /\ FlowTimes(u, f)
      BY DEF JInv, FlowsOK
    <2>6. QED
      BY <2>2, <2>3, <2>4, <2>5, FlowUnchanged DEF Delivered
  <1>12. QED
    BY <1>6, <1>7, <1>8, <1>9, <1>10, <1>11 DEF JInv

(* Classify adds no flow but that of the packet.                           *)
LEMMA ClassifyAdds ==
    ASSUME IInv, NEW p \in Procs, NEW t, Classify(p, t)
    PROVE  \A q \in Procs : \A u \in Known(q)' : u \in Known(q) \/ (q = p /\ u = t)
  <1>1. CASE t \in DOMAIN flowMap[p]
    BY <1>1 DEF Classify, Known
  <1>2. CASE t \notin DOMAIN flowMap[p]
    <2>1. flowMap' = [flowMap EXCEPT ![p] = Put(@, t, FlowIdOf(p, t))]
      BY <1>2 DEF Classify
    <2>2. /\ DOMAIN flowMap'[p] = DOMAIN flowMap[p] \cup {t}
          /\ \A q \in Procs : q # p => flowMap'[q] = flowMap[q]
      BY <2>1 DEF IInv, MapsTypeOK, Put
    <2>3. QED
      BY <2>2 DEF Known
  <1>3. QED
    BY <1>1, <1>2

(* A tuple that gets a number has not been sent before.                    *)
LEMMA NewTupleWasNotSent ==
    ASSUME IInv, JInv, NEW t \in FiveTuples, t \notin Known(Sender(t)), IsMonitored(Sender(t), t)
    PROVE  \A n \in 1 .. Len(packets) : packets[n].tuple # t
  <1> SUFFICES ASSUME NEW n \in 1 .. Len(packets), packets[n].tuple = t PROVE FALSE
    OBVIOUS
  <1> DEFINE p == Sender(t)
  <1>1. ~Filtered(t) /\ now[p] <= until
    BY DEF IsMonitored, Known
  <1>2. packets[n].tag.flow \in Int /\ packets[n].sent \in Int
    BY PacketAt DEF IInv
  <1>3. packets[n].tag.flow < 0
    BY <1>2 DEF JInv, TaggedIsKnown
  <1>4. packets[n].sent > until
    BY <1>1, <1>3 DEF IInv, UntaggedIsLate
  <1>5. packets[n].sent <= now[p]
    BY DEF JInv, Clocks
  <1>6. now[p] \in Int /\ until \in Int
    BY SenderType DEF IInv, MapsTypeOK
  <1> HIDE DEF p
  <1>7. QED
    BY <1>1, <1>2, <1>4, <1>5, <1>6

(* A new number has no statistics.                                         *)
LEMMA NewNumberHasNoStats ==
    ASSUME IInv, JInv, NEW t \in FiveTuples, t \notin Known(Sender(t)),
           Classify(Sender(t), t), UNCHANGED <<until, now>>, IdsSuffice'
    PROVE  \A r \in Procs : FlowIdOf(Sender(t), t) \notin DOMAIN stats[r]
  <1> DEFINE p == Sender(t)
             f == FlowIdOf(p, t)
  <1> SUFFICES ASSUME NEW r \in Procs, f \in DOMAIN stats[r] PROVE FALSE
    OBVIOUS
  <1>1. /\ p \in Procs /\ NumbersApart' /\ IdsSuffice
        /\ t \in Known(p)' /\ flowMap'[p][t] = f
        /\ \A q \in Procs : \A u \in Known(q) : u \in Known(q)' /\ flowMap'[q][u] = flowMap[q][u]
    BY SenderType, ClassifyKeeps
  <1>2. PICK n \in 1 .. Len(packets) : packets[n].tag.flow = f /\ f >= 0
    BY DEF JInv, StatsOfFlows
  <1>3. PICK u \in FiveTuples : u = packets[n].tuple /\ Sender(u) \in Procs
    BY PacketAt, SenderType DEF IInv
  <1>4. u \in Known(Sender(u)) /\ flowMap[Sender(u)][u] = f
    BY <1>1, <1>2, <1>3 DEF IInv, TagsCounted
  <1>5. u \in Known(Sender(u))' /\ flowMap'[Sender(u)][u] = f
    BY <1>1, <1>3, <1>4
  <1>6. u = t
    BY <1>1, <1>3, <1>5 DEF NumbersApart
  <1>7. QED
    BY <1>4, <1>6

(* What the packet of a tuple does to the counts and times of its flow.    *)
LEMMA SentFlow ==
    ASSUME IInv, JInv, NEW t \in FiveTuples, NEW f,
           NEW k \in Packet, k.tuple = t, k.fate = "flying", k.sent = now[Sender(t)],
           packets' = Append(packets, k),
           StatsOf(Sender(t), f)' = AfterTx(StatsOf(Sender(t), f), now[Sender(t)]),
           Sender(t) # Receiver(t) => StatsOf(Receiver(t), f)' = StatsOf(Receiver(t), f),
           \/ FlowCounts(t, f) /\ FlowTimes(t, f)
           \/ /\ PacketsOf(t, Fates) = {} /\ Delivered(t) = {} /\ Dropped(t) = {}
              /\ StatsOf(Sender(t), f) = NoStats /\ StatsOf(Receiver(t), f) = NoStats
    PROVE  FlowCounts(t, f)' /\ FlowTimes(t, f)'
  <1> DEFINE p == Sender(t)
             q == Receiver(t)
             all == PacketsOf(t, Fates)
             rec == Delivered(t)
             sp == StatsOf(p, f)
             sq == StatsOf(q, f)
             new == Len(packets) + 1
             all2 == all \cup {new}
             sp2 == AfterTx(sp, now[p])
             sq2 == IF p = q THEN sp2 ELSE sq
  <1>0. Sender(t)' = p /\ Receiver(t)' = q
    BY DEF Sender, Receiver, ProcOf
  <1>1. /\ p \in Procs /\ q \in Procs /\ now[p] \in 0 .. MaxTime
        /\ sp \in Stat /\ sq \in Stat
    BY SenderType, StatsOfType DEF Receiver, JInv, Clocks
  <1>2. /\ sp2.timeFirstTx = IF sp.txBytes = 0 THEN now[p] ELSE sp.timeFirstTx
        /\ sp2.timeLastRx = sp.timeLastRx /\ sp2.txBytes = sp.txBytes + Size
        /\ sp2.rxBytes = sp.rxBytes /\ sp2.bytesDropped = sp.bytesDropped
    BY <1>1, AfterType
  <1>3. /\ sp.txBytes \in Nat /\ sp.rxBytes \in Nat /\ sp.bytesDropped \in Nat
        /\ sq.txBytes \in Nat /\ sq.rxBytes \in Nat /\ sq.bytesDropped \in Nat
    BY <1>1 DEF Stat
  <1>4. /\ StatsOf(p, f)' = sp2 /\ StatsOf(q, f)' = sq2
    OBVIOUS
  <1>5. /\ PacketsOf(t, Fates)' = all2 /\ Delivered(t)' = rec /\ Dropped(t)' = Dropped(t)
        /\ new \notin all
    BY SentPackets DEF IInv
  <1>6. /\ all \subseteq 1 .. Len(packets) /\ rec \subseteq 1 .. Len(packets)
        /\ IsFiniteSet(all) /\ Cardinality(all) \in Nat
        /\ all # {} => Cardinality(all) > 0
    BY PacketsOfFinite DEF IInv, Delivered
  <1>7. Cardinality(all2) = Cardinality(all) + 1
    BY <1>5, <1>6, FS_AddElement
  <1>8. /\ \A n \in 1 .. Len(packets) : packets'[n] = packets[n]
        /\ packets'[new] = k /\ Len(packets) \in Nat
    BY AppendedPacket DEF IInv
  <1> DEFINE fresh == /\ all = {} /\ rec = {} /\ Dropped(t) = {} /\ sp = NoStats /\ sq = NoStats
  <1>9. \/ FlowCounts(t, f) /\ FlowTimes(t, f)
        \/ fresh
    OBVIOUS
  (* The counts, which are right for a fresh flow too.                     *)
  <1>10. /\ sp.txBytes = Size * Cardinality(all)
         /\ sq.rxBytes = Size * Cardinality(rec)
         /\ p = q => sp.bytesDropped = Size * Cardinality(Dropped(t))
         /\ p # q => /\ sq.txBytes = 0 /\ sp.rxBytes = 0 /\ sp.timeLastRx = 0
                     /\ sp.bytesDropped + sq.bytesDropped = Size * Cardinality(Dropped(t))
    <2>1. CASE FlowCounts(t, f)
      BY <2>1 DEF FlowCounts
    <2>2. CASE fresh
      BY <2>2, FS_EmptySet, SizeTimes DEF NoStats
    <2>3. QED
      BY <1>9, <2>1, <2>2
  <1>11. FlowCounts(t, f)'
    <2> DEFINE c == Cardinality(all)
               drop == Size * Cardinality(Dropped(t))
    <2>1. sp2.txBytes = Size * Cardinality(all2)
      <3>1. Size * (c + 1) = Size * c + Size
        BY <1>6, SizeTimes
      <3>2. QED
        BY <1>2, <1>7, <1>10, <3>1
    <2>2. sq2.rxBytes = Size * Cardinality(rec)
      BY <1>2, <1>10
    <2>3. p = q => sp2.bytesDropped = drop
      BY <1>2, <1>10
    <2>4. p # q => /\ sq2.txBytes = 0 /\ sp2.rxBytes = 0 /\ sp2.timeLastRx = 0
                   /\ sp2.bytesDropped + sq2.bytesDropped = drop
      BY <1>2, <1>10
    <2>5. all2 # {}
      OBVIOUS
    <2> HIDE DEF sp2, sq2, all2, drop
    <2>6. QED
      BY <1>0, <1>4, <1>5, <2>1, <2>2, <2>3, <2>4, <2>5 DEF FlowCounts, drop
  <1>12. LastRx(t, StatsOf(q, f))'
    <2>1. sq2.timeLastRx = sq.timeLastRx
      BY <1>2
    <2>2. /\ rec = {} => sq.timeLastRx = 0
          /\ rec # {} => \E n \in rec : /\ sq.timeLastRx = packets[n].at
                                        /\ \A m \in rec : packets[m].at <= packets[n].at
      <3>1. CASE FlowTimes(t, f)
        BY <3>1 DEF FlowTimes, LastRx
      <3>2. CASE fresh
        BY <3>2 DEF NoStats
      <3>3. QED
        BY <1>9, <3>1, <3>2
    <2> HIDE DEF sq2, rec, sq
    <2>3. /\ rec = {} => sq2.timeLastRx = 0
          /\ rec # {} => \E n \in rec : /\ sq2.timeLastRx = packets'[n].at
                                        /\ \A m \in rec : packets'[m].at <= packets'[n].at
      BY <1>6, <1>8, <2>1, <2>2
    <2>4. QED
      BY <1>4, <1>5, <2>3 DEF LastRx
  <1>13. FirstTx(t, StatsOf(q, f))'
    <2>1. p # q /\ rec = {} => sq2.timeFirstTx = 0
      <3>1. CASE FlowTimes(t, f)
        BY <3>1 DEF FlowTimes, FirstTx
      <3>2. CASE fresh
        BY <3>2 DEF NoStats
      <3>3. QED
        BY <1>9, <3>1, <3>2
    <2>2. ASSUME \A n \in all2 : packets'[n].sent > 0, p = q
          PROVE  \E n \in all2 : /\ sq2.timeFirstTx = packets'[n].sent
                                 /\ \A m \in all2 : n <= m
      <3>1. CASE FlowCounts(t, f) /\ FlowTimes(t, f)
        <4>1. \A n \in all : packets[n].sent > 0
          BY <1>6, <1>8, <2>2
        <4>2. PICK n \in all : /\ sq.timeFirstTx = packets[n].sent
                               /\ \A m \in all : n <= m
          BY <2>2, <3>1, <4>1 DEF FlowTimes, FirstTx
        <4>3. sp.txBytes # 0
          <5>1. all # {}
            BY <4>2
          <5>2. Size * Cardinality(all) > 0
            BY <1>6, <5>1, SizeTimes
          <5>3. QED
            BY <1>10, <5>2
        <4>4. sq2.timeFirstTx = packets'[n].sent
          BY <1>2, <1>6, <1>8, <2>2, <4>2, <4>3
        <4>5. n <= new
          BY <1>6, <1>8
        <4>6. QED
          BY <4>2, <4>4, <4>5
      <3>2. CASE fresh
        <4>1. sq2.timeFirstTx = now[p]
          BY <1>2, <2>2, <3>2 DEF NoStats
        <4>2. all2 = {new} /\ new <= new
          BY <1>8, <3>2
        <4>3. QED
          BY <1>8, <4>1, <4>2
      <3>3. QED
        BY <1>9, <3>1, <3>2
    <2>3. ASSUME \A n \in all2 : packets'[n].sent > 0, p # q, rec # {}
          PROVE  \E n \in rec : /\ sq2.timeFirstTx = packets'[n].sent
                                /\ \A m \in rec : packets'[n].at <= packets'[m].at
      <3>1. FlowTimes(t, f)
        BY <1>9, <2>3
      <3>2. \A n \in all : packets[n].sent > 0
        BY <1>6, <1>8, <2>3
      <3>3. PICK n \in rec : /\ sq.timeFirstTx = packets[n].sent
                             /\ \A m \in rec : packets[n].at <= packets[m].at
        BY <2>3, <3>1, <3>2 DEF FlowTimes, FirstTx
      <3>4. QED
        BY <1>6, <1>8, <2>3, <3>3
    <2> HIDE DEF sq2, all2, rec, p, q
    <2>4. QED
      BY <1>0, <1>4, <1>5, <2>1, <2>2, <2>3 DEF FirstTx
  <1>14. QED
    BY <1>0, <1>11, <1>12, <1>13 DEF FlowTimes

LEMMA SendTaggedKeepsJ ==
    ASSUME IInv, JInv, NEW t \in FiveTuples, SendTagged(Sender(t), t), UNCHANGED <<until, now, aborted>>
    PROVE  JInv'
  <1> DEFINE new == Len(packets) + 1
  <1>1. PICK p, f, tag, k, s :
            /\ p \in Procs /\ p = Sender(t) /\ f = FlowIdOf(p, t) /\ tag = [flow |-> f, packet |-> pktId'[p][f]]
            /\ s = AfterTx(StatsOf(p, f), now[p])
            /\ k = [tuple |-> t, tag |-> tag, sent |-> now[p], fate |-> "flying", at |-> -1, by |-> -1]
    BY SenderType
  <1>2. /\ IsMonitored(p, t) /\ Classify(p, t) /\ packets' = Append(packets, k)
        /\ tracked' = [tracked EXCEPT ![p] = @ \cup {tag}]
        /\ Record(p, f, s)
    BY <1>1 DEF SendTagged
  <1>3. ~Filtered(t)
    BY <1>2 DEF IsMonitored
  <1>4. /\ p \in Procs /\ MapsTypeOK' /\ NumbersApart'
        /\ IdsSuffice' => IdsSuffice
        /\ t \in Known(p)' /\ flowMap'[p][t] = f /\ f \in Nat /\ pktId'[p][f] \in Nat
        /\ \A q \in Procs : \A u \in Known(q) : u \in Known(q)' /\ flowMap'[q][u] = flowMap[q][u]
        /\ \A q \in Procs : \A u \in Known(q)' : u \in Known(q) \/ (q = p /\ u = t)
    BY <1>1, <1>2, ClassifyKeeps, ClassifyAdds
  <1>5. /\ now[p] \in 0 .. MaxTime /\ now[p] \in Nat /\ StatsOf(p, f) \in Stat
        /\ s \in Stat
    BY <1>1, StatsOfType, AfterType DEF JInv, Clocks
  <1>6. k \in Packet /\ tag.flow = f /\ k.tuple = t /\ k.tag = tag /\ k.sent = now[p]
        /\ k.fate = "flying" /\ k.at = -1 /\ k.by = -1
    <2>1. tag \in Tag /\ tag.flow = f
      BY <1>1, <1>4 DEF Tag
    <2>2. QED
      BY <1>1, <1>5, <2>1 DEF Packet, Fates
  <1>7. /\ Len(packets') = new /\ Len(packets) \in Nat
        /\ \A n \in 1 .. Len(packets) : packets'[n] = packets[n]
        /\ packets'[new] = k /\ new \in 1 .. Len(packets')
        /\ \A n \in 1 .. Len(packets') : n \in 1 .. Len(packets) \/ n = new
        /\ \A n \in 1 .. Len(packets) : n \in 1 .. Len(packets')
    BY <1>2, <1>6, AppendedPacket DEF IInv
  <1>8. /\ StatsTypeOK'
        /\ \A r \in Procs : DOMAIN stats'[r] = IF r = p THEN DOMAIN stats[r] \cup {f}
                                             ELSE DOMAIN stats[r]
        /\ \A r \in Procs : \A g : StatsOf(r, g)' = IF r = p /\ g = f THEN s ELSE StatsOf(r, g)
    <2>1. StatsTypeOK /\ Record(p, f, s) /\ s \in Stat /\ p \in Procs
      BY <1>1, <1>2, <1>5 DEF JInv
    <2>2. QED
      BY <2>1, RecordEffect
  <1>9. Clocks'
    <2> SUFFICES ASSUME NEW n \in 1 .. Len(packets')
                 PROVE  LET j == packets'[n] IN
                        /\ j.sent <= now[Sender(j.tuple)] /\ j.at <= MaxTime
                        /\ j.fate = "delivered" => j.sent <= j.at /\ j.at <= now[Receiver(j.tuple)]
      BY DEF JInv, Clocks, Sender, Receiver, ProcOf
    <2>1. CASE n = new
      BY <1>1, <1>5, <1>6, <1>7, <2>1, MonitorAssumption
    <2>2. CASE n \in 1 .. Len(packets)
      BY <1>7, <2>2 DEF JInv, Clocks
    <2>3. QED
      BY <1>7, <2>1, <2>2
  <1>10. TrackedHere'
    <2>1. /\ DOMAIN tracked' = Procs
          /\ \A r \in Procs : tracked'[r] = IF r = p THEN tracked[r] \cup {tag} ELSE tracked[r]
      BY <1>2 DEF JInv, TrackedHere
    <2>2. ASSUME NEW r \in Procs, NEW g \in tracked'[r]
          PROVE  /\ g.flow >= 0
                 /\ \E n \in 1 .. Len(packets') :
                        /\ packets'[n].tag = g /\ Sender(packets'[n].tuple) = r
                        /\ IdsSuffice' => packets'[n].by # r
      <3>1. CASE g \in tracked[r]
        BY <1>4, <1>7, <3>1 DEF JInv, TrackedHere
      <3>2. CASE g \notin tracked[r]
        <4>1. r = p /\ g = tag
          BY <2>1, <3>2
        <4>2. packets'[new].tag = g /\ Sender(packets'[new].tuple) = r /\ packets'[new].by = -1
          BY <1>1, <1>6, <1>7, <4>1
        <4>3. g.flow >= 0 /\ r # -1
          BY <1>4, <1>6, <4>1, ProcsAreInts
        <4>4. QED
          BY <1>7, <4>2, <4>3
      <3>3. QED
        BY <3>1, <3>2
    <2>3. ASSUME NEW n \in 1 .. Len(packets')
          PROVE  LET j == packets'[n] IN
                 /\ j.fate = "flying" => j.by = -1
                 /\ IdsSuffice' /\ j.tag.flow >= 0 /\ j.by # Sender(j.tuple) => j.tag \in tracked'[Sender(j.tuple)]
      <3>1. CASE n = new
        BY <1>1, <1>4, <1>6, <1>7, <2>1, <3>1
      <3>2. CASE n \in 1 .. Len(packets)
        <4>1. /\ packets'[n] = packets[n] /\ Sender(packets[n].tuple) \in Procs
          BY <1>7, <3>2, PacketAt, SenderType DEF IInv
        <4>2. /\ packets[n].fate = "flying" => packets[n].by = -1
              /\ IdsSuffice /\ packets[n].tag.flow >= 0 /\ packets[n].by # Sender(packets[n].tuple)
                    => packets[n].tag \in tracked[Sender(packets[n].tuple)]
          BY <3>2 DEF JInv, TrackedHere
        <4>3. tracked[Sender(packets[n].tuple)] \subseteq tracked'[Sender(packets[n].tuple)]
          BY <2>1, <4>1
        <4>4. QED
          BY <1>4, <4>1, <4>2, <4>3
      <3>3. QED
        BY <1>7, <3>1, <3>2
    <2>4. QED
      BY <2>1, <2>2, <2>3 DEF TrackedHere, Sender, ProcOf
  <1>11. t \notin Known(p) => \A n \in 1 .. Len(packets) : packets[n].tuple # t
    BY <1>1, <1>2, NewTupleWasNotSent
  <1>12. TaggedIsKnown'
    <2>1. ASSUME NEW n \in 1 .. Len(packets')
          PROVE  packets'[n].tag.flow >= 0 <=> packets'[n].tuple \in DOMAIN flowMap'[Sender(packets'[n].tuple)]
      <3>1. CASE n = new
        BY <1>1, <1>4, <1>6, <1>7, <3>1 DEF Known
      <3>2. CASE n \in 1 .. Len(packets)
        <4>1. PICK u \in FiveTuples : u = packets[n].tuple /\ Sender(u) \in Procs
          BY <3>2, PacketAt, SenderType DEF IInv
        <4>2. packets[n].tag.flow >= 0 <=> u \in Known(Sender(u))
          BY <3>2, <4>1 DEF JInv, TaggedIsKnown
        <4>3. u \in Known(Sender(u)) <=> u \in Known(Sender(u))'
          BY <1>4, <1>11, <3>2, <4>1
        <4>4. QED
          BY <1>7, <3>2, <4>1, <4>2, <4>3 DEF Known
      <3>3. QED
        BY <1>7, <3>1, <3>2
    <2>2. \A q \in Procs : \A u \in Known(q)' : ~Filtered(u)
      BY <1>3, <1>4 DEF JInv, TaggedIsKnown
    <2>3. QED
      BY <2>1, <2>2 DEF TaggedIsKnown, Known, Sender, ProcOf, Filtered
  <1>13. StatsOfFlows'
    <2> SUFFICES ASSUME NEW r \in Procs, NEW g \in DOMAIN stats'[r]
                 PROVE  \E n \in 1 .. Len(packets') :
                            LET j == packets'[n] IN
                            j.tag.flow = g /\ g >= 0 /\ (r = Sender(j.tuple) \/ r = Receiver(j.tuple))
      BY DEF StatsOfFlows, Sender, Receiver, ProcOf
    <2>1. CASE g \in DOMAIN stats[r]
      BY <1>7, <2>1 DEF JInv, StatsOfFlows
    <2>2. CASE g \notin DOMAIN stats[r]
      <3>1. r = p /\ g = f
        BY <1>8, <2>2
      <3>2. packets'[new].tag.flow = g /\ g >= 0 /\ r = Sender(packets'[new].tuple)
        BY <1>1, <1>4, <1>6, <1>7, <3>1
      <3>3. QED
        BY <1>7, <3>2
    <2>3. QED
      BY <2>1, <2>2
  <1>14. FlowsOK'
    <2> SUFFICES ASSUME IdsSuffice', NEW q \in Procs, NEW u \in Known(q)', NEW g \in {flowMap'[q][u]}
                 PROVE  FlowCounts(u, g)' /\ FlowTimes(u, g)'
      BY DEF FlowsOK
    <2>0. Sender(u) = q /\ u \in FiveTuples
      BY <1>4 DEF MapsTypeOK, Sender, ProcOf, Known
    <2>1. Sender(u) = q /\ u \in FiveTuples /\ Receiver(u) \in Procs
      BY <2>0, SenderType DEF Receiver
    <2>2. CASE u = t
      <3>1. q = p /\ g = f
        BY <1>1, <1>4, <2>1, <2>2
      <3>2. /\ StatsOf(Sender(t), f)' = AfterTx(StatsOf(Sender(t), f), now[Sender(t)])
            /\ Sender(t) # Receiver(t) => StatsOf(Receiver(t), f)' = StatsOf(Receiver(t), f)
        BY <1>1, <1>8, <2>1, <2>2
      <3>3. CASE t \in Known(p)
        <4>1. FlowCounts(t, f) /\ FlowTimes(t, f)
          BY <1>4, <3>3 DEF JInv, FlowsOK
        <4>2. QED
          BY <1>1, <1>2, <1>6, <2>2, <3>1, <3>2, <4>1, SentFlow
      <3>4. CASE t \notin Known(p)
        <4>1. PacketsOf(t, Fates) = {} /\ Delivered(t) = {} /\ Dropped(t) = {}
          BY <1>11, <3>4, PacketsOfFinite DEF PacketsOf, Delivered, Dropped, IInv, PacketsTypeOK
        <4>2. \A r \in Procs : f \notin DOMAIN stats[r]
          BY <1>1, <1>2, <3>4, NewNumberHasNoStats
        <4>3. StatsOf(Sender(t), f) = NoStats /\ StatsOf(Receiver(t), f) = NoStats
          BY <1>1, <2>1, <2>2, <4>2 DEF StatsOf
        <4>4. QED
          BY <1>1, <1>2, <1>6, <2>2, <3>1, <3>2, <4>1, <4>3, SentFlow
      <3>5. QED
        BY <3>3, <3>4
    <2>3. CASE u # t
      <3>1. u \in Known(q) /\ g = flowMap[q][u]
        BY <1>4, <2>3
      <3>2. g # f
        BY <1>4, <2>1, <2>3 DEF NumbersApart
      <3>3. FlowCounts(u, g) /\ FlowTimes(u, g)
        BY <1>4, <3>1 DEF JInv, FlowsOK
      <3>4. /\ PacketsOf(u, Fates)' = PacketsOf(u, Fates)
            /\ Delivered(u)' = Delivered(u) /\ Dropped(u)' = Dropped(u)
        BY <1>2, <1>6, <2>3, SentPackets DEF IInv
      <3>5. \A r \in Procs : StatsOf(r, g)' = StatsOf(r, g)
        BY <1>8, <3>2
      <3>6. \A fates : \A n \in PacketsOf(u, fates) : packets'[n] = packets[n]
        BY <1>7, PacketsOfFinite DEF IInv
      <3>7. QED
        BY <2>1, <3>3, <3>4, <3>5, <3>6, FlowUnchanged DEF Delivered
    <2>4. QED
      BY <2>2, <2>3
  <1>15. QED
    BY <1>8, <1>9, <1>10, <1>12, <1>13, <1>14 DEF JInv

(* The end of a packet leaves all else of the packets as it was.           *)
LEMMA EndedKeeps ==
    ASSUME IInv, JInv, NEW n \in DOMAIN packets, packets[n].fate = "flying",
           NEW fate \in Fates, NEW time \in Int, NEW proc \in Int,
           Ends(n, fate, time, proc),
           UNCHANGED <<until, now, flowMap>>, time <= MaxTime,
           fate = "delivered" => packets[n].sent <= time /\ time <= now[Receiver(packets[n].tuple)]
    PROVE  Clocks' /\ TaggedIsKnown' /\ IdsSuffice' = IdsSuffice
  <1>1. /\ DOMAIN packets = 1 .. Len(packets) /\ Len(packets') = Len(packets)
        /\ packets'[n].fate = fate /\ packets'[n].at = time
        /\ \A m \in 1 .. Len(packets) :
             /\ packets'[m].tuple = packets[m].tuple /\ packets'[m].tag = packets[m].tag
             /\ packets'[m].sent = packets[m].sent
             /\ m # n => packets'[m] = packets[m]
    BY EndedPackets DEF IInv
  <1>2. Clocks'
    <2> SUFFICES ASSUME NEW m \in 1 .. Len(packets)
                 PROVE  LET k == packets'[m] IN
                        /\ k.sent <= now[Sender(k.tuple)] /\ k.at <= MaxTime
                        /\ k.fate = "delivered" => k.sent <= k.at /\ k.at <= now[Receiver(k.tuple)]
      BY <1>1 DEF JInv, Clocks, Sender, Receiver, ProcOf
    <2>1. /\ packets[m].sent <= now[Sender(packets[m].tuple)] /\ packets[m].at <= MaxTime
          /\ packets[m].fate = "delivered" =>
                packets[m].sent <= packets[m].at /\ packets[m].at <= now[Receiver(packets[m].tuple)]
      BY DEF JInv, Clocks
    <2>2. CASE m = n
      BY <1>1, <2>1, <2>2
    <2>3. CASE m # n
      BY <1>1, <2>1, <2>3
    <2>4. QED
      BY <2>2, <2>3
  <1>3. TaggedIsKnown'
    BY <1>1 DEF JInv, TaggedIsKnown, Known, Sender, ProcOf, Filtered
  <1>4. QED
    BY <1>2, <1>3 DEF IdsSuffice

(* The process by whose host a packet ends stops tracking it, if it did,   *)
(* and nothing else is done to what is tracked.                            *)
LEMMA EndedTracked ==
    ASSUME IInv, JInv, NEW n \in DOMAIN packets, packets[n].fate = "flying",
           NEW fate \in Fates, NEW time \in Int, NEW proc \in Int,
           Ends(n, fate, time, proc),
           fate # "flying", IdsSuffice' = IdsSuffice, DOMAIN tracked' = Procs,
           \A r \in Procs :
                tracked'[r] = IF r = proc THEN tracked[r] \ {packets[n].tag} ELSE tracked[r]
    PROVE  TrackedHere'
  <1>1. /\ DOMAIN packets = 1 .. Len(packets) /\ Len(packets') = Len(packets)
        /\ packets'[n].fate = fate /\ packets'[n].by = proc
        /\ \A m \in 1 .. Len(packets) :
             /\ packets'[m].tuple = packets[m].tuple /\ packets'[m].tag = packets[m].tag
             /\ m # n => packets'[m] = packets[m]
    BY EndedPackets DEF IInv
  <1>2. ASSUME NEW r \in Procs, NEW g \in tracked'[r]
        PROVE  /\ g.flow >= 0
               /\ \E m \in 1 .. Len(packets') :
                      /\ packets'[m].tag = g /\ Sender(packets'[m].tuple) = r
                      /\ IdsSuffice => packets'[m].by # r
    <2>1. g \in tracked[r] /\ (r = proc => g # packets[n].tag)
      OBVIOUS
    <2>2. g.flow >= 0
      BY <2>1 DEF JInv, TrackedHere
    <2>3. PICK m \in 1 .. Len(packets) :
              /\ packets[m].tag = g /\ Sender(packets[m].tuple) = r
              /\ IdsSuffice => packets[m].by # r
      BY <2>1 DEF JInv, TrackedHere
    <2>4. IdsSuffice => packets'[m].by # r
      BY <1>1, <2>1, <2>3
    <2>5. QED
      BY <1>1, <2>2, <2>3, <2>4
  <1>3. ASSUME NEW m \in 1 .. Len(packets')
        PROVE  LET j == packets'[m] IN
               /\ j.fate = "flying" => j.by = -1
               /\ IdsSuffice /\ j.tag.flow >= 0 /\ j.by # Sender(j.tuple) => j.tag \in tracked'[Sender(j.tuple)]
    <2>1. Sender(packets[m].tuple) \in Procs /\ n \in 1 .. Len(packets)
      BY <1>1, PacketAt, SenderType DEF IInv
    <2>2. /\ packets[m].fate = "flying" => packets[m].by = -1
          /\ IdsSuffice /\ packets[m].tag.flow >= 0 /\ packets[m].by # Sender(packets[m].tuple)
                => packets[m].tag \in tracked[Sender(packets[m].tuple)]
      BY <1>1 DEF JInv, TrackedHere
    <2>3. CASE m = n
      <3>1. packets[m].by # Sender(packets[m].tuple)
        BY <2>1, <2>2, <2>3, ProcsAreInts
      <3>2. proc # Sender(packets[m].tuple)
                => tracked'[Sender(packets[m].tuple)] = tracked[Sender(packets[m].tuple)]
        BY <2>1
      <3>3. QED
        BY <1>1, <2>2, <2>3, <3>1, <3>2
    <2>4. CASE m # n
      <3>1. IdsSuffice /\ packets[m].tag.flow >= 0 => packets[m].tag # packets[n].tag
        BY <1>1, <2>1, <2>4 DEF IInv, TagsApart
      <3>2. QED
        BY <1>1, <2>1, <2>2, <2>4, <3>1
    <2>5. QED
      BY <2>3, <2>4
  <1>4. QED
    BY <1>2, <1>3 DEF TrackedHere, Sender, ProcOf

(* Statistics of the packet's flow, kept at one of its ends.               *)
LEMMA EndedStats ==
    ASSUME IInv, JInv, NEW n \in DOMAIN packets, packets[n].fate = "flying",
           NEW fate \in Fates, NEW time \in Int, NEW proc \in Int,
           Ends(n, fate, time, proc),
           packets[n].tag.flow >= 0,
           NEW p \in {Sender(packets[n].tuple), Receiver(packets[n].tuple)},
           \A r \in Procs : DOMAIN stats'[r] = IF r = p THEN DOMAIN stats[r] \cup {packets[n].tag.flow}
                                             ELSE DOMAIN stats[r]
    PROVE  StatsOfFlows'
  <1>1. /\ n \in 1 .. Len(packets) /\ Len(packets') = Len(packets)
        /\ \A m \in 1 .. Len(packets) :
             packets'[m].tuple = packets[m].tuple /\ packets'[m].tag = packets[m].tag
    BY EndedPackets DEF IInv
  <1> SUFFICES ASSUME NEW r \in Procs, NEW f \in DOMAIN stats'[r]
               PROVE  \E m \in 1 .. Len(packets') :
                        LET k == packets'[m] IN
                        k.tag.flow = f /\ f >= 0 /\ (r = Sender(k.tuple) \/ r = Receiver(k.tuple))
    BY DEF StatsOfFlows, Sender, Receiver, ProcOf
  <1>2. CASE f \in DOMAIN stats[r]
    BY <1>1, <1>2 DEF JInv, StatsOfFlows
  <1>3. CASE f \notin DOMAIN stats[r]
    BY <1>1, <1>3
  <1>4. QED
    BY <1>2, <1>3

(* The flows of other packets, and all of them if nobody sees the end.     *)
LEMMA OtherFlowKeeps ==
    ASSUME IInv, NEW n \in DOMAIN packets, packets[n].fate = "flying",
           NEW fate \in Fates, NEW time \in Int, NEW proc \in Int,
           Ends(n, fate, time, proc),
           NEW t, NEW f, FlowCounts(t, f), FlowTimes(t, f),
           t # packets[n].tuple \/ fate \in {"flying", "lost"},
           StatsOf(Sender(t), f)' = StatsOf(Sender(t), f),
           StatsOf(Receiver(t), f)' = StatsOf(Receiver(t), f)
    PROVE  FlowCounts(t, f)' /\ FlowTimes(t, f)'
  <1>1. /\ PacketsOf(t, Fates)' = PacketsOf(t, Fates)
        /\ Delivered(t)' = Delivered(t) /\ Dropped(t)' = Dropped(t)
        /\ \A m \in 1 .. Len(packets) :
             /\ packets'[m].sent = packets[m].sent
             /\ m # n => packets'[m] = packets[m]
    BY EndedPackets DEF IInv
  <1>2. \A fates : PacketsOf(t, fates) \subseteq 1 .. Len(packets)
    BY PacketsOfFinite DEF IInv
  <1>3. n \notin Delivered(t)
    BY DEF PacketsOf, Delivered
  <1>4. \A m \in Delivered(t) : packets'[m] = packets[m]
    BY <1>1, <1>2, <1>3 DEF Delivered
  <1>5. \A m \in PacketsOf(t, Fates) : packets'[m].sent = packets[m].sent
    BY <1>1, <1>2
  <1>6. QED
    BY <1>1, <1>4, <1>5, FlowUnchanged

(* What a reception does to the counts and times of its flow.              *)
LEMMA ReceivedFlow ==
    ASSUME IInv, JInv, NEW n \in DOMAIN packets, packets[n].fate = "flying",
           NEW t, t = packets[n].tuple, NEW time \in 0 .. MaxTime, time = now[Receiver(t)],
           NEW proc \in Int, Ends(n, "delivered", time, proc), NEW sent \in 0 .. MaxTime, sent = packets[n].sent,
           NEW f, FlowCounts(t, f), FlowTimes(t, f),
           StatsOf(Receiver(t), f)' = AfterRx(StatsOf(Receiver(t), f), sent, time),
           Sender(t) # Receiver(t) => StatsOf(Sender(t), f)' = StatsOf(Sender(t), f)
    PROVE  FlowCounts(t, f)' /\ FlowTimes(t, f)'
  <1> DEFINE p == Sender(t)
             q == Receiver(t)
             all == PacketsOf(t, Fates)
             rec == Delivered(t)
             rec2 == rec \cup {n}
             sp == StatsOf(p, f)
             sq == StatsOf(q, f)
             sq2 == AfterRx(sq, sent, time)
             sp2 == IF p = q THEN sq2 ELSE sp
  <1>0. Sender(t)' = p /\ Receiver(t)' = q
    BY DEF Sender, Receiver, ProcOf
  <1>1. t \in FiveTuples /\ p \in Procs /\ q \in Procs /\ sp \in Stat /\ sq \in Stat
    <2>1. n \in 1 .. Len(packets)
      BY DEF IInv, PacketsTypeOK
    <2>2. t \in FiveTuples
      BY <2>1, PacketAt DEF IInv
    <2>3. QED
      BY <2>2, SenderType, StatsOfType DEF Receiver, JInv
  <1>2. /\ sq2.timeFirstTx = IF sq.timeFirstTx = 0 THEN sent ELSE sq.timeFirstTx
        /\ sq2.timeLastRx = time /\ sq2.txBytes = sq.txBytes
        /\ sq2.rxBytes = sq.rxBytes + Size /\ sq2.bytesDropped = sq.bytesDropped
    BY <1>1, AfterType
  <1>3. StatsOf(p, f)' = sp2 /\ StatsOf(q, f)' = sq2
    OBVIOUS
  <1>4. /\ PacketsOf(t, Fates)' = all /\ Delivered(t)' = rec2 /\ Dropped(t)' = Dropped(t)
        /\ n \notin rec /\ packets'[n].at = time /\ n \in 1 .. Len(packets)
        /\ \A m \in 1 .. Len(packets) : /\ packets'[m].sent = packets[m].sent
                                        /\ m # n => packets'[m] = packets[m]
    <2>1. "delivered" \in Fates /\ time \in Int
      BY DEF Fates
    <2>2. QED
      BY <2>1, EndedPackets DEF IInv
  <1>5. /\ all \subseteq 1 .. Len(packets) /\ rec \subseteq 1 .. Len(packets)
        /\ IsFiniteSet(rec) /\ Cardinality(rec) \in Nat
    BY PacketsOfFinite DEF IInv, Delivered
  <1>6. Cardinality(rec2) = Cardinality(rec) + 1
    BY <1>4, <1>5, FS_AddElement
  (* The clock of the receiver has passed the receptions so far.           *)
  <1>7. /\ \A m \in rec : packets[m].at <= time /\ packets[m].at \in Int /\ packets'[m] = packets[m]
        /\ n \in all
    <2>1. ASSUME NEW m \in rec PROVE packets[m].at <= time /\ packets[m].at \in Int
      <3>1. m \in 1 .. Len(packets) /\ packets[m].fate = "delivered" /\ packets[m].tuple = t
        BY <1>5 DEF Delivered, PacketsOf
      <3>2. packets[m].at \in Int
        BY <3>1, PacketAt DEF IInv, Packet
      <3>3. packets[m].at <= now[Receiver(packets[m].tuple)]
        BY <3>1 DEF JInv, Clocks
      <3>4. QED
        BY <3>1, <3>2, <3>3
    <2>2. n \in all
      BY <1>4 DEF PacketsOf, Fates
    <2>3. QED
      BY <1>4, <1>5, <2>1, <2>2
  <1>8. FlowCounts(t, f)'
    <2> DEFINE c == Cardinality(rec)
               drop == Size * Cardinality(Dropped(t))
    <2>1. /\ all # {} /\ sp.txBytes = Size * Cardinality(all)
          /\ sq.rxBytes = Size * c
          /\ p = q => sp.bytesDropped = drop
          /\ p # q => /\ sq.txBytes = 0 /\ sp.rxBytes = 0 /\ sp.timeLastRx = 0
                      /\ sp.bytesDropped + sq.bytesDropped = drop
      BY DEF FlowCounts
    <2>2. sq2.rxBytes = Size * Cardinality(rec2)
      <3>1. Size * (c + 1) = Size * c + Size
        BY <1>5, SizeTimes
      <3>2. QED
        BY <1>2, <1>6, <2>1, <3>1
    <2>3. sp2.txBytes = Size * Cardinality(all)
      BY <1>2, <2>1
    <2>4. p = q => sp2.bytesDropped = drop
      BY <1>2, <2>1
    <2>5. p # q => /\ sq2.txBytes = 0 /\ sp2.rxBytes = 0 /\ sp2.timeLastRx = 0
                   /\ sp2.bytesDropped + sq2.bytesDropped = drop
      BY <1>2, <2>1
    <2> HIDE DEF sp2, sq2, rec2, drop, all
    <2>6. QED
      BY <1>0, <1>3, <1>4, <2>1, <2>2, <2>3, <2>4, <2>5 DEF FlowCounts, drop
  <1>9. LastRx(t, StatsOf(q, f))'
    <2>1. \A m \in rec2 : packets'[m].at <= packets'[n].at
      BY <1>4, <1>7
    <2>2. n \in rec2 /\ sq2.timeLastRx = packets'[n].at
      BY <1>2, <1>4
    <2> HIDE DEF rec2, sq2
    <2>3. QED
      BY <1>3, <1>4, <2>1, <2>2 DEF LastRx
  <1>10. FirstTx(t, StatsOf(q, f))'
    <2> USE DEF FlowTimes, FirstTx
    <2>1. (\A m \in all : packets'[m].sent > 0) => \A m \in all : packets[m].sent > 0
      BY <1>4, <1>5
    <2>2. ASSUME \A m \in all : packets'[m].sent > 0, p = q
          PROVE  \E j \in all : /\ sq2.timeFirstTx = packets'[j].sent
                                /\ \A m \in all : j <= m
      <3>1. PICK j \in all : sq.timeFirstTx = packets[j].sent /\ \A m \in all : j <= m
        BY <2>1, <2>2
      <3>2. packets[j].sent > 0 /\ packets'[j].sent = packets[j].sent
        BY <1>4, <1>5, <2>1, <2>2, <3>1
      <3>3. QED
        BY <1>2, <3>1, <3>2
    <2>3. ASSUME \A m \in all : packets'[m].sent > 0, p # q
          PROVE  \E j \in rec2 : /\ sq2.timeFirstTx = packets'[j].sent
                                 /\ \A m \in rec2 : packets'[j].at <= packets'[m].at
      <3>1. CASE rec = {}
        <4>1. sq.timeFirstTx = 0
          BY <2>3, <3>1
        <4>2. sq2.timeFirstTx = packets'[n].sent /\ rec2 = {n}
          BY <1>2, <1>4, <3>1, <4>1
        <4>3. packets'[n].at <= packets'[n].at
          BY <1>4
        <4>4. QED
          BY <4>2, <4>3
      <3>2. CASE rec # {}
        <4>1. PICK j \in rec : /\ sq.timeFirstTx = packets[j].sent
                               /\ \A m \in rec : packets[j].at <= packets[m].at
          BY <2>1, <2>3, <3>2
        <4>2. j \in all
          BY <4>1 DEF Delivered, PacketsOf, Fates
        <4>3. packets[j].sent > 0 /\ packets'[j] = packets[j]
          BY <1>7, <2>1, <2>3, <4>1, <4>2
        <4>4. sq2.timeFirstTx = packets'[j].sent
          BY <1>2, <4>1, <4>3
        <4>5. \A m \in rec2 : packets'[j].at <= packets'[m].at
          BY <1>4, <1>7, <4>1, <4>3
        <4>6. QED
          BY <4>4, <4>5
      <3>3. QED
        BY <3>1, <3>2
    <2>4. rec2 # {}
      OBVIOUS
    <2> HIDE DEF sq2, rec2, all, p, q
    <2>5. QED
      BY <1>0, <1>3, <1>4, <2>2, <2>3, <2>4
  <1>11. QED
    BY <1>0, <1>8, <1>9, <1>10 DEF FlowTimes

(* What a drop at one of the two ends does.                                *)
LEMMA DroppedFlow ==
    ASSUME IInv, JInv, NEW n \in DOMAIN packets, packets[n].fate = "flying",
           NEW t, t = packets[n].tuple, NEW time \in 0 .. MaxTime,
           NEW proc \in Int, Ends(n, "dropped", time, proc),
           NEW f, FlowCounts(t, f), FlowTimes(t, f),
           NEW p \in {Sender(t), Receiver(t)},
           \A r \in Procs : StatsOf(r, f)' = IF r = p THEN AfterDrop(StatsOf(p, f)) ELSE StatsOf(r, f)
    PROVE  FlowCounts(t, f)' /\ FlowTimes(t, f)'
  <1> DEFINE snd == Sender(t)
             rcv == Receiver(t)
             all == PacketsOf(t, Fates)
             rec == Delivered(t)
             drop == Dropped(t)
             drop2 == drop \cup {n}
             ss == StatsOf(snd, f)
             sr == StatsOf(rcv, f)
             ss2 == IF snd = p THEN AfterDrop(ss) ELSE ss
             sr2 == IF rcv = p THEN AfterDrop(sr) ELSE sr
  <1>0. Sender(t)' = snd /\ Receiver(t)' = rcv
    BY DEF Sender, Receiver, ProcOf
  <1>1. t \in FiveTuples /\ snd \in Procs /\ rcv \in Procs /\ ss \in Stat /\ sr \in Stat
    <2>1. n \in 1 .. Len(packets)
      BY DEF IInv, PacketsTypeOK
    <2>2. t \in FiveTuples
      BY <2>1, PacketAt DEF IInv
    <2>3. QED
      BY <2>2, SenderType, StatsOfType DEF Receiver, JInv
  <1>2. StatsOf(snd, f)' = ss2 /\ StatsOf(rcv, f)' = sr2
    BY <1>1
  <1>3. ASSUME NEW s \in Stat
        PROVE  /\ AfterDrop(s).timeFirstTx = s.timeFirstTx /\ AfterDrop(s).timeLastRx = s.timeLastRx
               /\ AfterDrop(s).txBytes = s.txBytes /\ AfterDrop(s).rxBytes = s.rxBytes
               /\ AfterDrop(s).bytesDropped = s.bytesDropped + Size
               /\ s.bytesDropped \in Nat
    <2>1. s.bytesDropped \in Nat
      BY DEF Stat
    <2>2. QED
      BY <2>1, AfterType
  <1>4. /\ PacketsOf(t, Fates)' = all /\ Delivered(t)' = rec /\ Dropped(t)' = drop2
        /\ n \notin drop /\ n \notin rec
        /\ \A m \in 1 .. Len(packets) : /\ packets'[m].sent = packets[m].sent
                                        /\ m # n => packets'[m] = packets[m]
    <2>1. "dropped" \in Fates /\ time \in Int
      BY DEF Fates
    <2>2. QED
      BY <2>1, EndedPackets DEF IInv
  <1>5. /\ all \subseteq 1 .. Len(packets) /\ rec \subseteq 1 .. Len(packets)
        /\ IsFiniteSet(drop) /\ Cardinality(drop) \in Nat
    BY PacketsOfFinite DEF IInv, Delivered, Dropped
  <1>6. Cardinality(drop2) = Cardinality(drop) + 1
    BY <1>4, <1>5, FS_AddElement
  <1>7. FlowCounts(t, f)'
    <2> DEFINE c == Cardinality(drop)
    <2>1. /\ all # {} /\ ss.txBytes = Size * Cardinality(all)
          /\ sr.rxBytes = Size * Cardinality(rec)
          /\ snd = rcv => ss.bytesDropped = Size * c
          /\ snd # rcv => /\ sr.txBytes = 0 /\ ss.rxBytes = 0 /\ ss.timeLastRx = 0
                          /\ ss.bytesDropped + sr.bytesDropped = Size * c
      BY DEF FlowCounts
    <2>2. Size * (c + 1) = Size * c + Size /\ Size * c \in Nat /\ Size \in Nat
      BY <1>5, SizeTimes, MonitorAssumption
    <2>3. /\ ss2.txBytes = ss.txBytes /\ sr2.txBytes = sr.txBytes /\ ss2.rxBytes = ss.rxBytes
          /\ sr2.rxBytes = sr.rxBytes /\ ss2.timeLastRx = ss.timeLastRx
      BY <1>1, <1>3
    <2>4. snd = rcv => ss2.bytesDropped = Size * (c + 1)
      BY <1>1, <1>3, <2>1, <2>2
    <2>5. snd # rcv => ss2.bytesDropped + sr2.bytesDropped = Size * (c + 1)
      <3>1. SUFFICES ASSUME snd # rcv PROVE ss2.bytesDropped + sr2.bytesDropped = Size * (c + 1)
        OBVIOUS
      <3>2. CASE p = snd
        <4>1. ss2.bytesDropped = ss.bytesDropped + Size /\ sr2.bytesDropped = sr.bytesDropped
          BY <1>1, <1>3, <3>1, <3>2
        <4>2. ss.bytesDropped \in Nat /\ sr.bytesDropped \in Nat
          BY <1>1, <1>3
        <4>3. QED
          BY <2>1, <2>2, <3>1, <4>1, <4>2
      <3>3. CASE p = rcv
        <4>1. ss2.bytesDropped = ss.bytesDropped /\ sr2.bytesDropped = sr.bytesDropped + Size
          BY <1>1, <1>3, <3>1, <3>3
        <4>2. ss.bytesDropped \in Nat /\ sr.bytesDropped \in Nat
          BY <1>1, <1>3
        <4>3. QED
          BY <2>1, <2>2, <3>1, <4>1, <4>2
      <3>4. QED
        BY <3>2, <3>3
    <2> HIDE DEF ss2, sr2, all, rec, drop2, c
    <2>6. Size * Cardinality(drop2) = Size * (c + 1)
      BY <1>6 DEF c
    <2>7. QED
      BY <1>0, <1>2, <1>4, <2>1, <2>3, <2>4, <2>5, <2>6 DEF FlowCounts
  <1>8. /\ sr2.timeFirstTx = sr.timeFirstTx /\ sr2.timeLastRx = sr.timeLastRx
    BY <1>1, <1>3
  <1>9. \A m \in rec : packets'[m] = packets[m]
    BY <1>4, <1>5
  <1>10. \A m \in all : packets'[m].sent = packets[m].sent
    BY <1>4, <1>5
  <1> HIDE DEF sr2, all, rec
  <1>11. LastRx(t, StatsOf(rcv, f))'
    <2>1. /\ rec = {} => sr.timeLastRx = 0
          /\ rec # {} => \E j \in rec : /\ sr.timeLastRx = packets[j].at
                                        /\ \A m \in rec : packets[m].at <= packets[j].at
      BY DEF FlowTimes, LastRx, rec
    <2>2. /\ rec = {} => sr2.timeLastRx = 0
          /\ rec # {} => \E j \in rec : /\ sr2.timeLastRx = packets'[j].at
                                        /\ \A m \in rec : packets'[m].at <= packets'[j].at
      BY <1>8, <1>9, <2>1
    <2>3. QED
      BY <1>2, <1>4, <2>2 DEF LastRx
  <1>12. FirstTx(t, StatsOf(rcv, f))'
    <2>1. /\ snd # rcv /\ rec = {} => sr.timeFirstTx = 0
          /\ (\A j \in all : packets[j].sent > 0) =>
                /\ snd = rcv => \E j \in all : /\ sr.timeFirstTx = packets[j].sent
                                               /\ \A m \in all : j <= m
                /\ snd # rcv /\ rec # {} => \E j \in rec :
                    /\ sr.timeFirstTx = packets[j].sent
                    /\ \A m \in rec : packets[j].at <= packets[m].at
      BY DEF FlowTimes, FirstTx, all, rec
    <2>2. /\ snd # rcv /\ rec = {} => sr2.timeFirstTx = 0
          /\ (\A j \in all : packets'[j].sent > 0) =>
                /\ snd = rcv => \E j \in all : /\ sr2.timeFirstTx = packets'[j].sent
                                               /\ \A m \in all : j <= m
                /\ snd # rcv /\ rec # {} => \E j \in rec :
                    /\ sr2.timeFirstTx = packets'[j].sent
                    /\ \A m \in rec : packets'[j].at <= packets'[m].at
      BY <1>8, <1>9, <1>10, <2>1
    <2>3. QED
      BY <1>0, <1>2, <1>4, <2>2 DEF FirstTx
  <1>13. QED
    BY <1>0, <1>7, <1>11, <1>12 DEF FlowTimes

(* The tag of a packet says the number of its tuple.                       *)
LEMMA TagNumber ==
    ASSUME IInv, JInv, IdsSuffice, NEW n \in 1 .. Len(packets), NEW t, t = packets[n].tuple,
           packets[n].tag.flow >= 0
    PROVE  /\ t \in FiveTuples /\ t \in Known(Sender(t)) /\ Sender(t) \in Procs
           /\ packets[n].tag.flow = flowMap[Sender(t)][t]
  BY PacketAt, SenderType DEF IInv, TagsCounted

(* Flows in all states: those that the packet does not belong to.          *)
LEMMA FlowsAfterEnd ==
    ASSUME IInv, JInv, NEW n \in DOMAIN packets, packets[n].fate = "flying",
           NEW fate \in Fates, NEW time \in Int, NEW proc \in Int,
           Ends(n, fate, time, proc),
           UNCHANGED flowMap, IdsSuffice' = IdsSuffice, NEW g, g = packets[n].tag.flow,
           NEW t, t = packets[n].tuple,
           \A r \in Procs : \A f : f # g => StatsOf(r, f)' = StatsOf(r, f),
           \/ UNCHANGED stats /\ (g < 0 \/ fate \in {"flying", "lost"})
           \/ IdsSuffice /\ FlowCounts(t, g) /\ FlowTimes(t, g)
                => FlowCounts(t, g)' /\ FlowTimes(t, g)'
    PROVE  FlowsOK'
  <1> SUFFICES ASSUME IdsSuffice, NEW q \in Procs, NEW u \in Known(q), NEW f \in {flowMap[q][u]}
               PROVE  FlowCounts(u, f)' /\ FlowTimes(u, f)'
    BY DEF FlowsOK, Known
  <1>1. FlowCounts(u, f) /\ FlowTimes(u, f)
    BY DEF JInv, FlowsOK
  <1>2. u \in FiveTuples /\ Sender(u) = q /\ Receiver(u) \in Procs
    BY SenderType DEF IInv, MapsTypeOK, Receiver
  <1>3. n \in 1 .. Len(packets) /\ g \in Int
    <2>1. n \in 1 .. Len(packets)
      BY DEF IInv, PacketsTypeOK
    <2>2. QED
      BY <2>1, PacketAt DEF IInv
  <1>4. CASE u = t
    <2>1. g >= 0
      BY <1>2, <1>3, <1>4 DEF JInv, TaggedIsKnown
    <2>2. f = g
      BY <1>2, <1>3, <1>4, <2>1, TagNumber
    <2>3. CASE UNCHANGED stats /\ fate \in {"flying", "lost"}
      <3>1. \A r \in Procs : StatsOf(r, f)' = StatsOf(r, f)
        BY <2>3 DEF StatsOf
      <3>2. QED
        BY <1>1, <1>2, <2>3, <3>1, OtherFlowKeeps
    <2>4. QED
      BY <1>1, <1>3, <1>4, <2>1, <2>2, <2>3
  <1>5. CASE u # t
    <2>1. f # g
      <3>1. SUFFICES ASSUME f = g PROVE FALSE
        OBVIOUS
      <3>2. f \in Nat
        BY DEF IInv, MapsTypeOK
      <3>3. t \in FiveTuples /\ t \in Known(Sender(t)) /\ g = flowMap[Sender(t)][t]
        BY <1>3, <3>1, <3>2, TagNumber
      <3>4. QED
        BY <1>2, <1>5, <3>1, <3>3, NumbersDiffer
    <2>2. \A r \in Procs : StatsOf(r, f)' = StatsOf(r, f)
      BY <2>1
    <2>3. QED
      BY <1>1, <1>2, <1>5, <2>2, OtherFlowKeeps
  <1>6. QED
    BY <1>4, <1>5

LEMMA DeliverKeepsJ ==
    ASSUME IInv, JInv, NEW n \in DOMAIN packets, Deliver(n)
    PROVE  JInv'
  <1>1. PICK t, tag, q, f :
            t = packets[n].tuple /\ tag = packets[n].tag /\ q = Receiver(t) /\ f = tag.flow
    OBVIOUS
  <1>2. /\ packets[n].fate = "flying" /\ now[q] >= packets[n].sent
        /\ Ends(n, "delivered", now[q], q)
        /\ UNCHANGED <<until, now, flowMap, lastNewFlowId, pktId>>
        /\ \/ (Filtered(t) \/ tag = NoTag) /\ UNCHANGED <<stats, tracked>>
           \/ /\ ~Filtered(t) /\ tag # NoTag
              /\ Record(q, f, AfterRx(StatsOf(q, f), packets[n].sent, now[q]))
              /\ tracked' = [tracked EXCEPT ![q] = @ \ {tag}]
    BY <1>1 DEF Deliver, Receiver
  <1>3. /\ n \in 1 .. Len(packets) /\ t \in FiveTuples /\ f \in Int /\ packets[n].sent \in Nat
        /\ Sender(t) \in Procs /\ q \in Procs
    <2>1. n \in 1 .. Len(packets)
      BY DEF IInv, PacketsTypeOK
    <2>2. /\ t \in FiveTuples /\ f \in Int /\ packets[n].sent \in Nat
      BY <1>1, <2>1, PacketAt DEF IInv
    <2>3. QED
      BY <1>1, <2>1, <2>2, SenderType DEF Receiver
  <1>4. PICK time \in 0 .. MaxTime : time = now[q]
    BY <1>3 DEF JInv, Clocks
  <1>5. PICK sent \in 0 .. MaxTime : sent = packets[n].sent
    BY <1>2, <1>3, <1>4, MonitorAssumption
  <1>6. /\ "delivered" \in Fates /\ time \in Int /\ q \in Int /\ Ends(n, "delivered", time, q) /\ time <= MaxTime
        /\ packets[n].sent <= time
    BY <1>2, <1>3, <1>4, <1>5, MonitorAssumption, ProcsAreInts DEF Fates
  <1>7. Clocks' /\ TaggedIsKnown' /\ IdsSuffice' = IdsSuffice
    BY <1>1, <1>2, <1>4, <1>6, EndedKeeps
  <1>8. CASE (Filtered(t) \/ tag = NoTag) /\ UNCHANGED <<stats, tracked>>
    <2>1. f < 0
      <3>1. CASE Filtered(t)
        BY <1>1, <1>3, <3>1 DEF JInv, TaggedIsKnown
      <3>2. CASE tag = NoTag
        BY <1>1, <3>2 DEF NoTag
      <3>3. QED
        BY <1>8, <3>1, <3>2
    <2>2. StatsTypeOK'
      BY <1>8 DEF JInv, StatsTypeOK, Stat
    <2>3. \A r \in Procs : tag \notin tracked[r]
      BY <1>1, <1>3, <2>1 DEF JInv, TrackedHere
    <2>4. TrackedHere'
      <3>1. DOMAIN tracked' = Procs /\ \A r \in Procs : tracked'[r] = tracked[r]
        BY <1>8 DEF JInv, TrackedHere
      <3>2. QED
        BY <1>1, <1>2, <1>6, <1>7, <2>3, <3>1, EndedTracked
    <2>5. StatsOfFlows'
      <3>1. /\ Len(packets') = Len(packets)
            /\ \A m \in 1 .. Len(packets) :
                 packets'[m].tuple = packets[m].tuple /\ packets'[m].tag = packets[m].tag
        BY <1>2, <1>6, EndedPackets DEF IInv
      <3>2. QED
        BY <1>8, <3>1 DEF JInv, StatsOfFlows, Sender, Receiver, ProcOf
    <2>6. FlowsOK'
      <3>1. \A r \in Procs : \A g : StatsOf(r, g)' = StatsOf(r, g)
        BY <1>8 DEF StatsOf
      <3>2. QED
        BY <1>1, <1>2, <1>6, <1>7, <1>8, <2>1, <3>1, FlowsAfterEnd
    <2>7. QED
      BY <1>7, <2>2, <2>4, <2>5, <2>6 DEF JInv
  <1>9. CASE /\ ~Filtered(t) /\ tag # NoTag
             /\ Record(q, f, AfterRx(StatsOf(q, f), packets[n].sent, now[q]))
             /\ tracked' = [tracked EXCEPT ![q] = @ \ {tag}]
    <2>1. f >= 0
      BY <1>1, <1>3, <1>9 DEF IInv, UntaggedIsLate
    <2>2. PICK s \in Stat : s = AfterRx(StatsOf(q, f), sent, time)
      BY <1>3, AfterType, StatsOfType DEF JInv
    <2>3. /\ StatsTypeOK'
          /\ \A r \in Procs : DOMAIN stats'[r] = IF r = q THEN DOMAIN stats[r] \cup {f}
                                               ELSE DOMAIN stats[r]
          /\ \A r \in Procs : \A g : StatsOf(r, g)' = IF r = q /\ g = f THEN s ELSE StatsOf(r, g)
      <3>1. StatsTypeOK /\ Record(q, f, s) /\ s \in Stat /\ q \in Procs
        BY <1>3, <1>4, <1>5, <1>9, <2>2 DEF JInv
      <3>2. QED
        BY <3>1, RecordEffect
    <2>4. TrackedHere'
      <3>1. /\ DOMAIN tracked' = Procs
            /\ \A r \in Procs : tracked'[r] = IF r = q THEN tracked[r] \ {tag} ELSE tracked[r]
        BY <1>3, <1>9 DEF JInv, TrackedHere
      <3>2. QED
        BY <1>1, <1>2, <1>6, <1>7, <3>1, EndedTracked
    <2>5. StatsOfFlows'
      BY <1>1, <1>2, <1>6, <2>1, <2>3, EndedStats
    <2>6. FlowsOK'
      <3>1. ASSUME FlowCounts(t, f), FlowTimes(t, f)
            PROVE  FlowCounts(t, f)' /\ FlowTimes(t, f)'
        <4>1. StatsOf(Receiver(t), f)' = AfterRx(StatsOf(Receiver(t), f), sent, time)
          BY <1>1, <1>3, <2>2, <2>3
        <4>2. Sender(t) # Receiver(t) => StatsOf(Sender(t), f)' = StatsOf(Sender(t), f)
          BY <1>1, <1>3, <2>3
        <4>3. QED
          BY <1>1, <1>2, <1>4, <1>5, <1>6, <3>1, <4>1, <4>2, ReceivedFlow
      <3>2. \A r \in Procs : \A g : g # f => StatsOf(r, g)' = StatsOf(r, g)
        BY <2>3
      <3>3. QED
        BY <1>1, <1>2, <1>6, <1>7, <3>1, <3>2, FlowsAfterEnd
    <2>7. QED
      BY <1>7, <2>3, <2>4, <2>5, <2>6 DEF JInv
  <1>10. QED
    BY <1>2, <1>8, <1>9

LEMMA DropKeepsJ ==
    ASSUME IInv, JInv, NEW n \in DOMAIN packets, NEW host \in Hosts, Drop(n, host)
    PROVE  JInv'
  <1>1. PICK t, tag, p, f :
            t = packets[n].tuple /\ tag = packets[n].tag /\ p = ProcOf(host) /\ f = tag.flow
    OBVIOUS
  <1>2. /\ packets[n].fate = "flying" /\ now[p] >= packets[n].sent
        /\ Ends(n, "dropped", now[p], p) /\ p \in {Sender(t), Receiver(t)}
        /\ UNCHANGED <<until, now, flowMap, lastNewFlowId, pktId>>
        /\ \/ tag = NoTag /\ UNCHANGED <<stats, tracked>>
           \/ /\ tag # NoTag
              /\ Record(p, f, AfterDrop(StatsOf(p, f)))
              /\ tracked' = [tracked EXCEPT ![p] = @ \ {tag}]
    BY <1>1 DEF Drop, Receiver, Sender, Forget, TrackedHere, JInv
  <1>3. /\ n \in 1 .. Len(packets) /\ t \in FiveTuples /\ f \in Int
        /\ Sender(t) \in Procs /\ p \in Procs
    <2>1. n \in 1 .. Len(packets)
      BY DEF IInv, PacketsTypeOK
    <2>2. t \in FiveTuples /\ f \in Int
      BY <1>1, <2>1, PacketAt DEF IInv
    <2>3. QED
      BY <1>2, <2>1, <2>2, SenderType DEF Receiver
  <1>4. PICK time \in 0 .. MaxTime : time = now[p]
    BY <1>3 DEF JInv, Clocks
  <1>5. /\ "dropped" \in Fates /\ time \in Int /\ p \in Int /\ Ends(n, "dropped", time, p) /\ time <= MaxTime
    BY <1>2, <1>3, <1>4, MonitorAssumption, ProcsAreInts DEF Fates
  <1>6. Clocks' /\ TaggedIsKnown' /\ IdsSuffice' = IdsSuffice
    BY <1>2, <1>5, EndedKeeps
  <1>7. CASE tag = NoTag /\ UNCHANGED <<stats, tracked>>
    <2>1. f < 0
      BY <1>1, <1>7 DEF NoTag
    <2>2. StatsTypeOK'
      BY <1>7 DEF JInv, StatsTypeOK, Stat
    <2>3. \A r \in Procs : tag \notin tracked[r]
      BY <1>1, <1>3, <2>1 DEF JInv, TrackedHere
    <2>4. TrackedHere'
      <3>1. DOMAIN tracked' = Procs /\ \A r \in Procs : tracked'[r] = tracked[r]
        BY <1>7 DEF JInv, TrackedHere
      <3>2. QED
        BY <1>1, <1>2, <1>5, <1>6, <2>3, <3>1, EndedTracked
    <2>5. StatsOfFlows'
      <3>1. /\ Len(packets') = Len(packets)
            /\ \A m \in 1 .. Len(packets) :
                 packets'[m].tuple = packets[m].tuple /\ packets'[m].tag = packets[m].tag
        BY <1>2, <1>5, EndedPackets DEF IInv
      <3>2. QED
        BY <1>7, <3>1 DEF JInv, StatsOfFlows, Sender, Receiver, ProcOf
    <2>6. FlowsOK'
      <3>1. \A r \in Procs : \A g : StatsOf(r, g)' = StatsOf(r, g)
        BY <1>7 DEF StatsOf
      <3>2. QED
        BY <1>1, <1>2, <1>5, <1>6, <1>7, <2>1, <3>1, FlowsAfterEnd
    <2>7. QED
      BY <1>6, <2>2, <2>4, <2>5, <2>6 DEF JInv
  <1>8. CASE /\ tag # NoTag
             /\ Record(p, f, AfterDrop(StatsOf(p, f)))
             /\ tracked' = [tracked EXCEPT ![p] = @ \ {tag}]
    <2>1. f >= 0
      BY <1>1, <1>3, <1>8 DEF IInv, UntaggedIsLate
    <2>2. PICK s \in Stat : s = AfterDrop(StatsOf(p, f))
      BY <1>3, <1>4, AfterType, StatsOfType DEF JInv
    <2>3. /\ StatsTypeOK'
          /\ \A r \in Procs : DOMAIN stats'[r] = IF r = p THEN DOMAIN stats[r] \cup {f}
                                               ELSE DOMAIN stats[r]
          /\ \A r \in Procs : \A g : StatsOf(r, g)' = IF r = p /\ g = f THEN s ELSE StatsOf(r, g)
      <3>1. StatsTypeOK /\ Record(p, f, s) /\ s \in Stat /\ p \in Procs
        BY <1>3, <1>8, <2>2 DEF JInv
      <3>2. QED
        BY <3>1, RecordEffect
    <2>4. TrackedHere'
      <3>1. /\ DOMAIN tracked' = Procs
            /\ \A r \in Procs : tracked'[r] = IF r = p THEN tracked[r] \ {tag} ELSE tracked[r]
        BY <1>3, <1>8 DEF JInv, TrackedHere
      <3>2. QED
        BY <1>1, <1>2, <1>5, <1>6, <3>1, EndedTracked
    <2>5. StatsOfFlows'
      BY <1>1, <1>2, <1>5, <2>1, <2>3, EndedStats
    <2>6. FlowsOK'
      <3>1. ASSUME FlowCounts(t, f), FlowTimes(t, f)
            PROVE  FlowCounts(t, f)' /\ FlowTimes(t, f)'
        <4>1. \A r \in Procs : StatsOf(r, f)' = IF r = p THEN AfterDrop(StatsOf(p, f)) ELSE StatsOf(r, f)
          BY <2>2, <2>3
        <4>2. QED
          BY <1>1, <1>2, <1>5, <3>1, <4>1, DroppedFlow
      <3>2. \A r \in Procs : \A g : g # f => StatsOf(r, g)' = StatsOf(r, g)
        BY <2>3
      <3>3. QED
        BY <1>1, <1>2, <1>5, <1>6, <3>1, <3>2, FlowsAfterEnd
    <2>7. QED
      BY <1>6, <2>3, <2>4, <2>5, <2>6 DEF JInv
  <1>9. QED
    BY <1>2, <1>7, <1>8

LEMMA LoseKeepsJ ==
    ASSUME IInv, JInv, NEW n \in DOMAIN packets, Lose(n)
    PROVE  JInv'
  <1>1. PICK time : time = packets[n].sent
    OBVIOUS
  <1>2. /\ packets[n].fate = "flying" /\ Ends(n, "lost", time, -1)
        /\ UNCHANGED <<until, now, flowMap, lastNewFlowId, pktId, stats, tracked>>
    BY <1>1 DEF Lose
  <1>3. n \in 1 .. Len(packets) /\ packets[n].tuple \in FiveTuples /\ time \in Int /\ time <= MaxTime
    <2>1. n \in 1 .. Len(packets)
      BY DEF IInv, PacketsTypeOK
    <2>2. packets[n].tuple \in FiveTuples /\ time \in Int
      BY <1>1, <2>1, PacketAt DEF IInv
    <2>3. now[Sender(packets[n].tuple)] \in 0 .. MaxTime /\ time <= now[Sender(packets[n].tuple)]
      BY <1>1, <2>1, <2>2, SenderType DEF JInv, Clocks
    <2>4. QED
      BY <2>1, <2>2, <2>3, MonitorAssumption
  <1>4. "lost" \in Fates /\ -1 \in Int
    BY DEF Fates
  <1>5. Clocks' /\ TaggedIsKnown' /\ IdsSuffice' = IdsSuffice
    BY <1>2, <1>3, <1>4, EndedKeeps
  <1>6. StatsTypeOK'
    BY <1>2 DEF JInv, StatsTypeOK, Stat
  <1>7. TrackedHere'
    <2>1. DOMAIN tracked' = Procs /\ \A r \in Procs : tracked'[r] = tracked[r]
      BY <1>2 DEF JInv, TrackedHere
    <2>2. QED
      BY <1>2, <1>3, <1>4, <1>5, <2>1, ProcsAreInts, EndedTracked
  <1>8. StatsOfFlows'
    <2>1. /\ Len(packets') = Len(packets)
          /\ \A m \in 1 .. Len(packets) :
               packets'[m].tuple = packets[m].tuple /\ packets'[m].tag = packets[m].tag
      BY <1>2, <1>3, <1>4, EndedPackets DEF IInv
    <2>2. QED
      BY <1>2, <2>1 DEF JInv, StatsOfFlows, Sender, Receiver, ProcOf
  <1>9. FlowsOK'
    <2>1. PICK g, t : g = packets[n].tag.flow /\ t = packets[n].tuple
      OBVIOUS
    <2>2. \A r \in Procs : \A f : StatsOf(r, f)' = StatsOf(r, f)
      BY <1>2 DEF StatsOf
    <2>3. QED
      BY <1>2, <1>3, <1>4, <1>5, <2>1, <2>2, FlowsAfterEnd
  <1>10. QED
    BY <1>5, <1>6, <1>7, <1>8, <1>9 DEF JInv

---------------------------------------------------------------------------
(* The first packet of a tuple.                                            *)

LEMMA SmallestOf ==
    ASSUME NEW S, S \subseteq Nat, S # {}
    PROVE  Min(S) \in S /\ \A n \in S : Min(S) <= n
  <1> DEFINE R == OpToRel(<, Nat)
  <1>1. IsWellFoundedOn(R, Nat)
    BY NatLessThanWellFounded
  <1>2. \A m, n \in Nat : m < n => <<m, n>> \in R
    BY DEF OpToRel
  <1> HIDE DEF R
  <1>3. PICK n \in S : \A m \in S : ~ (<<m, n>> \in R)
    BY <1>1, WFMin
  <1>4. ASSUME NEW m \in S PROVE n <= m
    <2>1. m \in Nat /\ n \in Nat
      OBVIOUS
    <2>2. ~(m < n)
      BY <1>2, <1>3, <2>1
    <2>3. QED
      BY <2>1, <2>2
  <1>5. \E x \in S : \A y \in S : x <= y
    BY <1>4
  <1>6. QED
    BY <1>5, Zenon DEF Min

LEMMA MinIs ==
    ASSUME NEW S, S \subseteq Int, NEW n \in S, \A m \in S : n <= m
    PROVE  Min(S) = n
  <1>1. Min(S) \in S /\ \A y \in S : Min(S) <= y
    BY Zenon DEF Min
  <1>2. n \in Int /\ Min(S) \in Int /\ n <= Min(S) /\ Min(S) <= n
    BY <1>1
  <1>3. QED
    BY <1>2

LEMMA MaxIs ==
    ASSUME NEW S, S \subseteq Int, NEW n \in S, \A m \in S : m <= n
    PROVE  Max(S) = n
  <1>1. n >= n /\ \A m \in S : n >= m
    OBVIOUS
  <1>2. Max(S) \in S /\ \A y \in S : Max(S) >= y
    BY <1>1, Zenon DEF Max
  <1>3. n \in Int /\ Max(S) \in Int /\ Max(S) <= n /\ Max(S) >= n
    BY <1>2
  <1>4. QED
    BY <1>3


---------------------------------------------------------------------------
(* The invariant holds in all states.                                      *)

LEMMA InitJ == Init => JInv
  <1> SUFFICES ASSUME Init PROVE JInv
    OBVIOUS
  <1>1. packets = <<>> /\ Len(packets) = 0 /\ 1 .. Len(packets) = {}
    BY DEF Init
  <1>2. /\ DOMAIN stats = Procs /\ DOMAIN tracked = Procs
        /\ \A p \in Procs : DOMAIN stats[p] = {} /\ tracked[p] = {} /\ Known(p) = {}
    BY DEF Init, Known
  <1>3. Clocks
    BY <1>1, MonitorAssumption DEF Init, Clocks
  <1>4. StatsTypeOK
    BY <1>2 DEF Init, StatsTypeOK
  <1>5. TrackedHere /\ TaggedIsKnown /\ StatsOfFlows /\ FlowsOK
    BY <1>1, <1>2 DEF TrackedHere, TaggedIsKnown, StatsOfFlows, FlowsOK
  <1>6. QED
    BY <1>3, <1>4, <1>5 DEF JInv

LEMMA NextKeepsJ == IInv /\ JInv /\ [Next]_vars => JInv'
  <1> SUFFICES ASSUME IInv, JInv, [Next]_vars PROVE JInv'
    OBVIOUS
  <1>1. CASE \E p \in Procs : Advance(p)
    BY <1>1, AdvanceKeeps
  <1>2. CASE \E t \in FiveTuples : Send(t)
    <2>1. PICK t \in FiveTuples : Send(t)
      BY <1>2
    <2>2. /\ SendTagged(Sender(t), t) \/ SendUntagged(Sender(t), t)
          /\ UNCHANGED <<until, now, aborted>>
      BY <2>1 DEF Send
    <2>3. QED
      BY <2>2, SendTaggedKeepsJ, SendUntaggedKeepsJ
  <1>3. CASE \E n \in DOMAIN packets : Deliver(n) \/ Lose(n)
    BY <1>3, DeliverKeepsJ, LoseKeepsJ
  <1>4. CASE \E n \in DOMAIN packets, host \in Hosts : Drop(n, host)
    BY <1>4, DropKeepsJ
  <1>5. CASE UNCHANGED vars
    <2>1. UNCHANGED <<until, now, flowMap, lastNewFlowId, pktId, stats, tracked, packets, aborted>>
      BY <1>5 DEF vars
    <2>2. /\ Clocks' /\ StatsTypeOK' /\ TrackedHere' /\ TaggedIsKnown' /\ StatsOfFlows'
      BY <2>1 DEF JInv, Clocks, StatsTypeOK, TrackedHere, TaggedIsKnown, StatsOfFlows, Known, Stat,
                  Sender, Receiver, ProcOf, Filtered, IdsSuffice
    <2>3. FlowsOK'
      BY <2>1, FlowsUnchanged
    <2>4. QED
      BY <2>2, <2>3 DEF JInv
  <1>6. QED
    BY <1>1, <1>2, <1>3, <1>4, <1>5 DEF Next

LEMMA AlwaysJInv == Spec => [](IInv /\ JInv)
  BY InitInv, NextKeeps, InitJ, NextKeepsJ, PTL DEF Spec

---------------------------------------------------------------------------
(* Theorems about what the processes count and write.                      *)

(* The maps, statistics and packets keep their types; every time noted in  *)
(* the statistics is one that a clock of the run has shown.                *)
THEOREM TypeOKCorrect == Spec => []TypeOK
  <1>1. IInv /\ JInv => TypeOK
    <2> SUFFICES ASSUME IInv, JInv PROVE TypeOK
      OBVIOUS
    <2>1. ASSUME NEW p \in Procs
          PROVE  /\ DOMAIN flowMap[p] \subseteq FiveTuples
                 /\ \A t \in DOMAIN flowMap[p] : ProcOf(t.src) = p /\ flowMap[p][t] \in DOMAIN pktId[p]
      BY DEF IInv, MapsTypeOK, Known, Sender
    <2>2. ASSUME NEW p \in Procs
          PROVE  stats[p] \in [DOMAIN stats[p] -> Stat]
      BY DEF JInv, StatsTypeOK
    <2>3. ASSUME NEW n \in DOMAIN packets
          PROVE  packets[n].fate \in Fates /\ packets[n].at <= MaxTime /\ packets[n].tuple \in FiveTuples
      <3>1. n \in 1 .. Len(packets) /\ PacketsTypeOK
        BY DEF IInv, PacketsTypeOK
      <3>2. packets[n] \in Packet
        BY <3>1, PacketAt
      <3>3. QED
        BY <3>1, <3>2 DEF Packet, JInv, Clocks
    <2>4. QED
      BY <2>1, <2>2, <2>3 DEF TypeOK, Stat
  <1>2. QED
    BY <1>1, AlwaysJInv, PTL

(* No process but those of the two ends has statistics of a flow.          *)
LEMMA StatsAtEnds ==
    ASSUME IInv, JInv, IdsSuffice, NEW r \in Procs, NEW f \in DOMAIN stats[r]
    PROVE  \E t \in FiveTuples :
                /\ t \in Known(Sender(t)) /\ Sender(t) \in Procs
                /\ f = flowMap[Sender(t)][t]
                /\ r = Sender(t) \/ r = Receiver(t)
  <1>1. PICK n \in 1 .. Len(packets) :
            /\ packets[n].tag.flow = f /\ f >= 0
            /\ r = Sender(packets[n].tuple) \/ r = Receiver(packets[n].tuple)
    BY DEF JInv, StatsOfFlows
  <1>2. PICK t : t = packets[n].tuple
    OBVIOUS
  <1>3. /\ t \in FiveTuples /\ t \in Known(Sender(t)) /\ Sender(t) \in Procs
        /\ f = flowMap[Sender(t)][t]
    BY <1>1, <1>2, TagNumber
  <1>4. QED
    BY <1>1, <1>2, <1>3

(* Of two processes only the receiver's writes a flow: that of the sender  *)
(* never notes a last reception.                                           *)
THEOREM WrittenOnceCorrect == Spec => []WrittenOnce
  <1>1. IInv /\ JInv => WrittenOnce
    <2> SUFFICES ASSUME IInv, JInv, IdsSuffice, NEW p \in Procs, NEW q \in Procs, p # q,
                        NEW f \in Written(p), f \in Written(q)
                 PROVE  FALSE
      BY DEF WrittenOnce
    <2>1. /\ f \in DOMAIN stats[p] /\ stats[p][f].timeLastRx # 0
          /\ f \in DOMAIN stats[q] /\ stats[q][f].timeLastRx # 0
      BY DEF Written
    <2>2. PICK t \in FiveTuples :
            /\ t \in Known(Sender(t)) /\ Sender(t) \in Procs
            /\ f = flowMap[Sender(t)][t]
            /\ p = Sender(t) \/ p = Receiver(t)
      BY <2>1, StatsAtEnds
    <2>3. PICK u \in FiveTuples :
            /\ u \in Known(Sender(u)) /\ Sender(u) \in Procs
            /\ f = flowMap[Sender(u)][u]
            /\ q = Sender(u) \/ q = Receiver(u)
      BY <2>1, StatsAtEnds
    <2>4. u = t
      BY <2>2, <2>3, NumbersDiffer
    <2>5. Sender(t) # Receiver(t) /\ Sender(t) \in {p, q}
      BY <2>2, <2>3, <2>4
    <2>6. FlowCounts(t, f)
      BY <2>2 DEF JInv, FlowsOK
    <2>7. StatsOf(Sender(t), f).timeLastRx = 0
      BY <2>5, <2>6 DEF FlowCounts
    <2>8. StatsOf(p, f).timeLastRx # 0 /\ StatsOf(q, f).timeLastRx # 0
      BY <2>1 DEF StatsOf
    <2>9. QED
      BY <2>5, <2>7, <2>8
  <1>2. QED
    BY <1>1, AlwaysJInv, PTL

(* What a process still tracks is its own packets of which it has not seen *)
(* the end: all of them, and nothing else.                                 *)
THEOREM TrackedIsUnknownHereCorrect == Spec => []TrackedIsUnknownHere
  <1>1. IInv /\ JInv => TrackedIsUnknownHere
    <2> SUFFICES ASSUME IInv, JInv PROVE TrackedIsUnknownHere
      OBVIOUS
    <2>1. DOMAIN packets = 1 .. Len(packets)
      BY DEF IInv, PacketsTypeOK
    <2> SUFFICES ASSUME IdsSuffice, NEW p \in Procs
                 PROVE  tracked[p] = {packets[n].tag : n \in {m \in DOMAIN packets :
                                        /\ packets[m].tag # NoTag
                                        /\ Sender(packets[m].tuple) = p /\ packets[m].by # p}}
      BY DEF TrackedIsUnknownHere, Sender
    <2>2. \A n \in DOMAIN packets : packets[n].tag # NoTag <=> packets[n].tag.flow >= 0
      <3> SUFFICES ASSUME NEW n \in DOMAIN packets
                   PROVE  packets[n].tag # NoTag <=> packets[n].tag.flow >= 0
        OBVIOUS
      <3>1. packets[n].tag.flow \in Int /\ NoTag.flow = -1
        BY <2>1, PacketAt DEF IInv, NoTag
      <3>2. QED
        BY <2>1, <3>1 DEF IInv, UntaggedIsLate
    <2>3. ASSUME NEW tag \in tracked[p]
          PROVE  \E n \in DOMAIN packets : /\ packets[n].tag = tag /\ packets[n].tag # NoTag
                                           /\ Sender(packets[n].tuple) = p /\ packets[n].by # p
      BY <2>1, <2>2 DEF JInv, TrackedHere
    <2>4. ASSUME NEW n \in DOMAIN packets, packets[n].tag # NoTag,
                 Sender(packets[n].tuple) = p, packets[n].by # p
          PROVE  packets[n].tag \in tracked[p]
      BY <2>1, <2>2, <2>4 DEF JInv, TrackedHere
    <2>5. QED
      BY <2>3, <2>4
  <1>2. QED
    BY <1>1, AlwaysJInv, PTL

(* A flow that begins within the monitored time has its number on every    *)
(* packet, the first one included.                                         *)
LEMMA FirstIsTagged ==
    ASSUME IInv, JInv, IdsSuffice, NEW t \in FiveTuples,
           PacketsOf(t, Fates) # {}, ~Filtered(t), First(PacketsOf(t, Fates)).sent <= until
    PROVE  /\ t \in Known(Sender(t)) /\ Sender(t) \in Procs
           /\ First(PacketsOf(t, Fates)).tag.flow = flowMap[Sender(t)][t]
  <1>1. PICK n \in PacketsOf(t, Fates) : n = Min(PacketsOf(t, Fates))
    <2>1. PacketsOf(t, Fates) \subseteq 1 .. Len(packets)
      BY PacketsOfFinite DEF IInv
    <2>2. PacketsOf(t, Fates) \subseteq Nat
      BY <2>1
    <2>3. QED
      BY <2>2, SmallestOf
  <1>2. n \in 1 .. Len(packets) /\ packets[n].tuple = t /\ packets[n] = First(PacketsOf(t, Fates))
    BY <1>1, PacketsOfFinite DEF IInv, First, PacketsOf
  <1>3. packets[n].tag.flow \in Int /\ packets[n].sent \in Int /\ until \in Int
    BY <1>2, PacketAt DEF IInv, MapsTypeOK
  <1>4. packets[n].tag.flow >= 0
    <2>1. SUFFICES ASSUME packets[n].tag.flow < 0 PROVE FALSE
      BY <1>3
    <2>2. packets[n].sent > until
      BY <1>2, <2>1 DEF IInv, UntaggedIsLate
    <2>3. QED
      BY <1>2, <1>3, <2>2
  <1>5. QED
    BY <1>2, <1>4, TagNumber

(* A flow that begins within the monitored time is counted to its end, by  *)
(* the processes of its ends and nobody else.                              *)
THEOREM CountsAddUpCorrect == Spec => []CountsAddUp
  <1>1. IInv /\ JInv => CountsAddUp
    <2> SUFFICES ASSUME IInv, JInv, IdsSuffice, NEW t \in FiveTuples,
                        PacketsOf(t, Fates) # {}, ~Filtered(t),
                        First(PacketsOf(t, Fates)).sent <= until,
                        NEW f, f = First(PacketsOf(t, Fates)).tag.flow,
                        NEW p, p = Sender(t), NEW q, q = Receiver(t)
                 PROVE  /\ StatsOf(p, f).txBytes = Size * Cardinality(PacketsOf(t, Fates))
                        /\ StatsOf(q, f).rxBytes = Size * Cardinality(Delivered(t))
                        /\ p = q => StatsOf(p, f).bytesDropped = Size * Cardinality(Dropped(t))
                        /\ p # q => /\ StatsOf(q, f).txBytes = 0 /\ StatsOf(p, f).rxBytes = 0
                                    /\ StatsOf(p, f).bytesDropped + StatsOf(q, f).bytesDropped
                                       = Size * Cardinality(Dropped(t))
                        /\ \A r \in Procs \ {p, q} : f \notin DOMAIN stats[r]
      BY DEF CountsAddUp, Sender, Receiver, Delivered, Dropped
    <2>1. t \in Known(p) /\ p \in Procs /\ f = flowMap[p][t]
      BY FirstIsTagged
    <2>2. FlowCounts(t, f)
      BY <2>1 DEF JInv, FlowsOK
    <2>3. ASSUME NEW r \in Procs \ {p, q}, f \in DOMAIN stats[r] PROVE FALSE
      <3>1. PICK u \in FiveTuples :
                /\ u \in Known(Sender(u)) /\ Sender(u) \in Procs
                /\ f = flowMap[Sender(u)][u]
                /\ r = Sender(u) \/ r = Receiver(u)
        BY <2>3, StatsAtEnds
      <3>2. u = t
        BY <2>1, <3>1, NumbersDiffer
      <3>3. QED
        BY <3>1, <3>2
    <2>4. QED
      BY <2>2, <2>3 DEF FlowCounts
  <1>2. QED
    BY <1>1, AlwaysJInv, PTL

(* What the receiver's process writes of a flow says when it was complete. *)
THEOREM CompletionTimeIsKnownCorrect == Spec => []CompletionTimeIsKnown
  <1>1. IInv /\ JInv => CompletionTimeIsKnown
    <2> SUFFICES ASSUME IInv, JInv, IdsSuffice, NEW p \in Procs, NEW t \in Known(p),
                        Received(t) # {}, \A n \in PacketsOf(t, Fates) : packets[n].sent > 0
                 PROVE  LET f == flowMap[p][t]
                            q == ProcOf(t.dst)
                            s == StatsOf(q, f)
                        IN  /\ f \in Written(q)
                            /\ s.timeLastRx = Max({packets[n].at : n \in Received(t)})
                            /\ q = p => s.timeFirstTx = First(PacketsOf(t, Fates)).sent
                            /\ q # p => \E n \in Received(t) :
                                    /\ s.timeFirstTx = packets[n].sent
                                    /\ \A m \in Received(t) : packets[n].at <= packets[m].at
      BY Zenon DEF CompletionTimeIsKnown, Known
    <2>0. PICK f, q, s : f = flowMap[p][t] /\ q = Receiver(t) /\ s = StatsOf(q, f)
      OBVIOUS
    <2>14. Received(t) = Delivered(t) /\ Delivered(t) # {}
      BY DEF Received, Delivered
    <2>1. t \in FiveTuples /\ Sender(t) = p /\ q \in Procs
      BY <2>0, SenderType DEF IInv, MapsTypeOK, Receiver
    <2>2. FlowTimes(t, f)
      BY <2>0 DEF JInv, FlowsOK
    <2>3. /\ PacketsOf(t, Fates) \subseteq 1 .. Len(packets)
          /\ Delivered(t) \subseteq PacketsOf(t, Fates)
      BY PacketsOfFinite DEF IInv, PacketsOf, Delivered, Fates
    <2>4. \A n \in Delivered(t) :
            /\ packets[n].at \in Int /\ packets[n].sent \in Int
            /\ packets[n].sent > 0 /\ packets[n].sent <= packets[n].at
      <3> SUFFICES ASSUME NEW n \in Delivered(t)
                   PROVE  /\ packets[n].at \in Int /\ packets[n].sent \in Int
                          /\ packets[n].sent > 0 /\ packets[n].sent <= packets[n].at
        OBVIOUS
      <3>1. n \in 1 .. Len(packets) /\ packets[n].sent > 0 /\ packets[n].fate = "delivered"
        BY <2>3 DEF Delivered, PacketsOf
      <3>2. packets[n] \in Packet
        BY <3>1, PacketAt DEF IInv
      <3>3. QED
        BY <3>1, <3>2 DEF Packet, JInv, Clocks
    <2>5. PICK last \in Delivered(t) :
            /\ s.timeLastRx = packets[last].at
            /\ \A m \in Delivered(t) : packets[m].at <= packets[last].at
      BY <2>14, <2>0, <2>2 DEF FlowTimes, LastRx
    <2>6. s.timeLastRx = Max({packets[n].at : n \in Delivered(t)})
      <3>1. PICK S : S = {packets[n].at : n \in Delivered(t)}
        OBVIOUS
      <3>2. /\ S \subseteq Int /\ packets[last].at \in S
            /\ \A m \in S : m <= packets[last].at
        BY <2>4, <2>5, <3>1
      <3>3. QED
        BY <2>5, <3>1, <3>2, MaxIs
    <2>7. q = p => \E n \in PacketsOf(t, Fates) :
            /\ s.timeFirstTx = packets[n].sent
            /\ \A m \in PacketsOf(t, Fates) : n <= m
      BY <2>14, <2>0, <2>1, <2>2 DEF FlowTimes, FirstTx
    <2>8. q # p => \E n \in Delivered(t) :
            /\ s.timeFirstTx = packets[n].sent
            /\ \A m \in Delivered(t) : packets[n].at <= packets[m].at
      BY <2>14, <2>0, <2>1, <2>2 DEF FlowTimes, FirstTx
    <2>9. q = p => s.timeFirstTx = First(PacketsOf(t, Fates)).sent
      <3>1. SUFFICES ASSUME q = p PROVE s.timeFirstTx = First(PacketsOf(t, Fates)).sent
        OBVIOUS
      <3>2. PICK n \in PacketsOf(t, Fates) :
                /\ s.timeFirstTx = packets[n].sent
                /\ \A m \in PacketsOf(t, Fates) : n <= m
        BY <2>7, <3>1
      <3>3. PacketsOf(t, Fates) \subseteq Int
        BY <2>3
      <3>4. Min(PacketsOf(t, Fates)) = n
        BY <3>2, <3>3, MinIs
      <3>5. QED
        BY <3>2, <3>4 DEF First
    <2>10. s.timeFirstTx # 0 /\ s.timeLastRx # 0
      <3>1. \E n \in PacketsOf(t, Fates) : s.timeFirstTx = packets[n].sent
        BY <2>14, <2>3, <2>7, <2>8
      <3>2. PICK n \in PacketsOf(t, Fates) : s.timeFirstTx = packets[n].sent
        BY <3>1
      <3>3. packets[n].sent \in Int /\ packets[n].sent > 0
        BY <2>3, PacketAt DEF IInv
      <3>4. QED
        BY <2>4, <2>5, <3>2, <3>3
    <2>11. f \in Written(q)
      <3>1. f \in DOMAIN stats[q] /\ s = stats[q][f]
        BY <2>0, <2>10 DEF StatsOf, NoStats
      <3>2. QED
        BY <2>10, <3>1 DEF Written
    <2>12. QED
      BY <2>0, <2>14, <2>6, <2>8, <2>9, <2>11 DEF Receiver
  <1>2. QED
    BY <1>1, AlwaysJInv, PTL
==========================================================================
