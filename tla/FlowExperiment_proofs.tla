---------------------- MODULE FlowExperiment_proofs ----------------------
(***************************************************************************)
(* For any number of processes and hosts, any flow file and any MIGRATE    *)
(* commands: the schedulers hand over each flow when it is due, the        *)
(* applications send it in whole packets and close when it is sent, both   *)
(* ends of a stream agree on its port, and ports are taken in turn.        *)
(***************************************************************************)
EXTENDS FlowExperiment, SequenceTheorems, FiniteSetTheorems, FunctionTheorems, TLAPS

Line4 == [src : Hosts, dst : Hosts, size : Sizes, at : 0 .. MaxTime]
Entry == [flow : Line4, at : Int]

(* The state of the schedulers, as far as no property says it.             *)
SchedulerTypeOK ==
    /\ phase \in {"setup", "running", "failed"}
    /\ file \in Seq(Line4) /\ Len(file) >= 1
    /\ numFlows \in 0 .. MaxNumber /\ migrates \in 0 .. MaxMigrates
    /\ DOMAIN migrations \subseteq Hosts
    /\ now \in [Procs -> 0 .. MaxTime]
    /\ event \in [Procs -> {NoEvent} \cup 0 .. MaxTime]
    /\ currentIdx \in [Procs -> 0 .. MaxNumber]
    /\ DOMAIN current = Procs
    /\ dispatched \in [Procs -> Seq(Entry)]

(* Nothing is scheduled before the end of the set-up.                      *)
NothingYet ==
    phase = "setup" => \A p \in Procs :
        event[p] = NoEvent /\ currentIdx[p] = 0 /\ now[p] = 0 /\ dispatched[p] = <<>>

Unmoved(n, dst) == Line(n).src \notin DOMAIN migrations => dst = Line(n).dst

(* m_current_flow is the next flow, with a destination of its own.         *)
NextIsRead ==
    \A p \in Procs :
        /\ event[p] # NoEvent => Unmoved(currentIdx[p] + 1, current[p].dst)
        /\ currentIdx[p] <= numFlows

SchedulerInv == SchedulerTypeOK /\ NothingYet /\ NextIsRead /\ EachFlowOnTime

---------------------------------------------------------------------------
LEMMA LineType ==
    ASSUME SchedulerTypeOK, NEW n \in Int, n >= 1
    PROVE  Line(n) \in Line4 /\ Line(n).at \in Int
  <1> DEFINE k == IF n <= Len(file) THEN n ELSE Len(file)
  <1>1. k \in 1 .. Len(file)
    BY DEF SchedulerTypeOK
  <1>2. file[k] \in Line4
    BY <1>1, ElementOfSeq DEF SchedulerTypeOK
  <1>3. Line(n) \in Line4
    BY <1>2 DEF Line
  <1>4. QED
    BY <1>3, FlowAssumption DEF Line4

LEMMA SchedulerInitInv == Init => SchedulerInv
  <1> SUFFICES ASSUME Init PROVE SchedulerInv
    OBVIOUS
  <1> USE DEF Init, SchedulerInit
  <1>1. PICK n \in 1 .. MaxFlows : file \in [1 .. n -> Flow]
    OBVIOUS
  <1>2. file \in Seq(Line4) /\ Len(file) = n
    <2>1. file \in [1 .. n -> Line4]
      BY <1>1 DEF Flow, Line4
    <2>2. QED
      BY <1>1, <2>1, IsASeq, FlowAssumption
  <1>3. NoEvent \in Int /\ 0 \in 0 .. MaxTime /\ 0 \in 0 .. MaxNumber /\ 0 \in 0 .. MaxMigrates
    BY FlowAssumption, ExperimentAssumption DEF NoEvent
  <1>4. dispatched \in [Procs -> Seq(Entry)]
    OBVIOUS
  <1>5. SchedulerTypeOK
    BY <1>1, <1>2, <1>3, <1>4 DEF SchedulerTypeOK
  <1>6. NothingYet /\ NextIsRead
    BY <1>5 DEF NothingYet, NextIsRead, SchedulerTypeOK
  <1>7. EachFlowOnTime
    BY DEF EachFlowOnTime
  <1>8. QED
    BY <1>5, <1>6, <1>7 DEF SchedulerInv

---------------------------------------------------------------------------
(* The set-up.                                                             *)

LEMMA PutDomain == ASSUME NEW f, NEW x, NEW v PROVE DOMAIN Put(f, x, v) = DOMAIN f \cup {x}
  BY DEF Put

LEMMA MigrateInv ==
    ASSUME SchedulerInv, NEW src \in Hosts, NEW d \in Hosts, NEW percent \in Shifts,
           Migrate(src, d, percent)
    PROVE  SchedulerInv' /\ migrates' # 0
  <1> USE DEF SchedulerInv
  <1>1. /\ phase = "setup" /\ migrates' = migrates + 1 /\ migrates < MaxMigrates
        /\ UNCHANGED <<file, numFlows, now, event, currentIdx, current, dispatched>>
    BY DEF Migrate
  <1>2. migrates' \in 0 .. MaxMigrates /\ migrates' # 0
    BY <1>1, FlowAssumption DEF SchedulerTypeOK
  <1>3. /\ DOMAIN migrations' \subseteq Hosts
        /\ phase' \in {"setup", "failed"}
    <2>1. \/ UNCHANGED phase /\ \E v : migrations' = Put(migrations, src, v)
          \/ phase' = "failed" /\ UNCHANGED migrations
      <3>1. CASE percent > 0
        <4>1. MigrateTo(src, d, percent)
          BY <3>1 DEF Migrate
        <4>2. QED
          BY <4>1, Zenon DEF MigrateTo
      <3>2. CASE ~(percent > 0)
        <4>1. MigrateBack(src, d, -percent)
          BY <3>2 DEF Migrate
        <4>2. QED
          BY <4>1, Zenon DEF MigrateBack
      <3>3. QED
        BY <3>1, <3>2
    <2>2. DOMAIN migrations \subseteq Hosts
      BY DEF SchedulerTypeOK
    <2>3. CASE UNCHANGED phase /\ \E v : migrations' = Put(migrations, src, v)
      <3>1. PICK v : migrations' = Put(migrations, src, v)
        BY <2>3
      <3>2. DOMAIN migrations' = DOMAIN migrations \cup {src}
        BY <3>1, PutDomain, Zenon
      <3>3. QED
        BY <1>1, <2>2, <2>3, <3>2
    <2>4. QED
      BY <1>1, <2>1, <2>2, <2>3
  <1>4. SchedulerTypeOK'
    BY <1>1, <1>2, <1>3 DEF SchedulerTypeOK
  <1>5. NothingYet'
    BY <1>1 DEF NothingYet
  <1>6. NextIsRead'
    BY <1>1 DEF NextIsRead, NothingYet
  <1>7. EachFlowOnTime'
    BY <1>1, <1>3 DEF EachFlowOnTime, NothingYet
  <1>8. QED
    BY <1>2, <1>4, <1>5, <1>6, <1>7

LEMMA BeginInv ==
    ASSUME SchedulerInv, Begin
    PROVE  SchedulerInv' /\ phase' = "running"
  <1> USE DEF SchedulerInv
  <1>1. /\ phase = "setup" /\ phase' = "running"
        /\ event' = [p \in Procs |-> Line(1).at]
        /\ UNCHANGED <<file, numFlows, migrations, migrates, now, currentIdx, dispatched>>
    BY DEF Begin
  <1>2. PICK d \in [Procs -> Destinations(Line(1))] :
            current' = [p \in Procs |-> [Line(1) EXCEPT !.dst = d[p]]]
    BY DEF Begin
  <1>3. Line(1) \in Line4 /\ Line(1)' = Line(1)
    BY <1>1, LineType DEF Line
  <1>4. \A p \in Procs : Unmoved(1, current'[p].dst)
    <2> SUFFICES ASSUME NEW p \in Procs PROVE Unmoved(1, current'[p].dst)
      OBVIOUS
    <2>1. current'[p].dst = d[p]
      BY <1>2, <1>3 DEF Line4
    <2>2. d[p] \in Destinations(Line(1))
      BY <1>2
    <2>3. QED
      BY <2>1, <2>2 DEF Unmoved, Destinations
  <1>5. SchedulerTypeOK'
    BY <1>1, <1>2, <1>3 DEF SchedulerTypeOK, Line4
  <1>6. NothingYet'
    BY <1>1 DEF NothingYet
  <1>7. NextIsRead'
    <2> SUFFICES ASSUME NEW p \in Procs
                 PROVE  Unmoved(currentIdx[p] + 1, current[p].dst)' /\ currentIdx'[p] <= numFlows'
      BY DEF NextIsRead
    <2>1. currentIdx'[p] + 1 = 1 /\ currentIdx'[p] <= numFlows'
      BY <1>1 DEF NothingYet, NextIsRead
    <2>2. Unmoved(1, current[p].dst)'
      BY <1>1, <1>3, <1>4 DEF Unmoved
    <2>3. QED
      BY <2>1, <2>2
  <1>8. EachFlowOnTime'
    <2> SUFFICES ASSUME NEW p \in Procs
                 PROVE  /\ Len(dispatched'[p]) = 0 /\ currentIdx'[p] = 0
                        /\ event'[p] = (Line(currentIdx[p] + 1).at)'
                        /\ event'[p] >= now'[p]
      BY DEF EachFlowOnTime
    <2>1. currentIdx'[p] = 0 /\ now'[p] = 0 /\ dispatched'[p] = <<>>
      BY <1>1 DEF NothingYet
    <2>2. (Line(currentIdx[p] + 1).at)' = Line(1).at /\ event'[p] = Line(1).at
      BY <1>1, <1>3, <2>1
    <2>3. Line(1).at \in Nat
      BY <1>3, FlowAssumption DEF Line4
    <2>4. QED
      BY <2>1, <2>2, <2>3
  <1>9. QED
    BY <1>1, <1>5, <1>6, <1>7, <1>8

---------------------------------------------------------------------------
(* One event of a scheduler.                                               *)

OnTime(p, d, n) ==
    /\ d.at = Line(n).at
    /\ [d.flow EXCEPT !.dst = Line(n).dst] = Line(n)
    /\ Unmoved(n, d.flow.dst)

LEMMA OnTimeShape ==
    EachFlowOnTime <=>
        \A p \in Procs :
            /\ Len(dispatched[p]) = currentIdx[p]
            /\ \A n \in 1 .. currentIdx[p] : OnTime(p, dispatched[p][n], n)
            /\ phase = "running" /\ currentIdx[p] < numFlows =>
                /\ event[p] = Line(currentIdx[p] + 1).at
                /\ event[p] >= now[p]
  BY DEF EachFlowOnTime, OnTime, Unmoved

(* Putting another destination into a flow and taking it back.             *)
LEMMA OnTimeEntry ==
    ASSUME SchedulerTypeOK, NEW p, NEW n \in Int, n >= 1, NEW dst \in Hosts, Unmoved(n, dst)
    PROVE  LET d == [flow |-> [Line(n) EXCEPT !.dst = dst], at |-> Line(n).at]
           IN  d \in Entry /\ OnTime(p, d, n)
  <1>1. Line(n) \in Line4 /\ Line(n).at \in Int
    BY LineType
  <1>2. Line(n) = [src |-> Line(n).src, dst |-> Line(n).dst, size |-> Line(n).size, at |-> Line(n).at]
    BY <1>1 DEF Line4
  <1> DEFINE f == [src |-> Line(n).src, dst |-> dst, size |-> Line(n).size, at |-> Line(n).at]
  <1>3. [Line(n) EXCEPT !.dst = dst] = f /\ f \in Line4
    BY <1>1 DEF Line4
  <1>4. [f EXCEPT !.dst = Line(n).dst] = Line(n) /\ f.dst = dst
    BY <1>1, <1>2 DEF Line4
  <1>5. QED
    BY <1>1, <1>3, <1>4 DEF Entry, OnTime

LEMMA DispatchInv ==
    ASSUME SchedulerInv, NEW p \in Procs, DispatchAndSchedule(p)
    PROVE  /\ SchedulerInv' /\ (phase' = "failed" => ~Sorted)
           /\ phase' # "setup" /\ \A q \in Procs : currentIdx'[q] >= currentIdx[q]
  <1> USE DEF SchedulerInv
  <1> DEFINE first == currentIdx[p]
  <1>1. /\ phase = "running" /\ event[p] # NoEvent
        /\ now' = [now EXCEPT ![p] = event[p]]
        /\ UNCHANGED <<file, numFlows, migrations, migrates>>
    BY DEF DispatchAndSchedule
  <1>2. PICK n \in 0 .. numFlows :
          /\ Due(p, n)
          /\ \E read \in {d \in [1 .. n + 1 -> Hosts] :
                            /\ d[1] = current[p].dst
                            /\ \A i \in 2 .. n + 1 : d[i] \in Destinations(Line(first + i))} :
              /\ dispatched' = [dispatched EXCEPT ![p] = @ \o
                    [i \in 1 .. n |-> [flow |-> [Line(first + i) EXCEPT !.dst = read[i]],
                                       at |-> event[p]]]]
              /\ current' = [current EXCEPT ![p] = [Line(first + n + 1) EXCEPT !.dst = read[n + 1]]]
          /\ currentIdx' = [currentIdx EXCEPT ![p] = @ + n]
          /\ IF first + n < numFlows
             THEN ScheduleAt(p, Line(first + n + 1).at)
             ELSE event' = [event EXCEPT ![p] = NoEvent] /\ UNCHANGED phase
    BY DEF DispatchAndSchedule
  <1>3. PICK read \in [1 .. n + 1 -> Hosts] :
          /\ read[1] = current[p].dst
          /\ \A i \in 2 .. n + 1 : read[i] \in Destinations(Line(first + i))
          /\ dispatched' = [dispatched EXCEPT ![p] = @ \o
                [i \in 1 .. n |-> [flow |-> [Line(first + i) EXCEPT !.dst = read[i]],
                                   at |-> event[p]]]]
          /\ current' = [current EXCEPT ![p] = [Line(first + n + 1) EXCEPT !.dst = read[n + 1]]]
    BY <1>2
  <1> DEFINE new == [i \in 1 .. n |-> [flow |-> [Line(first + i) EXCEPT !.dst = read[i]],
                                       at |-> event[p]]]
  <1>4. /\ first \in Nat /\ n \in Nat /\ numFlows \in Nat /\ first + n <= numFlows
        /\ first + n \in 0 .. MaxNumber
        /\ event[p] \in 0 .. MaxTime /\ event[p] \in Int
        /\ \A i \in 1 .. n : Line(first + i).at = event[p]
    <2>1. first \in Nat /\ n \in Nat /\ numFlows \in Nat /\ numFlows <= MaxNumber
      BY ExperimentAssumption DEF SchedulerTypeOK
    <2>2. n <= numFlows - first /\ \A i \in 1 .. n : Line(first + i).at = event[p]
      BY <1>2 DEF Due
    <2>3. event[p] \in 0 .. MaxTime /\ event[p] \in Int
      BY <1>1, FlowAssumption DEF SchedulerTypeOK
    <2>4. QED
      BY <2>1, <2>2, <2>3, ExperimentAssumption
  <1>5. \A i \in 1 .. n + 1 : read[i] \in Hosts /\ Unmoved(first + i, read[i])
    <2> SUFFICES ASSUME NEW i \in 1 .. n + 1 PROVE Unmoved(first + i, read[i])
      BY <1>3
    <2>1. CASE i = 1
      BY <1>1, <1>3, <2>1 DEF NextIsRead
    <2>2. CASE i # 1
      <3>1. i \in 2 .. n + 1
        BY <1>4, <2>2
      <3>2. read[i] \in Destinations(Line(first + i))
        BY <1>3, <3>1, Zenon
      <3>3. QED
        BY <3>2 DEF Unmoved, Destinations
    <2>3. QED
      BY <2>1, <2>2
  <1>6. \A i \in 1 .. n : new[i] \in Entry /\ OnTime(p, new[i], first + i)
    <2> SUFFICES ASSUME NEW i \in 1 .. n PROVE new[i] \in Entry /\ OnTime(p, new[i], first + i)
      OBVIOUS
    <2>1. first + i \in Int /\ first + i >= 1 /\ i \in 1 .. n + 1
      BY <1>4
    <2>2. new[i] = [flow |-> [Line(first + i) EXCEPT !.dst = read[i]], at |-> Line(first + i).at]
      BY <1>4
    <2> HIDE DEF new
    <2>3. QED
      BY <1>5, <2>1, <2>2, OnTimeEntry
  <1>7. new \in Seq(Entry) /\ Len(new) = n
    <2>1. new \in [1 .. n -> Entry]
      BY <1>6
    <2> HIDE DEF new
    <2>2. QED
      BY <1>4, <2>1, IsASeq
  <1> HIDE DEF new
  <1>8. /\ dispatched'[p] = dispatched[p] \o new
        /\ dispatched[p] \in Seq(Entry)
        /\ \A q \in Procs : q # p => dispatched'[q] = dispatched[q]
    BY <1>3 DEF SchedulerTypeOK, new
  <1>9. /\ Len(dispatched[p]) = first
        /\ \A i \in 1 .. first : OnTime(p, dispatched[p][i], i)
    BY OnTimeShape
  <1>10. /\ dispatched'[p] \in Seq(Entry) /\ Len(dispatched'[p]) = first + n
         /\ \A i \in 1 .. first + n : dispatched'[p][i] =
                IF i <= first THEN dispatched[p][i] ELSE new[i - first]
    <2> DEFINE old == dispatched[p]
    <2>1. old \in Seq(Entry) /\ Len(old) = first /\ dispatched'[p] = old \o new
      BY <1>8, <1>9
    <2> HIDE DEF old
    <2>2. /\ old \o new \in Seq(Entry) /\ Len(old \o new) = Len(old) + Len(new)
          /\ \A i \in 1 .. Len(old) + Len(new) :
                (old \o new)[i] = IF i <= Len(old) THEN old[i] ELSE new[i - Len(old)]
      BY <1>7, <2>1, ConcatProperties
    <2>3. QED
      BY <1>7, <2>1, <2>2 DEF old
  <1>11. \A i \in 1 .. first + n : OnTime(p, dispatched'[p][i], i)
    <2> SUFFICES ASSUME NEW i \in 1 .. first + n PROVE OnTime(p, dispatched'[p][i], i)
      OBVIOUS
    <2>1. CASE i <= first
      BY <1>4, <1>9, <1>10, <2>1
    <2>2. CASE ~(i <= first)
      <3>1. i - first \in 1 .. n /\ first + (i - first) = i
        BY <1>4, <2>2
      <3>2. QED
        BY <1>6, <1>10, <2>2, <3>1
    <2>3. QED
      BY <2>1, <2>2
  <1> DEFINE at == Line(first + n + 1).at
  <1>12. /\ Line(first + n + 1) \in Line4 /\ at \in 0 .. MaxTime /\ at \in Int
    <2>1. first + n + 1 \in Int /\ first + n + 1 >= 1
      BY <1>4
    <2>2. Line(first + n + 1) \in Line4 /\ at \in Int
      BY <2>1, LineType
    <2>3. QED
      BY <2>2 DEF Line4
  <1>13. /\ currentIdx' = [currentIdx EXCEPT ![p] = first + n]
         /\ currentIdx \in [Procs -> 0 .. MaxNumber]
         /\ event \in [Procs -> {NoEvent} \cup 0 .. MaxTime]
         /\ now \in [Procs -> 0 .. MaxTime]
    BY <1>2 DEF SchedulerTypeOK
  (* What becomes of the event.                                            *)
  <1>14. \/ /\ first + n < numFlows /\ at >= event[p]
            /\ event' = [event EXCEPT ![p] = at] /\ phase' = "running"
         \/ /\ first + n < numFlows /\ at < event[p]
            /\ event' = [event EXCEPT ![p] = NoEvent] /\ phase' = "failed"
         \/ /\ first + n = numFlows
            /\ event' = [event EXCEPT ![p] = NoEvent] /\ phase' = "running"
    <2>1. CASE first + n < numFlows
      <3>1. ScheduleAt(p, at)
        BY <1>2, <2>1
      <3>2. QED
        BY <1>1, <1>4, <1>12, <2>1, <3>1 DEF ScheduleAt
    <2>2. CASE ~(first + n < numFlows)
      BY <1>1, <1>2, <1>4, <2>2
    <2>3. QED
      BY <2>1, <2>2
  <1> HIDE DEF at
  <1>15. SchedulerTypeOK'
    <2>1. /\ now' \in [Procs -> 0 .. MaxTime]
          /\ event' \in [Procs -> {NoEvent} \cup 0 .. MaxTime]
          /\ currentIdx' \in [Procs -> 0 .. MaxNumber]
          /\ phase' \in {"setup", "running", "failed"}
      BY <1>1, <1>4, <1>12, <1>13, <1>14
    <2>2. DOMAIN current' = Procs
      BY <1>3 DEF SchedulerTypeOK
    <2>3. dispatched' \in [Procs -> Seq(Entry)]
      BY <1>3, <1>8, <1>10 DEF SchedulerTypeOK, new
    <2>4. QED
      BY <1>1, <2>1, <2>2, <2>3 DEF SchedulerTypeOK
  <1>16. NothingYet'
    BY <1>14 DEF NothingYet
  <1>17. /\ first + n <= numFlows /\ currentIdx'[p] = first + n
         /\ \A q \in Procs : q # p => currentIdx'[q] = currentIdx[q] /\ event'[q] = event[q]
                                      /\ now'[q] = now[q] /\ current'[q] = current[q]
         /\ now'[p] = event[p] /\ current'[p].dst = read[n + 1]
    BY <1>1, <1>3, <1>4, <1>12, <1>13, <1>14 DEF SchedulerTypeOK, Line4
  <1>18. NextIsRead'
    <2> SUFFICES ASSUME NEW q \in Procs
                 PROVE  /\ event'[q] # NoEvent => Unmoved(currentIdx[q] + 1, current[q].dst)'
                        /\ currentIdx'[q] <= numFlows'
      BY DEF NextIsRead
    <2>1. CASE q = p
      <3>1. Unmoved(first + n + 1, read[n + 1])
        <4> DEFINE k == first
        <4>0. k \in Nat /\ n \in Nat
          BY <1>4
        <4> HIDE DEF k
        <4>1. n + 1 \in 1 .. n + 1 /\ k + (n + 1) = k + n + 1
          BY <4>0
        <4> USE DEF k
        <4>2. Unmoved(first + (n + 1), read[n + 1])
          BY <1>5, <4>1, Zenon
        <4>3. QED
          BY <4>1, <4>2, Zenon
      <3>2. Unmoved(currentIdx[q] + 1, current[q].dst)'
        BY <1>1, <1>17, <2>1, <3>1 DEF Unmoved, Line
      <3>3. QED
        BY <1>1, <1>17, <2>1, <3>2
    <2>2. CASE q # p
      BY <1>1, <1>17, <2>2 DEF NextIsRead, Unmoved, Line
    <2>3. QED
      BY <2>1, <2>2
  <1>19. EachFlowOnTime'
    <2>1. SUFFICES ASSUME NEW q \in Procs
                   PROVE  /\ Len(dispatched'[q]) = currentIdx'[q]
                          /\ \A i \in 1 .. currentIdx'[q] : OnTime(q, dispatched[q][i], i)'
                          /\ phase' = "running" /\ currentIdx'[q] < numFlows' =>
                                /\ event'[q] = (Line(currentIdx[q] + 1).at)'
                                /\ event'[q] >= now'[q]
      BY DEF EachFlowOnTime, OnTime, Unmoved
    <2>2. CASE q = p
      <3>1. \A i \in 1 .. currentIdx'[q] : OnTime(q, dispatched[q][i], i)'
        BY <1>1, <1>11, <1>17, <2>2 DEF OnTime, Unmoved, Line
      <3>2. phase' = "running" /\ currentIdx'[q] < numFlows' =>
                event'[q] = at /\ event'[q] >= now'[q]
        BY <1>1, <1>4, <1>12, <1>13, <1>14, <1>17, <2>2
      <3>3. (Line(currentIdx[q] + 1).at)' = at
        BY <1>1, <1>17, <2>2 DEF Line, at
      <3>4. QED
        BY <1>10, <1>17, <2>2, <3>1, <3>2, <3>3
    <2>3. CASE q # p
      <3>1. /\ Len(dispatched[q]) = currentIdx[q]
            /\ \A i \in 1 .. currentIdx[q] : OnTime(q, dispatched[q][i], i)
            /\ currentIdx[q] < numFlows =>
                  event[q] = Line(currentIdx[q] + 1).at /\ event[q] >= now[q]
        BY <1>1, OnTimeShape
      <3>2. \A i \in 1 .. currentIdx'[q] : OnTime(q, dispatched[q][i], i)'
        BY <1>1, <1>8, <1>17, <2>3, <3>1 DEF OnTime, Unmoved, Line
      <3>3. (Line(currentIdx[q] + 1).at)' = Line(currentIdx[q] + 1).at
        BY <1>1, <1>17, <2>3 DEF Line
      <3>4. QED
        BY <1>1, <1>8, <1>17, <2>3, <3>1, <3>2, <3>3
    <2>4. QED
      BY <2>2, <2>3
  <1>20. ASSUME phase' = "failed" PROVE ~Sorted
    <2>1. first + n < numFlows /\ at < event[p]
      BY <1>14, <1>20
    <2>2. n # 0
      <3>1. first < numFlows => event[p] = Line(first + 1).at
        BY <1>1, OnTimeShape
      <3>2. QED
        BY <1>4, <2>1, <3>1 DEF at
    <2>3. Line(first + n).at = event[p]
      BY <1>4, <2>2
    <2> DEFINE clip(k) == IF k <= Len(file) THEN k ELSE Len(file)
    <2>4. /\ clip(first + n) \in 1 .. Len(file) /\ clip(first + n + 1) \in 1 .. Len(file)
          /\ clip(first + n) = clip(first + n + 1) \/ clip(first + n) < clip(first + n + 1)
      BY <1>4, <2>2 DEF SchedulerTypeOK
    <2>5. Line(first + n) = file[clip(first + n)] /\ Line(first + n + 1) = file[clip(first + n + 1)]
      BY DEF Line
    <2> HIDE DEF clip
    <2>6. file[clip(first + n + 1)].at < file[clip(first + n)].at
      BY <2>1, <2>3, <2>5 DEF at
    <2>7. file[clip(first + n + 1)].at \in Int /\ file[clip(first + n)].at \in Int
      BY <1>4, <1>12, <2>3, <2>5 DEF at
    <2>8. clip(first + n) < clip(first + n + 1)
      BY <2>4, <2>6, <2>7
    <2>9. QED
      BY <2>4, <2>6, <2>7, <2>8 DEF Sorted
  <1>21. \A q \in Procs : currentIdx'[q] >= currentIdx[q]
    BY <1>4, <1>13, <1>17
  <1>22. QED
    BY <1>14, <1>15, <1>16, <1>18, <1>19, <1>20, <1>21

---------------------------------------------------------------------------
(* The applications.                                                       *)

(* The bytes that one application has given to TCP.                        *)
Good(r) ==
    /\ r \in App
    /\ r.step \in {"absent", "installed", "connecting", "starting"} =>
            r.created = 0 /\ r.totBytes = 0 /\ ~r.unsent
    /\ r.step = "sending" => r.size = 0 \/ r.totBytes < r.size
    /\ r.step = "closed" => r.size > 0 /\ r.totBytes >= r.size
    /\ r.size > 0 => r.totBytes < r.size + PktSize
    /\ r.created * PktSize = r.totBytes + (IF r.unsent THEN PktSize ELSE 0)

AppsInv == app \in [Apps -> App] /\ (\A a \in Apps : Good(app[a])) /\ failure \in {"none", "bind", "connect"}

LEMMA GoodNoApp == Good(NoApp)
  <1>1. NoApp \in App
    BY DEF NoApp, App, Steps
  <1>2. 0 * PktSize = 0 /\ 0 < PktSize
    BY PktAssumption
  <1>3. QED
    BY <1>1, <1>2 DEF NoApp, Good

LEMMA GoodInstalled ==
    ASSUME NEW host \in Int, NEW port \in Int, NEW size \in Nat
    PROVE  Good([NoApp EXCEPT !.step = "installed", !.host = host, !.port = port, !.size = size])
  <1> DEFINE r == [NoApp EXCEPT !.step = "installed", !.host = host, !.port = port, !.size = size]
  <1>1. NoApp \in App
    BY GoodNoApp DEF Good
  <1>2. /\ r \in App
        /\ r.step = "installed" /\ r.size = size
        /\ r.created = NoApp.created /\ r.totBytes = NoApp.totBytes /\ r.unsent = NoApp.unsent
    BY <1>1 DEF App, Steps
  <1>3. NoApp.created = 0 /\ NoApp.totBytes = 0 /\ NoApp.unsent = FALSE
    BY DEF NoApp
  <1> HIDE DEF r
  <1>4. 0 * PktSize = 0 /\ 0 < PktSize
    BY PktAssumption
  <1>5. r.created * PktSize = r.totBytes + (IF r.unsent THEN PktSize ELSE 0)
    BY <1>2, <1>3, <1>4
  <1>6. r.size > 0 => r.totBytes < r.size + PktSize
    BY <1>2, <1>3, <1>4, PktAssumption
  <1>7. Good(r)
    BY <1>2, <1>3, <1>5, <1>6 DEF Good
  <1>8. QED
    BY <1>7 DEF r

LEMMA GoodNextTx ==
    ASSUME NEW r \in App, r.size > 0 => r.totBytes < r.size + PktSize,
           r.created * PktSize = r.totBytes + (IF r.unsent THEN PktSize ELSE 0),
           r.unsent => r.size = 0 \/ r.totBytes < r.size
    PROVE  Good(NextTx(r))
  <1>1. /\ r.size \in Nat /\ r.totBytes \in Nat /\ r.unsent \in BOOLEAN
        /\ [r EXCEPT !.step = "sending"] \in App
        /\ [r EXCEPT !.step = "closed", !.unsent = FALSE] \in App
    BY DEF App, Steps
  <1>2. CASE r.size = 0 \/ r.totBytes < r.size
    <2>1. NextTx(r) = [r EXCEPT !.step = "sending"]
      BY <1>2 DEF NextTx
    <2>2. QED
      BY <1>1, <1>2, <2>1 DEF Good, App
  <1>3. CASE ~(r.size = 0 \/ r.totBytes < r.size)
    <2>1. NextTx(r) = [r EXCEPT !.step = "closed", !.unsent = FALSE]
      BY <1>3 DEF NextTx
    <2>2. ~r.unsent /\ r.size > 0 /\ r.totBytes >= r.size
      BY <1>1, <1>3
    <2>3. QED
      BY <1>1, <2>1, <2>2 DEF Good, App
  <1>4. QED
    BY <1>2, <1>3

LEMMA GoodSent ==
    ASSUME NEW r, Good(r), r.step = "sending", NEW taken \in BOOLEAN
    PROVE  Good(IF taken
                THEN NextTx([OnePacket(r) EXCEPT !.totBytes = @ + PktSize, !.unsent = FALSE])
                ELSE NextTx([OnePacket(r) EXCEPT !.unsent = TRUE]))
  <1> DEFINE s == OnePacket(r)
  <1>1. /\ r \in App /\ r.size \in Nat /\ r.totBytes \in Nat /\ r.created \in Nat
        /\ r.unsent \in BOOLEAN /\ PktSize \in Nat /\ PktSize > 0
        /\ r.size = 0 \/ r.totBytes < r.size
        /\ r.size > 0 => r.totBytes < r.size + PktSize
        /\ r.created * PktSize = r.totBytes + (IF r.unsent THEN PktSize ELSE 0)
    BY PktAssumption DEF Good, App
  <1>2. (r.created + 1) * PktSize = r.created * PktSize + PktSize
    BY <1>1
  <1>3. /\ s \in App /\ s.size = r.size /\ s.totBytes = r.totBytes /\ s.created \in Nat
        /\ s.created * PktSize = r.totBytes + PktSize
    <2>1. CASE r.unsent
      BY <1>1, <2>1 DEF OnePacket
    <2>2. CASE ~r.unsent
      <3>1. s = [r EXCEPT !.created = r.created + 1]
        BY <2>2 DEF OnePacket
      <3> HIDE DEF s
      <3>2. s \in App /\ s.size = r.size /\ s.totBytes = r.totBytes /\ s.created = r.created + 1
        BY <1>1, <3>1 DEF App
      <3>3. QED
        BY <1>1, <1>2, <2>2, <3>2
    <2>3. QED
      BY <2>1, <2>2
  <1> HIDE DEF s
  <1>4. CASE taken
    <2> DEFINE t == [s EXCEPT !.totBytes = @ + PktSize, !.unsent = FALSE]
    <2>0. s.totBytes + PktSize \in Nat
      BY <1>1, <1>3
    <2>1. /\ t \in App /\ t.size = r.size /\ t.totBytes = r.totBytes + PktSize
          /\ t.created = s.created /\ t.unsent = FALSE
      BY <1>3, <2>0 DEF App
    <2> HIDE DEF t
    <2>2. Good(NextTx(t))
      BY <1>1, <1>3, <2>1, GoodNextTx
    <2>3. QED
      BY <1>4, <2>2 DEF s, t
  <1>5. CASE ~taken
    <2> DEFINE t == [s EXCEPT !.unsent = TRUE]
    <2>1. /\ t \in App /\ t.size = r.size /\ t.totBytes = r.totBytes
          /\ t.created = s.created /\ t.unsent = TRUE
      BY <1>1, <1>3 DEF App
    <2> HIDE DEF t
    <2>2. Good(NextTx(t))
      BY <1>1, <1>3, <2>1, GoodNextTx
    <2>3. QED
      BY <1>5, <2>2 DEF s, t
  <1>6. QED
    BY <1>4, <1>5

---------------------------------------------------------------------------
(* The ports.                                                              *)

PortsInv ==
    /\ portMap \in [Procs -> [Hosts -> StartPort .. LastPort]]
    /\ phase = "setup" => \A p, q \in Procs : portMap[p] = portMap[q]
    /\ clients \in [Hosts -> SUBSET Ephemeral]
    /\ StreamsReachTheirSinks

LEMMA PortAfterCallsType ==
    ASSUME NEW first \in StartPort .. LastPort, NEW n \in Nat
    PROVE  PortAfterCalls(first, n) \in StartPort .. LastPort
  <1>1. /\ StartPort \in Nat /\ LastPort \in Nat /\ first \in Nat
        /\ PortRange \in Nat /\ PortRange > 0
        /\ first + n - StartPort \in Nat
    BY ExperimentAssumption DEF PortRange
  <1>2. (first + n - StartPort) % PortRange \in 0 .. PortRange - 1
    <2> DEFINE x == first + n - StartPort
               y == PortRange
    <2>1. x \in Nat /\ y \in Nat /\ y > 0
      BY <1>1
    <2> HIDE DEF x, y
    <2>2. x % y \in 0 .. y - 1
      BY <2>1
    <2>3. QED
      BY <2>2 DEF x, y
  <1>3. CASE first + n <= LastPort
    BY <1>1, <1>3 DEF PortAfterCalls
  <1>4. CASE ~(first + n <= LastPort)
    <2> DEFINE turned == (first + n - StartPort) % PortRange
    <2>1. PortAfterCalls(first, n) = StartPort + turned
      BY <1>4 DEF PortAfterCalls
    <2>2. turned \in 0 .. PortRange - 1 /\ PortRange = LastPort - StartPort + 1
      BY <1>2 DEF PortRange
    <2> HIDE DEF turned
    <2>3. QED
      BY <1>1, <2>1, <2>2
  <1>5. QED
    BY <1>3, <1>4

LEMMA StreamsAgree ==
    ASSUME PortsInv, DoAllToAllTcp
    PROVE  PortsInv'
  <1>1. /\ phase = "setup" /\ UNCHANGED <<flowVars, appVars, clients>>
        /\ portMap' = [p \in Procs |-> [h \in Hosts |-> PortAfterCalls(portMap[p][h], NumHosts - 1)]]
    BY DEF DoAllToAllTcp
  <1>2. PICK owner \in [Hosts -> Procs] :
            streams' = {[from |-> ij[1], to |-> ij[2],
                         sentTo |-> StreamPort(owner[ij[1]], ij),
                         listensOn |-> StreamPort(owner[ij[2]], ij)] : ij \in Pair}
    BY DEF DoAllToAllTcp
  <1>3. \A ij \in Pair : StreamPort(owner[ij[1]], ij) = StreamPort(owner[ij[2]], ij)
    <2> SUFFICES ASSUME NEW ij \in Pair
                 PROVE  StreamPort(owner[ij[1]], ij) = StreamPort(owner[ij[2]], ij)
      OBVIOUS
    <2>1. portMap[owner[ij[1]]] = portMap[owner[ij[2]]]
      BY <1>1 DEF PortsInv, Pair
    <2>2. QED
      BY <2>1 DEF StreamPort
  <1>4. StreamsReachTheirSinks'
    <2> SUFFICES ASSUME NEW s \in streams' PROVE s.sentTo = s.listensOn
      BY DEF StreamsReachTheirSinks
    <2>1. PICK ij \in Pair : s = [from |-> ij[1], to |-> ij[2],
                                  sentTo |-> StreamPort(owner[ij[1]], ij),
                                  listensOn |-> StreamPort(owner[ij[2]], ij)]
      BY <1>2
    <2>2. s.sentTo = StreamPort(owner[ij[1]], ij) /\ s.listensOn = StreamPort(owner[ij[2]], ij)
      BY <2>1
    <2>3. QED
      BY <1>3, <2>2
  <1>5. NumHosts - 1 \in Nat
    BY FlowAssumption
  <1>6. portMap' \in [Procs -> [Hosts -> StartPort .. LastPort]]
    BY <1>1, <1>5, PortAfterCallsType DEF PortsInv
  <1>7. \A p, q \in Procs : portMap'[p] = portMap'[q]
    <2> SUFFICES ASSUME NEW p \in Procs, NEW q \in Procs PROVE portMap'[p] = portMap'[q]
      OBVIOUS
    <2>1. portMap[p] = portMap[q]
      BY <1>1 DEF PortsInv
    <2>2. QED
      BY <1>1, <2>1
  <1>8. clients' \in [Hosts -> SUBSET Ephemeral]
    BY <1>1 DEF PortsInv, Ephemeral
  <1>9. QED
    BY <1>4, <1>6, <1>7, <1>8 DEF PortsInv

---------------------------------------------------------------------------
(* The whole.                                                              *)

(* An application belongs to a flow handed over, on the process of the     *)
(* flow's source.                                                          *)
Owned ==
    \A p \in Procs, n \in 1 .. MaxNumber :
        app[<<p, n>>].step # "absent" => n <= currentIdx[p] /\ IsLocal(p, Line(n).src)

IInv ==
    /\ SchedulerInv /\ AppsInv /\ PortsInv
    /\ Owned
    /\ SortedNeverFails

LEMMA InitInv == Init => IInv
  <1> SUFFICES ASSUME Init PROVE IInv
    OBVIOUS
  <1>1. SchedulerInv
    BY SchedulerInitInv
  <1>2. AppsInv
    <2>1. NoApp \in App
      BY GoodNoApp DEF Good
    <2>2. QED
      BY <2>1, GoodNoApp DEF Init, AppInit, AppsInv
  <1>3. PortsInv
    <2>1. StartPort \in StartPort .. LastPort
      BY ExperimentAssumption
    <2>2. QED
      BY <2>1 DEF Init, FirstPort, PortsInv, StreamsReachTheirSinks
  <1>4. SortedNeverFails
    BY DEF Init, SchedulerInit, SortedNeverFails
  <1>5. Owned
    BY ExperimentAssumption DEF Init, AppInit, NoApp, Owned, AppIds
  <1>6. QED
    BY <1>1, <1>2, <1>3, <1>4, <1>5 DEF IInv

LEMMA NumFlowsType == IInv => numFlows \in Nat /\ 1 .. numFlows \subseteq 1 .. MaxNumber
  BY ExperimentAssumption DEF IInv, SchedulerInv, SchedulerTypeOK

(* The flows that a process takes have hosts, sizes and ports.             *)
LEMMA TakenType ==
    ASSUME IInv, NEW p \in Procs, DispatchAndSchedule(p), NEW n \in Taken(p)
    PROVE  /\ dispatched'[p][n].flow \in Line4
           /\ n \in 1 .. numFlows /\ n > currentIdx[p] /\ n <= currentIdx'[p]
           /\ PortOfFlow(p, n) \in Int
           /\ IsLocal(p, Line(n).src)
  <1>1. SchedulerInv' /\ SchedulerInv /\ Line(n)' = Line(n) /\ UNCHANGED numFlows
    BY DispatchInv DEF IInv, DispatchAndSchedule, Line
  <1>2. /\ currentIdx[p] \in Nat /\ currentIdx'[p] \in Nat
        /\ currentIdx'[p] <= numFlows /\ numFlows \in Nat
        /\ dispatched'[p] \in Seq(Entry) /\ Len(dispatched'[p]) = currentIdx'[p]
    BY <1>1, ExperimentAssumption DEF SchedulerInv, SchedulerTypeOK, NextIsRead, EachFlowOnTime
  <1>3. n \in currentIdx[p] + 1 .. currentIdx'[p] /\ IsLocal(p, dispatched'[p][n].flow.src)
    BY DEF Taken, NewFlows
  <1>4. n \in 1 .. numFlows /\ n > currentIdx[p] /\ n <= currentIdx'[p] /\ n \in 1 .. Len(dispatched'[p])
    BY <1>2, <1>3
  <1> DEFINE d == dispatched'[p][n]
  <1>5. d \in Entry
    BY <1>2, <1>4, ElementOfSeq
  <1>6. d.flow \in Line4 /\ d.flow.src \in Hosts
    BY <1>5 DEF Entry, Line4
  <1>7. d.flow.src = Line(n).src
    <2>1. [d.flow EXCEPT !.dst = Line(n).dst] = Line(n)
      BY <1>1, <1>4 DEF SchedulerInv, EachFlowOnTime
    <2>2. [d.flow EXCEPT !.dst = Line(n).dst].src = d.flow.src
      BY <1>6 DEF Line4
    <2>3. QED
      BY <2>1, <2>2
  <1>8. PortOfFlow(p, n) \in Int
    <2> DEFINE before == {m \in Taken(p) : m < n /\ dispatched'[p][m].flow.src = d.flow.src}
    <2>1. IsFiniteSet(before)
      <3>1. IsFiniteSet(currentIdx[p] + 1 .. currentIdx'[p])
        <4>1. currentIdx[p] + 1 \in Int /\ currentIdx'[p] \in Int
          BY <1>2
        <4>2. QED
          BY <4>1, FS_Interval
      <3>2. QED
        BY <3>1, FS_Subset DEF Taken, NewFlows
    <2>2. Cardinality(before) \in Nat
      BY <2>1, FS_CardinalityType
    <2>3. portMap[p][d.flow.src] \in StartPort .. LastPort
      BY <1>6 DEF IInv, PortsInv
    <2> HIDE DEF before
    <2>4. PortAfterCalls(portMap[p][d.flow.src], Cardinality(before)) \in StartPort .. LastPort
      BY <2>2, <2>3, PortAfterCallsType
    <2>5. QED
      BY <2>4 DEF PortOfFlow, before
  <1>9. QED
    BY <1>3, <1>4, <1>6, <1>7, <1>8

LEMMA DispatchKeeps ==
    ASSUME IInv, NEW p \in Procs, Dispatch(p)
    PROVE  IInv'
  <1>1. /\ DispatchAndSchedule(p) /\ phase = "running"
        /\ UNCHANGED <<file, numFlows, migrations, migrates, failure, streams, clients>>
    BY DEF Dispatch, Running, DispatchAndSchedule
  <1>2. /\ SchedulerInv' /\ (phase' = "failed" => ~Sorted)
        /\ phase' # "setup" /\ \A q \in Procs : currentIdx'[q] >= currentIdx[q]
    BY <1>1, DispatchInv DEF IInv
  <1>3. \A a \in Apps : app'[a] =
            IF a[1] = p /\ a[2] \in Taken(p)
            THEN [NoApp EXCEPT !.step = "installed",
                               !.host = dispatched'[p][a[2]].flow.src,
                               !.port = PortOfFlow(p, a[2]),
                               !.size = dispatched'[p][a[2]].flow.size]
            ELSE app[a]
    BY DEF Dispatch
  <1>4. AppsInv'
    <2>1. ASSUME NEW a \in Apps PROVE Good(app'[a])
      <3>1. CASE a[1] = p /\ a[2] \in Taken(p)
        <4> DEFINE f == dispatched'[p][a[2]].flow
        <4>1. f \in Line4 /\ PortOfFlow(p, a[2]) \in Int
          BY <1>1, <3>1, TakenType
        <4>2. f.src \in Int /\ f.size \in Nat
          <5>1. f.src \in Hosts /\ f.size \in Sizes
            BY <4>1 DEF Line4
          <5> HIDE DEF f
          <5>2. \A h \in Hosts : h \in Int
            BY FlowAssumption DEF Hosts
          <5>3. Sizes \subseteq Nat
            BY FlowAssumption
          <5>4. QED
            BY <5>1, <5>2, <5>3
        <4> HIDE DEF f
        <4>3. Good([NoApp EXCEPT !.step = "installed", !.host = f.src,
                                 !.port = PortOfFlow(p, a[2]), !.size = f.size])
          BY <4>1, <4>2, GoodInstalled
        <4>4. QED
          BY <1>3, <3>1, <4>3 DEF f
      <3>2. CASE ~(a[1] = p /\ a[2] \in Taken(p))
        BY <1>3, <3>2 DEF IInv, AppsInv
      <3>3. QED
        BY <3>1, <3>2
    <2>2. app' = [a \in Apps |-> app'[a]]
      BY Zenon DEF Dispatch
    <2>3. app' \in [Apps -> App]
      BY <2>1, <2>2 DEF Good
    <2>4. QED
      BY <1>1, <2>1, <2>3 DEF IInv, AppsInv
  <1>5. PortsInv'
    <2>1. phase' # "setup"
      BY <1>2
    <2>2. \A h \in Hosts :
            Cardinality({n \in Taken(p) : dispatched'[p][n].flow.src = h}) \in Nat
      <3> SUFFICES ASSUME NEW h \in Hosts
                   PROVE  Cardinality({n \in Taken(p) : dispatched'[p][n].flow.src = h}) \in Nat
        OBVIOUS
      <3>1. currentIdx[p] + 1 \in Int /\ currentIdx'[p] \in Int
        BY <1>2, ExperimentAssumption DEF IInv, SchedulerInv, SchedulerTypeOK
      <3>2. IsFiniteSet(currentIdx[p] + 1 .. currentIdx'[p])
        BY <3>1, FS_Interval
      <3>3. IsFiniteSet({n \in Taken(p) : dispatched'[p][n].flow.src = h})
        BY <3>2, FS_Subset DEF Taken, NewFlows
      <3>4. QED
        BY <3>3, FS_CardinalityType
    <2>3. portMap' = [portMap EXCEPT ![p] = [h \in Hosts |->
            PortAfterCalls(@[h], Cardinality(
                {n \in Taken(p) : dispatched'[p][n].flow.src = h}))]]
      BY DEF Dispatch
    <2>4. portMap \in [Procs -> [Hosts -> StartPort .. LastPort]]
      BY DEF IInv, PortsInv
    <2> DEFINE counted == [h \in Hosts |-> PortAfterCalls(portMap[p][h], Cardinality(
                {n \in Taken(p) : dispatched'[p][n].flow.src = h}))]
    <2>5. counted \in [Hosts -> StartPort .. LastPort]
      BY <2>2, <2>4, PortAfterCallsType
    <2>6. portMap' = [portMap EXCEPT ![p] = counted]
      BY <2>3
    <2> HIDE DEF counted
    <2>7. portMap' \in [Procs -> [Hosts -> StartPort .. LastPort]]
      BY <2>4, <2>5, <2>6
    <2>8. QED
      BY <1>1, <2>1, <2>7 DEF IInv, PortsInv, StreamsReachTheirSinks
  <1>6. SortedNeverFails'
    BY <1>1, <1>2 DEF IInv, SortedNeverFails, Sorted
  <1>7. Owned'
    <2> SUFFICES ASSUME NEW q \in Procs, NEW n \in 1 .. MaxNumber, app'[<<q, n>>].step # "absent"
                 PROVE  n <= currentIdx'[q] /\ IsLocal(q, Line(n).src)'
      BY DEF Owned
    <2>1. <<q, n>> \in Apps /\ <<q, n>>[1] = q /\ <<q, n>>[2] = n
      BY ExperimentAssumption DEF AppIds
    <2>2. IsLocal(q, Line(n).src)' = IsLocal(q, Line(n).src)
      BY <1>1 DEF IsLocal, Line
    <2>3. CASE q = p /\ n \in Taken(p)
      BY <1>1, <2>2, <2>3, TakenType
    <2>4. CASE ~(q = p /\ n \in Taken(p))
      <3>1. app'[<<q, n>>] = app[<<q, n>>]
        BY <1>3, <2>1, <2>4
      <3>2. n <= currentIdx[q] /\ IsLocal(q, Line(n).src)
        BY <3>1 DEF IInv, Owned
      <3>3. currentIdx'[q] >= currentIdx[q] /\ currentIdx[q] \in Nat /\ currentIdx'[q] \in Nat
        BY <1>2, ExperimentAssumption DEF IInv, SchedulerInv, SchedulerTypeOK
      <3>4. QED
        BY <2>2, <3>2, <3>3
    <2>5. QED
      BY <2>3, <2>4
  <1>8. QED
    BY <1>2, <1>4, <1>5, <1>6, <1>7 DEF IInv

(* An event of an application: it changes no other; an application does    *)
(* not come back once it is closed, and the error that ends the run leaves *)
(* all as they are.                                                        *)
LEMMA AppEventShape ==
    ASSUME AppsInv, NEW a \in Apps, AppEvent(a)
    PROVE  /\ AppsInv' /\ failure = "none" /\ phase = "running"
           /\ UNCHANGED <<flowVars, portMap, streams, clients>>
           /\ app[a].step # "absent" /\ app'[a].step # "absent"
           /\ app[a].step = "closed" => app'[a].step = "closed"
           /\ \A b \in Apps : b # a => app'[b] = app[b]
           /\ failure' # "none" => UNCHANGED app
  <1>1. /\ app \in [Apps -> App] /\ Good(app[a]) /\ app[a] \in App
        /\ failure = "none" /\ phase = "running"
        /\ UNCHANGED <<flowVars, portMap, streams, clients>>
    BY DEF AppsInv, Good, AppEvent, Running
  <1> DEFINE Becomes(r) == /\ Good(r) /\ r.step # "absent"
                           /\ app[a].step = "closed" => r.step = "closed"
                           /\ app' = [app EXCEPT ![a] = r]
  <1>2. SUFFICES \/ failure' \in {"bind", "connect"} /\ UNCHANGED app /\ app[a].step # "absent"
                    /\ app[a].step # "closed"
                 \/ UNCHANGED failure /\ app[a].step # "absent" /\ \E r : Becomes(r)
    <2>1. CASE failure' \in {"bind", "connect"} /\ UNCHANGED app
      BY <1>1, <1>2, <2>1 DEF AppsInv
    <2>2. CASE ~(failure' \in {"bind", "connect"} /\ UNCHANGED app)
      <3>1. PICK r : Becomes(r)
        <4> HIDE DEF Becomes
        <4>1. QED
          BY <1>2, <2>2
      <3>2. UNCHANGED failure /\ app[a].step # "absent"
        <4> HIDE DEF Becomes
        <4>1. QED
          BY <1>2, <2>2
      <3>3. app'[a] = r /\ app' \in [Apps -> App] /\ \A b \in Apps : b # a => app'[b] = app[b]
        BY <1>1, <3>1 DEF Good
      <3>4. QED
        BY <1>1, <3>1, <3>2, <3>3 DEF AppsInv
    <2>3. QED
      BY <2>1, <2>2
  <1>3. CASE StartApplication(a, PortTaken(app[a].host, app[a].port))
    <2> DEFINE r == [app[a] EXCEPT !.step = "connecting", !.bound = TRUE]
    <2>1. CASE PortTaken(app[a].host, app[a].port)
      BY <1>3, <2>1 DEF StartApplication
    <2>2. CASE ~PortTaken(app[a].host, app[a].port)
      <3>1. app[a].step = "installed" /\ app' = [app EXCEPT ![a] = r] /\ UNCHANGED failure
        BY <1>3, <2>2 DEF StartApplication
      <3>2. /\ r \in App /\ r.step = "connecting" /\ r.size = app[a].size /\ r.unsent = app[a].unsent
            /\ r.created = app[a].created /\ r.totBytes = app[a].totBytes
        BY <1>1 DEF App, Steps
      <3> HIDE DEF r
      <3>3. Good(r)
        BY <1>1, <3>1, <3>2 DEF Good
      <3>4. QED
        BY <3>1, <3>2, <3>3
    <2>3. QED
      BY <2>1, <2>2
  <1>4. CASE ConnectionSucceeded(a)
    <2> DEFINE r == [app[a] EXCEPT !.step = "starting"]
    <2>1. app[a].step = "connecting" /\ app' = [app EXCEPT ![a] = r] /\ UNCHANGED failure
      BY <1>4 DEF ConnectionSucceeded
    <2>2. /\ r \in App /\ r.step = "starting" /\ r.size = app[a].size /\ r.unsent = app[a].unsent
          /\ r.created = app[a].created /\ r.totBytes = app[a].totBytes
      BY <1>1 DEF App, Steps
    <2> HIDE DEF r
    <2>3. Good(r)
      BY <1>1, <2>1, <2>2 DEF Good
    <2>4. QED
      BY <2>1, <2>2, <2>3
  <1>5. CASE ConnectionFailed(a)
    BY <1>5 DEF ConnectionFailed
  <1>6. CASE StartSending(a)
    <2>1. app[a].step = "starting" /\ app' = [app EXCEPT ![a] = NextTx(app[a])] /\ UNCHANGED failure
      BY <1>6 DEF StartSending
    <2>2. app[a].unsent = FALSE /\ app[a].totBytes = 0 /\ app[a].created * PktSize = 0
      BY <1>1, <2>1 DEF Good, App
    <2>3. app[a].size > 0 => app[a].totBytes < app[a].size + PktSize
      BY <1>1 DEF Good
    <2>4. Good(NextTx(app[a]))
      BY <1>1, <2>2, <2>3, GoodNextTx
    <2>5. NextTx(app[a]).step # "absent"
      BY <1>1 DEF NextTx, App
    <2>6. QED
      BY <2>1, <2>4, <2>5
  <1>7. CASE \E taken \in BOOLEAN : SendPacket(a, taken)
    <2>1. PICK taken \in BOOLEAN : SendPacket(a, taken)
      BY <1>7
    <2> DEFINE r == IF taken
                THEN NextTx([OnePacket(app[a]) EXCEPT !.totBytes = @ + PktSize, !.unsent = FALSE])
                ELSE NextTx([OnePacket(app[a]) EXCEPT !.unsent = TRUE])
    <2>2. app[a].step = "sending" /\ app' = [app EXCEPT ![a] = r] /\ UNCHANGED failure
      BY <2>1 DEF SendPacket
    <2>3. Good(r)
      BY <1>1, <2>2, GoodSent
    <2>4. r.step # "absent"
      <3>1. \A s \in App : NextTx(s).step \in {"sending", "closed"}
        BY DEF NextTx, App
      <3>2. OnePacket(app[a]) \in App
        BY <1>1 DEF OnePacket, App
      <3>3. /\ [OnePacket(app[a]) EXCEPT !.totBytes = @ + PktSize, !.unsent = FALSE] \in App
            /\ [OnePacket(app[a]) EXCEPT !.unsent = TRUE] \in App
        <4> DEFINE s == OnePacket(app[a])
        <4>1. s \in App /\ s.totBytes + PktSize \in Nat
          BY <3>2, PktAssumption DEF App
        <4> HIDE DEF s
        <4>2. /\ [s EXCEPT !.totBytes = s.totBytes + PktSize, !.unsent = FALSE] \in App
              /\ [s EXCEPT !.unsent = TRUE] \in App
          BY <4>1 DEF App
        <4>3. QED
          BY <4>2 DEF s
      <3>4. QED
        BY <3>1, <3>3
    <2> HIDE DEF r
    <2>5. QED
      BY <2>2, <2>3, <2>4
  <1>8. CASE SocketReleased(a)
    <2> DEFINE r == [app[a] EXCEPT !.bound = FALSE]
    <2>1. app[a].step = "closed" /\ app' = [app EXCEPT ![a] = r] /\ UNCHANGED failure
      BY <1>8 DEF SocketReleased
    <2>2. /\ r \in App /\ r.step = "closed" /\ r.size = app[a].size /\ r.unsent = app[a].unsent
          /\ r.created = app[a].created /\ r.totBytes = app[a].totBytes
      BY <1>1, <2>1 DEF App, Steps
    <2> HIDE DEF r
    <2>3. Good(r)
      BY <1>1, <2>1, <2>2 DEF Good
    <2>4. QED
      BY <2>1, <2>2, <2>3
  <1>9. QED
    BY <1>3, <1>4, <1>5, <1>6, <1>7, <1>8 DEF AppEvent

(* The sinks and the clients of a host's streams: which of the sockets     *)
(* cannot have its port.                                                   *)
LEMMA StartStreamsShape ==
    ASSUME clients \in [Hosts -> SUBSET Ephemeral], NEW h \in Hosts, StartStreams(h)
    PROVE  /\ UNCHANGED <<flowVars, app, portMap, streams>>
           /\ failure = "none" /\ phase = "running" /\ streams # {}
           /\ clients' \in [Hosts -> SUBSET Ephemeral] /\ failure' \in {"none", "bind"}
           /\ failure' = "bind" =>
                \/ Cardinality({port \in Ephemeral : ~PortBusy(h, port)}) < NumHosts - 1
                \/ \E s \in streams : s.to = h /\ (PortBusy(h, s.listensOn) \/ s.listensOn \in Ephemeral)
  <1>1. /\ UNCHANGED <<flowVars, app, portMap, streams>>
        /\ failure = "none" /\ phase = "running" /\ streams # {}
    BY DEF StartStreams, Running
  <1> DEFINE free == {port \in Ephemeral : ~PortBusy(h, port)}
  <1>2. CASE Cardinality(free) < NumHosts - 1 /\ failure' = "bind" /\ UNCHANGED clients
    BY <1>1, <1>2
  <1>3. CASE \E ports \in SUBSET free :
                IF \E s \in streams : s.to = h /\ (PortBusy(h, s.listensOn) \/ s.listensOn \in ports)
                THEN failure' = "bind" /\ UNCHANGED clients
                ELSE clients' = [clients EXCEPT ![h] = ports] /\ UNCHANGED failure
    <2>1. PICK ports \in SUBSET free :
                IF \E s \in streams : s.to = h /\ (PortBusy(h, s.listensOn) \/ s.listensOn \in ports)
                THEN failure' = "bind" /\ UNCHANGED clients
                ELSE clients' = [clients EXCEPT ![h] = ports] /\ UNCHANGED failure
      BY <1>3
    <2>2. ports \in SUBSET Ephemeral
      OBVIOUS
    <2>3. CASE \E s \in streams : s.to = h /\ (PortBusy(h, s.listensOn) \/ s.listensOn \in ports)
      BY <1>1, <2>1, <2>2, <2>3
    <2>4. CASE ~ \E s \in streams : s.to = h /\ (PortBusy(h, s.listensOn) \/ s.listensOn \in ports)
      BY <1>1, <2>1, <2>2, <2>4
    <2>5. QED
      BY <2>3, <2>4
  <1>4. QED
    BY <1>2, <1>3 DEF StartStreams

LEMMA NextKeeps == IInv /\ [Next]_vars => IInv'
  <1> SUFFICES ASSUME IInv, [Next]_vars PROVE IInv'
    OBVIOUS
  <1>1. CASE DoAllToAllTcp
    <2>1. UNCHANGED <<flowVars, appVars>>
      BY <1>1 DEF DoAllToAllTcp
    <2>2. PortsInv'
      BY <1>1, StreamsAgree DEF IInv
    <2>3. SchedulerInv'
      BY <2>1 DEF IInv, SchedulerInv, SchedulerTypeOK, NothingYet, NextIsRead, EachFlowOnTime,
                  Unmoved, Line, flowVars
    <2>4. AppsInv' /\ Owned' /\ SortedNeverFails'
      BY <2>1 DEF IInv, AppsInv, Owned, IsLocal, Line, SortedNeverFails, Sorted, flowVars, appVars
    <2>5. QED
      BY <2>2, <2>3, <2>4 DEF IInv
  <1>2. CASE SetUp
    <2>1. /\ phase = "setup" /\ UNCHANGED <<file, currentIdx, appVars, portMap, streams, clients>>
          /\ SchedulerInv' /\ (phase' = "failed" => migrates' # 0)
      <3>1. CASE Begin
        BY <1>2, <3>1, BeginInv DEF SetUp, Begin, IInv
      <3>2. CASE \E src, d \in Hosts, percent \in Shifts : Migrate(src, d, percent)
        BY <1>2, <3>2, MigrateInv DEF SetUp, Migrate, IInv
      <3>3. QED
        BY <1>2, <3>1, <3>2 DEF SetUp
    <2>2. AppsInv' /\ Owned' /\ SortedNeverFails'
      BY <2>1 DEF IInv, AppsInv, Owned, IsLocal, Line, SortedNeverFails, appVars
    <2>3. PortsInv'
      BY <2>1 DEF IInv, PortsInv, StreamsReachTheirSinks
    <2>4. QED
      BY <2>1, <2>2, <2>3 DEF IInv
  <1>3. CASE \E p \in Procs : Dispatch(p)
    BY <1>3, DispatchKeeps
  <1>4. CASE \E a \in Apps : AppEvent(a)
    <2>1. PICK a \in Apps : AppEvent(a)
      BY <1>4
    <2>2. /\ AppsInv' /\ UNCHANGED <<flowVars, portMap, streams, clients>>
          /\ app[a].step # "absent" /\ \A b \in Apps : b # a => app'[b] = app[b]
      BY <2>1, AppEventShape DEF IInv
    <2>3. SchedulerInv' /\ SortedNeverFails'
      BY <2>2 DEF IInv, SchedulerInv, SchedulerTypeOK, NothingYet, NextIsRead, EachFlowOnTime,
                  Unmoved, Line, SortedNeverFails, Sorted, flowVars
    <2>4. PortsInv'
      BY <2>2 DEF IInv, PortsInv, StreamsReachTheirSinks, flowVars
    <2>5. Owned'
      <3>1. \A p \in Procs, n \in 1 .. MaxNumber :
                app'[<<p, n>>].step # "absent" => app[<<p, n>>].step # "absent"
        BY <2>2, ExperimentAssumption DEF AppIds
      <3>2. QED
        BY <2>2, <3>1 DEF IInv, Owned, IsLocal, Line, flowVars
    <2>6. QED
      BY <2>2, <2>3, <2>4, <2>5 DEF IInv
  <1>5. CASE \E h \in Hosts : StartStreams(h)
    <2>1. PICK h \in Hosts : StartStreams(h)
      BY <1>5
    <2>2. /\ UNCHANGED <<flowVars, app, portMap, streams>>
          /\ clients' \in [Hosts -> SUBSET Ephemeral] /\ failure' \in {"none", "bind"}
      BY <2>1, StartStreamsShape DEF IInv, PortsInv
    <2>3. SchedulerInv' /\ SortedNeverFails'
      BY <2>2 DEF IInv, SchedulerInv, SchedulerTypeOK, NothingYet, NextIsRead, EachFlowOnTime,
                  Unmoved, Line, SortedNeverFails, Sorted, flowVars
    <2>4. AppsInv' /\ Owned' /\ PortsInv'
      BY <2>2 DEF IInv, AppsInv, Owned, IsLocal, Line, PortsInv, StreamsReachTheirSinks, flowVars
    <2>5. QED
      BY <2>3, <2>4 DEF IInv
  <1>6. CASE UNCHANGED vars
    <2>1. SchedulerInv' /\ SortedNeverFails'
      BY <1>6 DEF IInv, SchedulerInv, SchedulerTypeOK, NothingYet, NextIsRead, EachFlowOnTime,
                  Unmoved, Line, SortedNeverFails, Sorted, flowVars, vars
    <2>2. AppsInv' /\ Owned' /\ PortsInv'
      BY <1>6 DEF IInv, AppsInv, Owned, IsLocal, Line, PortsInv, StreamsReachTheirSinks,
                  vars, flowVars, appVars
    <2>3. QED
      BY <2>1, <2>2 DEF IInv
  <1>7. QED
    BY <1>1, <1>2, <1>3, <1>4, <1>5, <1>6 DEF Next

---------------------------------------------------------------------------
(* Theorems.                                                               *)

LEMMA AlwaysIInv == Spec => []IInv
  BY InitInv, NextKeeps, PTL DEF Spec

(* Everything has its type, whatever the constants are.                    *)
THEOREM TypeOKCorrect == Spec => []TypeOK
  <1>1. IInv => TypeOK
    BY DEF IInv, SchedulerInv, SchedulerTypeOK, AppsInv, Good, PortsInv, TypeOK
  <1>2. QED
    BY <1>1, AlwaysIInv, PTL

(* Every flow is handed over in order and at its time: flow_scheduler.cc.  *)
THEOREM EachFlowOnTimeCorrect == Spec => []EachFlowOnTime
  <1>1. IInv => EachFlowOnTime
    BY DEF IInv, SchedulerInv
  <1>2. QED
    BY <1>1, AlwaysIInv, PTL

(* A sorted file never makes the scheduler schedule into the past.         *)
THEOREM SortedNeverFailsCorrect == Spec => []SortedNeverFails
  <1>1. IInv => SortedNeverFails
    BY DEF IInv
  <1>2. QED
    BY <1>1, AlwaysIInv, PTL

(* SingleFlowApplication closes a flow exactly when it is sent.            *)
THEOREM ClosedWhenSentCorrect == Spec => []ClosedWhenSent
  <1>1. IInv => ClosedWhenSent
    BY DEF IInv, AppsInv, Good, ClosedWhenSent
  <1>2. QED
    BY <1>1, AlwaysIInv, PTL

(* It neither loses a packet that TCP refused nor sends it twice.          *)
THEOREM PacketsConservedCorrect == Spec => []PacketsConserved
  <1>1. IInv => PacketsConserved
    BY DEF IInv, AppsInv, Good, PacketsConserved
  <1>2. QED
    BY <1>1, AlwaysIInv, PTL

(* The two processes of a stream take the same port for it.                *)
THEOREM StreamsReachTheirSinksCorrect == Spec => []StreamsReachTheirSinks
  <1>1. IInv => StreamsReachTheirSinks
    BY DEF IInv, PortsInv
  <1>2. QED
    BY <1>1, AlwaysIInv, PTL

---------------------------------------------------------------------------
(* Ports are taken in turn.                                                *)

AppsOf(h) == {a \in Apps : app[a].host = h}
StreamsTo(h) == {s \in streams : s.to = h}

(* The ports that host h has used up.                                      *)
Used(h) == Cardinality(AppsOf(h)) + Cardinality(StreamsTo(h))
FirstPorts(n) == StartPort .. StartPort + n - 1

AppsFresh ==
    \A a \in Apps :
        /\ app[a].step = "absent" => app[a] = NoApp
        /\ app[a].step # "absent" => app[a].host \in Hosts
        /\ app[a].step = "installed" => ~app[a].bound

(* Within the first turn: the ports used are the first ones, each of them  *)
(* by one socket, and the next to be used is the one that follows.         *)
InTurn(h) ==
    /\ \A p \in Procs : IsLocal(p, h) =>
            portMap[p][h] = StartPort + (IF Used(h) < PortRange THEN Used(h) ELSE 0)
    /\ \A a \in AppsOf(h) : app[a].port \in FirstPorts(Used(h))
    /\ \A s \in StreamsTo(h) : s.listensOn \in FirstPorts(Used(h))
    /\ \A a, b \in AppsOf(h) : app[a].port = app[b].port => a = b
    /\ \A a \in AppsOf(h), s \in StreamsTo(h) : app[a].port # s.listensOn

TurnInv ==
    /\ IsFiniteSet(streams) /\ AppsFresh
    /\ streams = {} => \A h \in Hosts : clients[h] = {}
    /\ \A h \in Hosts : Used(h) <= PortRange => InTurn(h)
    /\ BindFailsOnlyWhenPortsRunOut

(* How many members of a finite set of numbers come before one of them.    *)
LEMMA Rank ==
    ASSUME NEW S, S \subseteq Int, IsFiniteSet(S), NEW n \in S
    PROVE  /\ Cardinality({m \in S : m < n}) \in Nat
           /\ Cardinality({m \in S : m < n}) < Cardinality(S)
           /\ \A k \in S : k < n =>
                Cardinality({m \in S : m < k}) < Cardinality({m \in S : m < n})
  <1> DEFINE Before(k) == {m \in S : m < k}
  <1>1. \A k : IsFiniteSet(Before(k)) /\ Cardinality(Before(k)) \in Nat
    <2> SUFFICES ASSUME NEW k PROVE IsFiniteSet(Before(k)) /\ Cardinality(Before(k)) \in Nat
      OBVIOUS
    <2>1. Before(k) \in SUBSET S
      OBVIOUS
    <2> HIDE DEF Before
    <2>2. QED
      BY <2>1, FS_Subset, FS_CardinalityType
  <1>2. Cardinality(Before(n)) < Cardinality(S)
    <2>1. Before(n) \in SUBSET S /\ n \notin Before(n)
      OBVIOUS
    <2> HIDE DEF Before
    <2>2. Before(n) # S
      BY <2>1
    <2>3. Cardinality(Before(n)) <= Cardinality(S) /\ Cardinality(Before(n)) # Cardinality(S)
      BY <2>1, <2>2, FS_Subset
    <2>4. Cardinality(S) \in Nat
      BY FS_CardinalityType
    <2>5. QED
      BY <1>1, <2>3, <2>4
  <1>3. ASSUME NEW k \in S, k < n
        PROVE  Cardinality(Before(k)) < Cardinality(Before(n))
    <2>1. ASSUME NEW m \in Before(k) PROVE m \in Before(n)
      <3>1. m \in S /\ m < k /\ m \in Int /\ k \in Int /\ n \in Int
        BY <2>1
      <3>2. m < n
        BY <1>3, <3>1
      <3>3. QED
        BY <3>1, <3>2
    <2>2. k \in Before(n) /\ k \notin Before(k)
      BY <1>3
    <2> HIDE DEF Before
    <2>3. Before(k) \in SUBSET Before(n) /\ Before(k) # Before(n)
      BY <2>1, <2>2
    <2>4. Cardinality(Before(k)) <= Cardinality(Before(n))
          /\ Cardinality(Before(k)) # Cardinality(Before(n))
      BY <1>1, <2>3, FS_Subset
    <2>5. QED
      BY <1>1, <2>4
  <1>4. QED
    BY <1>1, <1>2, <1>3

LEMMA FiniteApps == ASSUME NEW h PROVE IsFiniteSet(AppsOf(h)) /\ Cardinality(AppsOf(h)) \in Nat
  <1>1. IsFiniteSet(Procs) /\ IsFiniteSet(1 .. MaxNumber)
    <2>1. NumProcs - 1 \in Int /\ MaxNumber \in Int
      BY FlowAssumption, ExperimentAssumption
    <2>2. QED
      BY <2>1, FS_Interval DEF Procs
  <1>2. IsFiniteSet(Apps)
    BY <1>1, FS_Product, ExperimentAssumption DEF AppIds
  <1>3. AppsOf(h) \in SUBSET Apps
    BY DEF AppsOf
  <1>4. QED
    BY <1>2, <1>3, FS_Subset, FS_CardinalityType

LEMMA FiniteStreams ==
    ASSUME IsFiniteSet(streams), NEW h
    PROVE  IsFiniteSet(StreamsTo(h)) /\ Cardinality(StreamsTo(h)) \in Nat
  <1>1. StreamsTo(h) \in SUBSET streams
    BY DEF StreamsTo
  <1>2. QED
    BY <1>1, FS_Subset, FS_CardinalityType

LEMMA UsedType == ASSUME IsFiniteSet(streams), NEW h PROVE Used(h) \in Nat
  BY FiniteApps, FiniteStreams DEF Used

LEMMA PortRangeType ==
    PortRange \in Nat /\ PortRange > 0 /\ StartPort \in Nat /\ LastPort = StartPort + PortRange - 1
  BY ExperimentAssumption DEF PortRange

(* Counting on from a port used within the first turn.                     *)
LEMMA CountOn ==
    ASSUME NEW u \in Nat, NEW n \in Nat, u + n <= PortRange, u < PortRange \/ n = 0
    PROVE  PortAfterCalls(StartPort + (IF u < PortRange THEN u ELSE 0), n)
                = StartPort + (IF u + n < PortRange THEN u + n ELSE 0)
  <1>1. CASE u < PortRange /\ u + n < PortRange
    BY <1>1, PortRangeType DEF PortAfterCalls
  <1>2. CASE u < PortRange /\ u + n = PortRange
    <2>1. /\ StartPort + u + n > LastPort
          /\ StartPort + u + n - StartPort = PortRange
      BY <1>2, PortRangeType
    <2>2. PortRange % PortRange = 0
      <3> DEFINE x == PortRange
      <3>1. x \in Nat /\ x > 0
        BY PortRangeType
      <3> HIDE DEF x
      <3>2. x % x = 0
        BY <3>1
      <3>3. QED
        BY <3>2 DEF x
    <2>3. PortAfterCalls(StartPort + u, n) = StartPort + (PortRange % PortRange)
      BY <2>1, PortRangeType DEF PortAfterCalls
    <2>4. QED
      BY <1>2, <2>2, <2>3, PortRangeType
  <1>3. CASE ~(u < PortRange)
    BY <1>3, PortRangeType DEF PortAfterCalls
  <1>4. QED
    BY <1>1, <1>2, <1>3, PortRangeType

(* No application and no stream: nothing is used up.                       *)
LEMMA NothingUsed ==
    ASSUME \A a \in Apps : app[a] = NoApp, streams = {}, NEW h \in Hosts
    PROVE  AppsOf(h) = {} /\ StreamsTo(h) = {} /\ Used(h) = 0
  <1>1. NoApp.host = -1 /\ h # -1
    BY FlowAssumption DEF NoApp, Hosts
  <1>2. AppsOf(h) = {} /\ StreamsTo(h) = {}
    BY <1>1 DEF AppsOf, StreamsTo
  <1>3. QED
    BY <1>2, FS_EmptySet DEF Used

LEMMA TurnInit == Init => TurnInv
  <1> SUFFICES ASSUME Init PROVE TurnInv
    OBVIOUS
  <1>1. /\ \A a \in Apps : app[a] = NoApp
        /\ streams = {} /\ failure = "none" /\ \A h \in Hosts : clients[h] = {}
        /\ \A p \in Procs, h \in Hosts : portMap[p][h] = StartPort
    BY DEF Init, AppInit, FirstPort
  <1>2. AppsFresh
    BY <1>1 DEF AppsFresh, NoApp
  <1>3. ASSUME NEW h \in Hosts PROVE InTurn(h)
    <2>1. AppsOf(h) = {} /\ StreamsTo(h) = {} /\ Used(h) = 0
      BY <1>1, NothingUsed
    <2>2. QED
      BY <1>1, <2>1, PortRangeType DEF InTurn
  <1>4. QED
    BY <1>1, <1>2, <1>3, FS_EmptySet DEF TurnInv, BindFailsOnlyWhenPortsRunOut

(* A step that takes no port.                                              *)
LEMMA SameTurn ==
    ASSUME UNCHANGED <<portMap, streams>>,
           \A b \in Apps : app'[b].host = app[b].host /\ app'[b].port = app[b].port,
           NEW h
    PROVE  /\ AppsOf(h)' = AppsOf(h) /\ StreamsTo(h)' = StreamsTo(h) /\ Used(h)' = Used(h)
           /\ InTurn(h) => InTurn(h)'
  <1>1. AppsOf(h)' = AppsOf(h) /\ StreamsTo(h)' = StreamsTo(h)
    BY DEF AppsOf, StreamsTo
  <1>2. Used(h)' = Used(h)
    BY <1>1 DEF Used
  <1>3. ASSUME InTurn(h) PROVE InTurn(h)'
    <2>1. \A a \in AppsOf(h) : app'[a].port = app[a].port
      BY DEF AppsOf
    <2>2. QED
      BY <1>1, <1>2, <1>3, <2>1 DEF InTurn, IsLocal, FirstPorts
  <1>4. QED
    BY <1>1, <1>2, <1>3

LEMMA SetUpTurn ==
    ASSUME TurnInv, UNCHANGED <<app, failure, portMap, streams, clients>>
    PROVE  TurnInv'
  <1>1. \A h \in Hosts : Used(h)' = Used(h) /\ (InTurn(h) => InTurn(h)')
    BY SameTurn
  <1>2. \A h \in Hosts : Used(h)' <= PortRange => InTurn(h)'
    BY <1>1 DEF TurnInv
  <1>3. AppsFresh' /\ IsFiniteSet(streams)'
    BY DEF TurnInv, AppsFresh
  <1>4. BindFailsOnlyWhenPortsRunOut'
    BY DEF TurnInv, BindFailsOnlyWhenPortsRunOut, PortsApart
  <1>5. QED
    BY <1>2, <1>3, <1>4 DEF TurnInv

(* An event of an application leaves it its host and its port.             *)
LEMMA AppEventPort ==
    ASSUME AppsInv, NEW a \in Apps, AppEvent(a)
    PROVE  /\ \A b \in Apps : app'[b].host = app[b].host /\ app'[b].port = app[b].port
           /\ app' = app \/ app'[a].step # "installed"
           /\ failure' = "bind" =>
                app[a].step = "installed" /\ PortTaken(app[a].host, app[a].port)
  <1>1. /\ app \in [Apps -> App] /\ app[a] \in App /\ failure = "none"
        /\ \A b \in Apps : b # a => app'[b] = app[b]
    BY AppEventShape DEF AppsInv, AppEvent, Running
  <1> DEFINE Becomes(r) == /\ app' = [app EXCEPT ![a] = r] /\ r.step # "installed"
                           /\ r.host = app[a].host /\ r.port = app[a].port
  <1>2. SUFFICES \/ UNCHANGED app /\ (failure' = "bind" =>
                        app[a].step = "installed" /\ PortTaken(app[a].host, app[a].port))
                 \/ failure' = "none" /\ \E r : Becomes(r)
    <2>1. CASE \E r : Becomes(r)
      <3>1. PICK r : Becomes(r)
        <4> HIDE DEF Becomes
        <4>1. QED
          BY <2>1
      <3>2. app'[a] = r
        BY <1>1, <3>1
      <3>3. QED
        BY <1>1, <1>2, <3>1, <3>2
    <2>2. CASE ~ \E r : Becomes(r)
      <3> HIDE DEF Becomes
      <3>1. QED
        BY <1>2, <2>2
    <2>3. QED
      BY <2>1, <2>2
  <1>3. \A r \in App : /\ NextTx(r).host = r.host /\ NextTx(r).port = r.port
                       /\ NextTx(r).step # "installed"
    BY DEF NextTx, App
  <1>4. CASE StartApplication(a, PortTaken(app[a].host, app[a].port))
    <2>1. CASE PortTaken(app[a].host, app[a].port)
      BY <1>4, <2>1 DEF StartApplication
    <2>2. CASE ~PortTaken(app[a].host, app[a].port)
      <3>1. Becomes([app[a] EXCEPT !.step = "connecting", !.bound = TRUE]) /\ failure' = "none"
        BY <1>1, <1>4, <2>2 DEF StartApplication, App
      <3>2. QED
        BY <3>1
    <2>3. QED
      BY <2>1, <2>2
  <1>5. CASE ConnectionSucceeded(a)
    <2>1. Becomes([app[a] EXCEPT !.step = "starting"]) /\ failure' = "none"
      BY <1>1, <1>5 DEF ConnectionSucceeded, App
    <2>2. QED
      BY <2>1
  <1>6. CASE ConnectionFailed(a)
    BY <1>6 DEF ConnectionFailed
  <1>7. CASE StartSending(a)
    <2>1. Becomes(NextTx(app[a])) /\ failure' = "none"
      BY <1>1, <1>3, <1>7 DEF StartSending
    <2>2. QED
      BY <2>1
  <1>8. CASE \E taken \in BOOLEAN : SendPacket(a, taken)
    <2>1. PICK taken \in BOOLEAN : SendPacket(a, taken)
      BY <1>8
    <2> DEFINE r == OnePacket(app[a])
               s == IF taken THEN [r EXCEPT !.totBytes = @ + PktSize, !.unsent = FALSE]
                    ELSE [r EXCEPT !.unsent = TRUE]
    <2>2. r \in App /\ r.host = app[a].host /\ r.port = app[a].port
      BY <1>1 DEF OnePacket, App
    <2>3. s \in App /\ s.host = r.host /\ s.port = r.port
      <3> HIDE DEF r
      <3>1. r.totBytes + PktSize \in Nat
        BY <2>2, PktAssumption DEF App
      <3>2. CASE taken
        <4>1. s = [r EXCEPT !.totBytes = r.totBytes + PktSize, !.unsent = FALSE]
          BY <3>2
        <4>2. QED
          BY <2>2, <3>1, <4>1 DEF App
      <3>3. CASE ~taken
        BY <2>2, <3>3 DEF App
      <3>4. QED
        BY <3>2, <3>3
    <2>4. app' = [app EXCEPT ![a] = NextTx(s)] /\ failure' = "none"
      BY <1>1, <2>1 DEF SendPacket
    <2> HIDE DEF r, s
    <2>5. Becomes(NextTx(s)) /\ failure' = "none"
      BY <1>3, <2>2, <2>3, <2>4
    <2>6. QED
      BY <2>5
  <1>9. CASE SocketReleased(a)
    <2>1. Becomes([app[a] EXCEPT !.bound = FALSE]) /\ failure' = "none"
      BY <1>1, <1>9 DEF SocketReleased, App
    <2>2. QED
      BY <2>1
  <1>10. QED
    BY <1>4, <1>5, <1>6, <1>7, <1>8, <1>9 DEF AppEvent

(* The streams take ports of their own, from FirstEphemeral on.            *)
LEMMA PortsApartType ==
    /\ PortsApart \in Nat /\ PortsApart <= PortRange
    /\ streams # {} => \A u \in Nat : u <= PortsApart => FirstPorts(u) \cap Ephemeral = {}
  <1>1. /\ StartPort \in Nat /\ LastPort \in Nat /\ FirstEphemeral \in Nat
        /\ StartPort <= FirstEphemeral /\ FirstEphemeral <= LastPort
    BY ExperimentAssumption
  <1>2. QED
    BY <1>1 DEF PortsApart, PortRange, FirstPorts, Ephemeral

LEMMA AppEventTurn ==
    ASSUME IInv, TurnInv, NEW a \in Apps, AppEvent(a)
    PROVE  TurnInv'
  <1>1. /\ UNCHANGED <<portMap, streams, clients>> /\ failure = "none"
        /\ app[a].step # "absent" /\ app'[a].step # "absent"
        /\ \A b \in Apps : b # a => app'[b] = app[b]
        /\ \A b \in Apps : app'[b].host = app[b].host /\ app'[b].port = app[b].port
        /\ app' = app \/ app'[a].step # "installed"
        /\ failure' = "bind" =>
                app[a].step = "installed" /\ PortTaken(app[a].host, app[a].port)
    BY AppEventShape, AppEventPort DEF IInv
  <1>2. \A h \in Hosts : Used(h)' = Used(h) /\ (InTurn(h) => InTurn(h)')
    BY <1>1, SameTurn
  <1>3. \A h \in Hosts : Used(h)' <= PortRange => InTurn(h)'
    BY <1>2 DEF TurnInv
  <1>4. AppsFresh'
    BY <1>1 DEF TurnInv, AppsFresh
  <1>5. BindFailsOnlyWhenPortsRunOut'
    <2> SUFFICES ASSUME failure' = "bind" PROVE \E h \in Hosts : Used(h)' > PortsApart
      BY <1>1 DEF BindFailsOnlyWhenPortsRunOut, PortsApart, Used, AppsOf, StreamsTo
    <2> DEFINE h == app[a].host
    <2>1. h \in Hosts /\ ~app[a].bound /\ PortTaken(h, app[a].port) /\ Used(h) \in Nat
      BY <1>1, UsedType DEF TurnInv, AppsFresh
    <2>2. ASSUME Used(h) <= PortsApart PROVE FALSE
      <3>1. a \in AppsOf(h)
        BY DEF AppsOf
      <3>2. InTurn(h)
        <4> HIDE DEF h
        <4>1. Used(h) <= PortRange
          BY <2>1, <2>2, PortsApartType, PortRangeType
        <4>2. QED
          BY <2>1, <4>1 DEF TurnInv
      <3>3. CASE PortBusy(h, app[a].port)
        <4>1. PICK b \in Apps : app[b].bound /\ app[b].host = h /\ app[b].port = app[a].port
          BY <3>3 DEF PortBusy
        <4>2. b \in AppsOf(h) /\ b # a
          BY <2>1, <4>1 DEF AppsOf
        <4>3. QED
          BY <3>1, <3>2, <4>1, <4>2 DEF InTurn
      <3>4. CASE \E s \in streams : s.to = h /\ s.listensOn = app[a].port
        BY <3>1, <3>2, <3>4 DEF InTurn, StreamsTo
      <3>5. CASE app[a].port \in clients[h]
        <4>1. streams # {} /\ app[a].port \in Ephemeral
          BY <2>1, <3>5 DEF TurnInv, IInv, PortsInv
        <4>2. app[a].port \in FirstPorts(Used(h))
          BY <3>1, <3>2 DEF InTurn
        <4> HIDE DEF h
        <4>3. QED
          BY <2>1, <2>2, <4>1, <4>2, PortsApartType
      <3>6. QED
        BY <2>1, <3>3, <3>4, <3>5 DEF PortTaken
    <2> HIDE DEF h
    <2>3. Used(h) > PortsApart
      BY <2>1, <2>2, PortsApartType
    <2>4. QED
      BY <1>2, <2>1, <2>3
  <1>6. IsFiniteSet(streams)'
    BY <1>1 DEF TurnInv
  <1>7. streams' = {} => \A h \in Hosts : clients'[h] = {}
    BY <1>1 DEF TurnInv
  <1>8. QED
    BY <1>3, <1>4, <1>5, <1>6, <1>7 DEF TurnInv

(* The sinks and the clients of a host find their ports in use only when   *)
(* the sockets of flows have come to the ephemeral ports, or the sinks.    *)
LEMMA StartStreamsTurn ==
    ASSUME IInv, TurnInv, NEW h \in Hosts, StartStreams(h)
    PROVE  TurnInv'
  <1> DEFINE free == {port \in Ephemeral : ~PortBusy(h, port)}
  <1>1. /\ UNCHANGED <<app, portMap, streams>> /\ streams # {}
        /\ failure' = "bind" =>
                \/ Cardinality(free) < NumHosts - 1
                \/ \E s \in streams : s.to = h /\ (PortBusy(h, s.listensOn) \/ s.listensOn \in Ephemeral)
    BY StartStreamsShape DEF IInv, PortsInv
  <1>2. \A g \in Hosts : Used(g)' = Used(g) /\ (InTurn(g) => InTurn(g)')
    BY <1>1, SameTurn
  <1>3. \A g \in Hosts : Used(g)' <= PortRange => InTurn(g)'
    BY <1>2 DEF TurnInv
  <1>4. AppsFresh' /\ IsFiniteSet(streams)' /\ streams' # {}
    BY <1>1 DEF TurnInv, AppsFresh
  <1>5. BindFailsOnlyWhenPortsRunOut'
    <2> SUFFICES ASSUME failure' = "bind" PROVE \E g \in Hosts : Used(g)' > PortsApart
      BY <1>1 DEF BindFailsOnlyWhenPortsRunOut, PortsApart, Used, AppsOf, StreamsTo
    <2>1. Used(h) \in Nat /\ PortsApart \in Nat /\ PortsApart <= PortRange /\ PortRange \in Nat
      BY UsedType, PortsApartType, PortRangeType DEF TurnInv
    <2>2. ASSUME Used(h) <= PortsApart PROVE FALSE
      <3>1. InTurn(h) /\ FirstPorts(Used(h)) \cap Ephemeral = {}
        BY <1>1, <2>1, <2>2, PortsApartType DEF TurnInv
      <3>2. CASE Cardinality(free) < NumHosts - 1
        <4>1. free = Ephemeral
          <5>1. ASSUME NEW port \in Ephemeral, PortBusy(h, port) PROVE FALSE
            <6>1. PICK b \in Apps : app[b].host = h /\ app[b].port = port
              BY <5>1 DEF PortBusy
            <6>2. b \in AppsOf(h)
              BY <6>1 DEF AppsOf
            <6>3. QED
              BY <3>1, <6>1, <6>2 DEF InTurn
          <5>2. QED
            BY <5>1
        <4>2. Cardinality(Ephemeral) >= NumHosts - 1
          <5>1. /\ FirstEphemeral \in Int /\ LastPort \in Int /\ FirstEphemeral <= LastPort
                /\ NumHosts - 1 <= LastPort - FirstEphemeral + 1
            BY ExperimentAssumption
          <5>2. Cardinality(FirstEphemeral .. LastPort) = LastPort - FirstEphemeral + 1
            BY <5>1, FS_Interval
          <5>3. QED
            BY <5>1, <5>2, FlowAssumption DEF Ephemeral
        <4> HIDE DEF free
        <4>3. Cardinality(free) >= NumHosts - 1 /\ Cardinality(free) \in Int
          <5>1. IsFiniteSet(Ephemeral)
            BY FS_Interval, ExperimentAssumption DEF Ephemeral
          <5>2. QED
            BY <4>1, <4>2, <5>1, FS_CardinalityType
        <4>4. QED
          BY <3>2, <4>3, FlowAssumption
      <3>3. CASE \E s \in streams : s.to = h /\ (PortBusy(h, s.listensOn) \/ s.listensOn \in Ephemeral)
        <4>1. PICK s \in StreamsTo(h) : PortBusy(h, s.listensOn) \/ s.listensOn \in Ephemeral
          BY <3>3 DEF StreamsTo
        <4>2. s.listensOn \notin Ephemeral
          BY <3>1 DEF InTurn
        <4>3. PICK b \in Apps : app[b].host = h /\ app[b].port = s.listensOn
          BY <4>1, <4>2 DEF PortBusy
        <4>4. b \in AppsOf(h)
          BY <4>3 DEF AppsOf
        <4>5. QED
          BY <3>1, <4>3, <4>4 DEF InTurn
      <3>4. QED
        BY <1>1, <3>2, <3>3
    <2>3. QED
      BY <1>2, <2>1, <2>2
  <1>6. QED
    BY <1>3, <1>4, <1>5 DEF TurnInv

(* Every process takes the ports of the streams to h in the order of their *)
(* sources.                                                                *)
LEMMA StreamTurn ==
    ASSUME IInv, TurnInv, DoAllToAllTcp
    PROVE  TurnInv'
  <1>1. /\ phase = "setup" /\ streams = {} /\ UNCHANGED <<app, failure, clients>>
        /\ portMap' = [p \in Procs |-> [h \in Hosts |-> PortAfterCalls(portMap[p][h], NumHosts - 1)]]
    BY DEF DoAllToAllTcp, appVars
  <1>2. PICK owner \in [Hosts -> Procs] :
            /\ \A h \in Hosts : IsLocal(owner[h], h)
            /\ streams' = {[from |-> ij[1], to |-> ij[2],
                            sentTo |-> StreamPort(owner[ij[1]], ij),
                            listensOn |-> StreamPort(owner[ij[2]], ij)] : ij \in Pair}
    BY DEF DoAllToAllTcp
  <1>3. \A a \in Apps : app[a] = NoApp
    <2> SUFFICES ASSUME NEW a \in Apps PROVE app[a] = NoApp
      OBVIOUS
    <2>1. PICK p \in Procs, n \in 1 .. MaxNumber : a = <<p, n>>
      BY ExperimentAssumption DEF AppIds
    <2>2. currentIdx[p] = 0
      BY <1>1 DEF IInv, SchedulerInv, NothingYet
    <2>3. app[a].step = "absent"
      BY <2>1, <2>2 DEF IInv, Owned
    <2>4. QED
      BY <2>3 DEF TurnInv, AppsFresh
  <1>4. ASSUME NEW h \in Hosts
        PROVE  /\ AppsOf(h) = {} /\ AppsOf(h)' = {} /\ Used(h) = 0
               /\ \A p \in Procs : IsLocal(p, h) => portMap[p][h] = StartPort
    <2>1. AppsOf(h) = {} /\ Used(h) = 0
      BY <1>1, <1>3, NothingUsed
    <2>2. AppsOf(h)' = {}
      BY <1>1, <2>1 DEF AppsOf
    <2>3. InTurn(h)
      BY <2>1, PortRangeType DEF TurnInv
    <2>4. QED
      BY <2>1, <2>2, <2>3, PortRangeType DEF InTurn
  <1> DEFINE S(h) == Hosts \ {h}
             Stream(ij) == [from |-> ij[1], to |-> ij[2],
                            sentTo |-> StreamPort(owner[ij[1]], ij),
                            listensOn |-> StreamPort(owner[ij[2]], ij)]
  <1>5. IsFiniteSet(Hosts) /\ Cardinality(Hosts) = NumHosts
    <2>1. NumHosts - 1 \in Int /\ NumHosts \in Nat /\ NumHosts >= 1
      BY FlowAssumption
    <2>2. QED
      BY <2>1, FS_Interval DEF Hosts
  <1>6. IsFiniteSet(streams')
    <2>1. IsFiniteSet(Pair)
      <3>1. Pair \in SUBSET (Hosts \X Hosts)
        BY DEF Pair
      <3>2. QED
        BY <1>5, <3>1, FS_Product, FS_Subset
    <2> DEFINE f == [ij \in Pair |-> Stream(ij)]
    <2>2. streams' = {Stream(ij) : ij \in Pair}
      BY <1>2
    <2> HIDE DEF Stream
    <2>3. f \in Surjection(Pair, streams')
      BY <2>2, Fun_IsSurj
    <2>4. QED
      BY <2>1, <2>3, FS_Surjection
  <1>7. ASSUME NEW h \in Hosts, NEW i \in S(h)
        PROVE  <<i, h>> \in Pair /\ Stream(<<i, h>>) \in streams' /\ Stream(<<i, h>>).to = h
               /\ Stream(<<i, h>>).from = i
    <2>1. <<i, h>> \in Pair
      BY DEF Pair
    <2>2. QED
      BY <1>2, <2>1
  <1>8. ASSUME NEW h \in Hosts, NEW s \in StreamsTo(h)'
        PROVE  \E i \in S(h) : s = Stream(<<i, h>>)
    <2>1. PICK ij \in Pair : s = Stream(ij)
      BY <1>2 DEF StreamsTo
    <2>2. ij[2] = h /\ ij[1] \in S(h) /\ ij = <<ij[1], h>>
      BY <2>1 DEF StreamsTo, Pair
    <2> HIDE DEF Stream
    <2>3. QED
      BY <2>1, <2>2
  <1>9. ASSUME NEW h \in Hosts, NEW i \in S(h)
        PROVE  Stream(<<i, h>>).listensOn
                    = PortAfterCalls(StartPort, Cardinality({m \in S(h) : m < i}))
    <2>1. <<i, h>> \in Pair /\ owner[h] \in Procs /\ IsLocal(owner[h], h)
      BY <1>2, <1>7
    <2>2. portMap[owner[h]][h] = StartPort
      BY <1>4, <2>1
    <2>3. {m \in Hosts : m < i /\ m # h} = {m \in S(h) : m < i}
      OBVIOUS
    <2>4. CallsBefore(<<i, h>>) = Cardinality({m \in S(h) : m < i})
      BY <2>3 DEF CallsBefore
    <2>5. Stream(<<i, h>>).listensOn = PortAfterCalls(portMap[owner[h]][h], CallsBefore(<<i, h>>))
      BY DEF StreamPort
    <2>6. QED
      BY <2>2, <2>4, <2>5
  <1> HIDE DEF Stream
  <1>10. ASSUME NEW h \in Hosts
         PROVE  /\ IsFiniteSet(S(h)) /\ S(h) \subseteq Int /\ Cardinality(S(h)) = NumHosts - 1
                /\ Used(h)' = NumHosts - 1
    <2>1. IsFiniteSet(S(h)) /\ S(h) \subseteq Int /\ Cardinality(S(h)) = NumHosts - 1
      <3>1. \A i \in Hosts : i \in Int
        BY FlowAssumption DEF Hosts
      <3>2. QED
        BY <1>5, <3>1, FS_RemoveElement
    <2> DEFINE T == S(h)
    <2>2. T = S(h)
      OBVIOUS
    <2> HIDE DEF S, T
    <2> DEFINE g == [i \in T |-> Stream(<<i, h>>)]
    <2>3. g \in Bijection(T, StreamsTo(h)')
      <3>1. \A i \in T : Stream(<<i, h>>) \in StreamsTo(h)'
        BY <1>7, <2>2 DEF StreamsTo
      <3>2. g \in [T -> StreamsTo(h)']
        BY <3>1
      <3>3. \A i, j \in T : g[i] = g[j] => i = j
        BY <1>7, <2>2
      <3>4. \A s \in StreamsTo(h)' : \E i \in T : g[i] = s
        BY <1>8, <2>2
      <3> HIDE DEF g
      <3>5. QED
        BY <3>2, <3>3, <3>4, Fun_IsBij
    <2>4. Cardinality(StreamsTo(h)') = NumHosts - 1
      <3>1. ExistsBijection(T, StreamsTo(h)')
        BY <2>3 DEF ExistsBijection
      <3>2. QED
        BY <2>1, <2>2, <3>1, FS_Bijection
    <2>5. Used(h)' = 0 + (NumHosts - 1)
      BY <1>4, <2>4, FS_EmptySet DEF Used
    <2>6. QED
      BY <2>1, <2>5, FlowAssumption
  <1>11. ASSUME NEW h \in Hosts, Used(h)' <= PortRange
         PROVE  InTurn(h)'
    <2>1. NumHosts - 1 \in Nat /\ NumHosts - 1 <= PortRange
      <3>1. Used(h)' = NumHosts - 1
        BY <1>10
      <3>2. NumHosts - 1 \in Nat
        BY FlowAssumption
      <3>3. QED
        BY <1>11, <3>1, <3>2
    <2>2. \A p \in Procs : IsLocal(p, h) =>
              portMap'[p][h] = StartPort + (IF NumHosts - 1 < PortRange THEN NumHosts - 1 ELSE 0)
      <3> SUFFICES ASSUME NEW p \in Procs, IsLocal(p, h)
                   PROVE  portMap'[p][h] = StartPort + (IF NumHosts - 1 < PortRange THEN NumHosts - 1 ELSE 0)
        OBVIOUS
      <3>1. portMap'[p][h] = PortAfterCalls(StartPort, NumHosts - 1)
        BY <1>1, <1>4
      <3> DEFINE k == NumHosts - 1
      <3>2. k \in Nat /\ k <= PortRange
        BY <2>1
      <3> HIDE DEF k
      <3>3. PortAfterCalls(StartPort, k) = StartPort + (IF k < PortRange THEN k ELSE 0)
        <4>1. PortAfterCalls(StartPort + (IF 0 < PortRange THEN 0 ELSE 0), k)
                = StartPort + (IF 0 + k < PortRange THEN 0 + k ELSE 0)
          <5>1. 0 \in Nat /\ 0 + k <= PortRange /\ 0 < PortRange
            BY <3>2, PortRangeType
          <5>2. QED
            BY <3>2, <5>1, CountOn, Zenon
        <4>2. StartPort + (IF 0 < PortRange THEN 0 ELSE 0) = StartPort /\ 0 + k = k
          BY <3>2, PortRangeType
        <4>3. QED
          BY <4>1, <4>2
      <3>4. QED
        BY <3>1, <3>3 DEF k
    <2>3. \A s \in StreamsTo(h)' : s.listensOn \in FirstPorts(NumHosts - 1)
      <3> SUFFICES ASSUME NEW s \in StreamsTo(h)' PROVE s.listensOn \in FirstPorts(NumHosts - 1)
        OBVIOUS
      <3>1. PICK i \in S(h) : s = Stream(<<i, h>>)
        BY <1>8
      <3> DEFINE k == Cardinality({m \in S(h) : m < i})
      <3>2. k \in Nat /\ k < NumHosts - 1
        BY <1>10, Rank
      <3>3. s.listensOn = PortAfterCalls(StartPort, k)
        BY <1>9, <3>1
      <3> HIDE DEF k
      <3>4. s.listensOn = StartPort + k
        BY <2>1, <3>2, <3>3, PortRangeType DEF PortAfterCalls
      <3>5. QED
        BY <2>1, <3>2, <3>4, PortRangeType DEF FirstPorts
    <2>4. QED
      BY <1>4, <1>10, <2>2, <2>3 DEF InTurn, IsLocal, FirstPorts
  <1>12. BindFailsOnlyWhenPortsRunOut'
    <2>1. failure # "bind"
      <3>1. \A h \in Hosts : ~(Used(h) > PortRange)
        BY <1>4, PortRangeType
      <3>2. QED
        BY <1>1, <3>1 DEF TurnInv, BindFailsOnlyWhenPortsRunOut, PortsApart, Used, AppsOf, StreamsTo
    <2>2. QED
      BY <1>1, <2>1 DEF BindFailsOnlyWhenPortsRunOut
  <1>13. AppsFresh'
    BY <1>1 DEF TurnInv, AppsFresh
  <1>14. \A h \in Hosts : clients'[h] = {}
    BY <1>1 DEF TurnInv
  <1>15. QED
    BY <1>6, <1>11, <1>12, <1>13, <1>14 DEF TurnInv

(* What dispatchAndSchedule adds to host h: an application for each of its *)
(* flows, with the ports that follow.                                      *)
LEMMA DispatchTurn ==
    ASSUME IInv, TurnInv, NEW p \in Procs, Dispatch(p)
    PROVE  TurnInv'
  <1> DEFINE Src(n) == dispatched'[p][n].flow.src
             S(h) == {n \in Taken(p) : Src(n) = h}
  <1>1. /\ DispatchAndSchedule(p) /\ UNCHANGED <<failure, streams, clients>> /\ failure = "none"
    BY DEF Dispatch, Running
  <1>2. \A a \in Apps :
            /\ a[1] = p /\ a[2] \in Taken(p) =>
                    /\ app'[a].step = "installed" /\ ~app'[a].bound
                    /\ app'[a].host = Src(a[2]) /\ app'[a].port = PortOfFlow(p, a[2])
            /\ ~(a[1] = p /\ a[2] \in Taken(p)) => app'[a] = app[a]
    BY DEF Dispatch, NoApp
  <1>3. ASSUME NEW n \in Taken(p)
        PROVE  /\ <<p, n>> \in Apps /\ app[<<p, n>>] = NoApp
               /\ Src(n) \in Hosts /\ IsLocal(p, Src(n)) /\ n \in Int
    <2>1. dispatched'[p][n].flow \in Line4 /\ n \in 1 .. numFlows /\ n > currentIdx[p]
      BY <1>1, TakenType
    <2>2. n \in 1 .. MaxNumber /\ currentIdx[p] \in Int
      BY <2>1, NumFlowsType, ExperimentAssumption DEF IInv, SchedulerInv, SchedulerTypeOK
    <2>3. app[<<p, n>>].step = "absent"
      BY <2>1, <2>2 DEF IInv, Owned
    <2>4. <<p, n>> \in Apps
      BY <2>2, ExperimentAssumption DEF AppIds
    <2>5. Src(n) \in Hosts
      BY <2>1 DEF Line4
    <2>6. IsLocal(p, Src(n))
      BY DEF Taken
    <2>7. QED
      BY <2>2, <2>3, <2>4, <2>5, <2>6 DEF TurnInv, AppsFresh
  <1>4. ASSUME NEW h \in Hosts, NEW n \in S(h)
        PROVE  /\ <<p, n>> \in AppsOf(h)' /\ <<p, n>> \notin AppsOf(h)
               /\ app'[<<p, n>>].port = PortOfFlow(p, n) /\ IsLocal(p, h)
    <2>1. /\ <<p, n>> \in Apps /\ app[<<p, n>>] = NoApp /\ Src(n) = h /\ n \in Taken(p)
          /\ <<p, n>>[1] = p /\ <<p, n>>[2] = n
          /\ IsLocal(p, h)
      BY <1>3
    <2>2. NoApp.host # h
      BY FlowAssumption DEF NoApp, Hosts
    <2>3. app'[<<p, n>>].host = h /\ app'[<<p, n>>].port = PortOfFlow(p, n)
      BY <1>2, <2>1
    <2>4. QED
      BY <2>1, <2>2, <2>3 DEF AppsOf
  <1>5. ASSUME NEW h \in Hosts, NEW a \in AppsOf(h)
        PROVE  a \in AppsOf(h)' /\ app'[a] = app[a]
    <2>1. a \in Apps /\ app[a].host = h /\ NoApp.host # h
      BY FlowAssumption DEF NoApp, Hosts, AppsOf
    <2>2. a = <<a[1], a[2]>>
      BY <2>1, ExperimentAssumption DEF AppIds
    <2>3. ~(a[1] = p /\ a[2] \in Taken(p))
      BY <1>3, <2>1, <2>2
    <2>4. app'[a] = app[a]
      BY <1>2, <2>1, <2>3
    <2>5. QED
      BY <2>1, <2>4 DEF AppsOf
  <1>6. ASSUME NEW h \in Hosts, NEW a \in AppsOf(h)', a \notin AppsOf(h)
        PROVE  \E n \in S(h) : a = <<p, n>>
    <2>1. a \in Apps /\ app'[a].host = h /\ app[a].host # h
      BY <1>6 DEF AppsOf
    <2>2. a = <<a[1], a[2]>>
      BY <2>1, ExperimentAssumption DEF AppIds
    <2>3. a[1] = p /\ a[2] \in Taken(p) /\ Src(a[2]) = h
      BY <1>2, <2>1
    <2>4. QED
      BY <2>2, <2>3
  <1>7. ASSUME NEW h \in Hosts
        PROVE  /\ IsFiniteSet(S(h)) /\ S(h) \subseteq Int /\ Cardinality(S(h)) \in Nat
               /\ Used(h)' = Used(h) + Cardinality(S(h))
    <2>1. IsFiniteSet(S(h)) /\ Cardinality(S(h)) \in Nat
      <3>1. currentIdx[p] + 1 \in Int /\ currentIdx'[p] \in Int
        BY <1>1, DispatchInv, ExperimentAssumption DEF IInv, SchedulerInv, SchedulerTypeOK
      <3>2. IsFiniteSet(currentIdx[p] + 1 .. currentIdx'[p])
        BY <3>1, FS_Interval
      <3>3. S(h) \in SUBSET (currentIdx[p] + 1 .. currentIdx'[p])
        BY DEF Taken, NewFlows
      <3> HIDE DEF S
      <3>4. QED
        BY <3>2, <3>3, FS_Subset, FS_CardinalityType
    <2>2. S(h) \subseteq Int
      BY <1>3
    <2> DEFINE T == S(h)
    <2>3. T = S(h)
      OBVIOUS
    <2> DEFINE N == {<<p, n>> : n \in T}
               g == [n \in T |-> <<p, n>>]
    <2> HIDE DEF S, T
    <2>4. g \in Bijection(T, N)
      <3>1. g \in [T -> N] /\ \A m, n \in T : g[m] = g[n] => m = n
        OBVIOUS
      <3>2. \A a \in N : \E n \in T : g[n] = a
        OBVIOUS
      <3> HIDE DEF g, N
      <3>3. QED
        BY <3>1, <3>2, Fun_IsBij
    <2>5. IsFiniteSet(N) /\ Cardinality(N) = Cardinality(T)
      <3> HIDE DEF g, N
      <3>1. ExistsBijection(T, N)
        BY <2>4 DEF ExistsBijection
      <3>2. QED
        BY <2>1, <2>3, <3>1, FS_Bijection
    <2>6. AppsOf(h)' = AppsOf(h) \cup N /\ AppsOf(h) \cap N = {}
      BY <1>4, <1>5, <1>6, <2>3
    <2>7. Cardinality(AppsOf(h)') = Cardinality(AppsOf(h)) + Cardinality(T)
      <3> HIDE DEF N
      <3>1. IsFiniteSet(AppsOf(h)) /\ Cardinality(AppsOf(h)) \in Nat
        BY FiniteApps
      <3>2. Cardinality(AppsOf(h) \cup N)
                = Cardinality(AppsOf(h)) + Cardinality(N) - Cardinality(AppsOf(h) \cap N)
        BY <2>5, <3>1, FS_Union
      <3>3. Cardinality(AppsOf(h) \cap N) = 0
        BY <2>6, FS_EmptySet
      <3>4. QED
        BY <2>1, <2>3, <2>5, <2>6, <3>1, <3>2, <3>3
    <2>8. StreamsTo(h)' = StreamsTo(h) /\ Cardinality(StreamsTo(h)) \in Nat
      BY <1>1, FiniteStreams DEF StreamsTo, TurnInv
    <2>9. QED
      BY <2>1, <2>2, <2>3, <2>7, <2>8, FiniteApps DEF Used
  <1>8. ASSUME NEW h \in Hosts, Used(h)' <= PortRange
        PROVE  InTurn(h)'
    <2> DEFINE u == Used(h)
               k == Cardinality(S(h))
    <2>1. /\ u \in Nat /\ k \in Nat /\ u + k <= PortRange /\ Used(h)' = u + k
      BY <1>7, <1>8, UsedType DEF TurnInv
    <2>2. InTurn(h)
      BY <2>1, PortRangeType DEF TurnInv
    <2>3. StreamsTo(h)' = StreamsTo(h)
      BY <1>1 DEF StreamsTo
    <2>4. k # 0 => u < PortRange
      BY <2>1, PortRangeType
    <2>5. ASSUME NEW n \in S(h)
          PROVE  app'[<<p, n>>].port = StartPort + u + Cardinality({m \in S(h) : m < n})
                 /\ Cardinality({m \in S(h) : m < n}) \in Nat
                 /\ Cardinality({m \in S(h) : m < n}) < k
      <3> DEFINE c == Cardinality({m \in S(h) : m < n})
      <3>1. c \in Nat /\ c < k
        BY <1>7, Rank
      <3>2. portMap[p][h] = StartPort + u
        <4>1. IsLocal(p, h)
          BY <1>4
        <4>2. portMap[p][h] = StartPort + (IF u < PortRange THEN u ELSE 0)
          BY <2>2, <4>1 DEF InTurn
        <4>3. u < PortRange
          <5> HIDE DEF c, u, k
          <5>1. QED
            BY <2>1, <2>4, <3>1
        <4> HIDE DEF c, u, k
        <4>4. QED
          BY <4>2, <4>3
      <3>3. {m \in Taken(p) : m < n /\ Src(m) = h} = {m \in S(h) : m < n} /\ Src(n) = h
        OBVIOUS
      <3>4. PortOfFlow(p, n) = PortAfterCalls(StartPort + u, c)
        BY <3>2, <3>3 DEF PortOfFlow
      <3>5. app'[<<p, n>>].port = PortOfFlow(p, n)
        BY <1>4
      <3> HIDE DEF c, u, k
      <3>6. PortAfterCalls(StartPort + u, c) = StartPort + u + c
        BY <2>1, <3>1, PortRangeType DEF PortAfterCalls
      <3>7. QED
        BY <3>1, <3>4, <3>5, <3>6 DEF c
    <2>6. ASSUME NEW m \in S(h), NEW n \in S(h), app'[<<p, m>>].port = app'[<<p, n>>].port
          PROVE  m = n
      <3> DEFINE Before(i) == Cardinality({j \in S(h) : j < i})
      <3>1. /\ Before(m) \in Nat /\ Before(n) \in Nat
            /\ app'[<<p, m>>].port = StartPort + u + Before(m)
            /\ app'[<<p, n>>].port = StartPort + u + Before(n)
        BY <2>5
      <3>2. m < n => Before(m) < Before(n)
        BY <1>7, Rank
      <3>3. n < m => Before(n) < Before(m)
        BY <1>7, Rank
      <3>4. m \in Int /\ n \in Int
        BY <1>7
      <3> DEFINE x == Before(m)
                 y == Before(n)
      <3> HIDE DEF x, y, u
      <3>5. x = y
        <4>1. x \in Nat /\ y \in Nat /\ StartPort + u + x = StartPort + u + y
          BY <2>6, <3>1 DEF x, y
        <4>2. QED
          BY <2>1, <4>1, PortRangeType
      <3>6. ~(x < y) /\ ~(y < x)
        BY <3>1, <3>5 DEF x
      <3>7. ~(m < n) /\ ~(n < m)
        BY <3>2, <3>3, <3>6 DEF x, y
      <3>8. QED
        BY <3>4, <3>7
    <2>7. \A q \in Procs : IsLocal(q, h) =>
              portMap'[q][h] = StartPort + (IF u + k < PortRange THEN u + k ELSE 0)
      <3> SUFFICES ASSUME NEW q \in Procs, IsLocal(q, h)
                   PROVE  portMap'[q][h] = StartPort + (IF u + k < PortRange THEN u + k ELSE 0)
        OBVIOUS
      <3>1. portMap[q][h] = StartPort + (IF u < PortRange THEN u ELSE 0)
        BY <2>2 DEF InTurn
      <3>2. portMap \in [Procs -> [Hosts -> StartPort .. LastPort]]
        BY DEF IInv, PortsInv
      <3>3. CASE q = p
        <4>1. portMap'[q][h] = PortAfterCalls(portMap[q][h], k)
          <5>1. portMap' = [portMap EXCEPT ![p] = [i \in Hosts |->
                                PortAfterCalls(@[i], Cardinality(S(i)))]]
            BY DEF Dispatch
          <5> HIDE DEF S
          <5>2. QED
            BY <3>2, <3>3, <5>1
        <4> HIDE DEF u, k
        <4>2. QED
          BY <2>1, <2>4, <3>1, <4>1, CountOn
      <3>4. CASE q # p
        <4>1. S(h) = {}
          <5>1. \A n \in S(h) : IsLocal(p, h)
            BY <1>4
          <5>2. ~IsLocal(p, h)
            BY <3>4 DEF IsLocal
          <5>3. QED
            BY <5>1, <5>2
        <4>2. k = 0
          <5> HIDE DEF S
          <5>1. QED
            BY <4>1, FS_EmptySet
        <4>3. portMap'[q][h] = portMap[q][h]
          BY <3>2, <3>4 DEF Dispatch
        <4> HIDE DEF u, k
        <4>4. QED
          BY <2>1, <3>1, <4>2, <4>3
      <3>5. QED
        BY <3>3, <3>4
    (* An application of h is an old one, or one of those just started.    *)
    <2>8. ASSUME NEW a \in AppsOf(h)'
          PROVE  \/ a \in AppsOf(h) /\ app'[a].port = app[a].port
                    /\ app[a].port \in StartPort .. StartPort + u - 1
                 \/ \E n \in S(h) : a = <<p, n>> /\ app'[a].port \in StartPort + u .. StartPort + u + k - 1
      <3>1. CASE a \in AppsOf(h)
        BY <1>5, <2>2, <3>1 DEF InTurn, FirstPorts
      <3>2. CASE a \notin AppsOf(h)
        <4>1. PICK n \in S(h) : a = <<p, n>>
          BY <1>6, <3>2
        <4> DEFINE c == Cardinality({m \in S(h) : m < n})
        <4>2. app'[a].port = StartPort + u + c /\ c \in Nat /\ c < k
          BY <2>5, <4>1
        <4> HIDE DEF c, u, k
        <4>3. app'[a].port \in StartPort + u .. StartPort + u + k - 1
          BY <2>1, <4>2, PortRangeType
        <4>4. QED
          BY <4>1, <4>3
      <3>3. QED
        BY <3>1, <3>2
    <2>9. \A s \in StreamsTo(h) : s.listensOn \in StartPort .. StartPort + u - 1
      BY <2>2 DEF InTurn, FirstPorts
    <2>10. \A a \in AppsOf(h)' : app'[a].port \in StartPort .. StartPort + (u + k) - 1
      <3> SUFFICES ASSUME NEW a \in AppsOf(h)'
                   PROVE  app'[a].port \in StartPort .. StartPort + (u + k) - 1
        OBVIOUS
      <3> HIDE DEF u, k
      <3>1. QED
        BY <2>1, <2>8, PortRangeType
    <2>11. \A s \in StreamsTo(h)' : s.listensOn \in StartPort .. StartPort + (u + k) - 1
      <3> HIDE DEF u, k
      <3>1. QED
        BY <2>1, <2>3, <2>9, PortRangeType
    <2>12. \A a, b \in AppsOf(h)' : app'[a].port = app'[b].port => a = b
      <3> SUFFICES ASSUME NEW a \in AppsOf(h)', NEW b \in AppsOf(h)', app'[a].port = app'[b].port
                   PROVE  a = b
        OBVIOUS
      <3>1. CASE a \in AppsOf(h) /\ b \in AppsOf(h)
        BY <1>5, <2>2, <3>1 DEF InTurn
      <3>2. CASE a \notin AppsOf(h) /\ b \notin AppsOf(h)
        <4>1. PICK m \in S(h) : a = <<p, m>>
          BY <1>6, <3>2
        <4>2. PICK n \in S(h) : b = <<p, n>>
          BY <1>6, <3>2
        <4>3. m = n
          BY <2>6, <4>1, <4>2
        <4>4. QED
          BY <4>1, <4>2, <4>3
      <3>3. CASE ~(a \in AppsOf(h) <=> b \in AppsOf(h))
        <4>1. /\ a \notin AppsOf(h) => app'[a].port \in StartPort + u .. StartPort + u + k - 1
              /\ b \notin AppsOf(h) => app'[b].port \in StartPort + u .. StartPort + u + k - 1
              /\ a \in AppsOf(h) => app'[a].port \in StartPort .. StartPort + u - 1
              /\ b \in AppsOf(h) => app'[b].port \in StartPort .. StartPort + u - 1
          BY <1>4, <2>8
        <4> HIDE DEF u, k
        <4>2. QED
          BY <2>1, <3>3, <4>1, PortRangeType
      <3>4. QED
        BY <3>1, <3>2, <3>3
    <2>13. \A a \in AppsOf(h)', s \in StreamsTo(h)' : app'[a].port # s.listensOn
      <3> SUFFICES ASSUME NEW a \in AppsOf(h)', NEW s \in StreamsTo(h) PROVE app'[a].port # s.listensOn
        BY <2>3
      <3>1. CASE a \in AppsOf(h)
        BY <1>5, <2>2, <3>1 DEF InTurn
      <3>2. CASE a \notin AppsOf(h)
        <4>1. /\ app'[a].port \in StartPort + u .. StartPort + u + k - 1
              /\ s.listensOn \in StartPort .. StartPort + u - 1
          BY <2>8, <2>9, <3>2
        <4> HIDE DEF u, k
        <4>2. QED
          BY <2>1, <4>1, PortRangeType
      <3>3. QED
        BY <3>1, <3>2
    <2> HIDE DEF u, k, S
    <2>14. QED
      BY <2>1, <2>7, <2>10, <2>11, <2>12, <2>13 DEF InTurn, IsLocal, FirstPorts
  <1>9. AppsFresh'
    <2> SUFFICES ASSUME NEW a \in Apps
                 PROVE  /\ app'[a].step = "absent" => app'[a] = NoApp
                        /\ app'[a].step # "absent" => app'[a].host \in Hosts
                        /\ app'[a].step = "installed" => ~app'[a].bound
      BY DEF AppsFresh
    <2>1. CASE a[1] = p /\ a[2] \in Taken(p)
      BY <1>2, <1>3, <2>1
    <2>2. CASE ~(a[1] = p /\ a[2] \in Taken(p))
      BY <1>2, <2>2 DEF TurnInv, AppsFresh
    <2>3. QED
      BY <2>1, <2>2
  <1>10. BindFailsOnlyWhenPortsRunOut'
    BY <1>1 DEF BindFailsOnlyWhenPortsRunOut
  <1>11. IsFiniteSet(streams)' /\ (streams' = {} => \A h \in Hosts : clients'[h] = {})
    BY <1>1 DEF TurnInv
  <1>12. QED
    BY <1>8, <1>9, <1>10, <1>11 DEF TurnInv

(* The ports of a host are taken in turn, so that neither StartApplication *)
(* nor a stream of --scream finds its port in use before the host has used *)
(* up every one of them, or with --scream those before the ephemeral ones. *)
THEOREM BindFailsOnlyWhenPortsRunOutCorrect == Spec => []BindFailsOnlyWhenPortsRunOut
  <1>1. Init => IInv /\ TurnInv
    BY InitInv, TurnInit
  <1>2. IInv /\ TurnInv /\ [Next]_vars => IInv' /\ TurnInv'
    <2> SUFFICES ASSUME IInv, TurnInv, [Next]_vars PROVE IInv' /\ TurnInv'
      OBVIOUS
    <2>1. IInv'
      BY NextKeeps
    <2>2. CASE DoAllToAllTcp
      BY <2>1, <2>2, StreamTurn
    <2>3. CASE SetUp \/ UNCHANGED vars
      <3>1. UNCHANGED <<app, failure, portMap, streams, clients>>
        BY <2>3 DEF SetUp, vars, appVars
      <3>2. QED
        BY <2>1, <3>1, SetUpTurn
    <2>4. CASE \E p \in Procs : Dispatch(p)
      BY <2>1, <2>4, DispatchTurn
    <2>5. CASE \E a \in Apps : AppEvent(a)
      BY <2>1, <2>5, AppEventTurn
    <2>6. CASE \E h \in Hosts : StartStreams(h)
      BY <2>1, <2>6, StartStreamsTurn
    <2>7. QED
      BY <2>2, <2>3, <2>4, <2>5, <2>6 DEF Next
  <1>3. TurnInv => BindFailsOnlyWhenPortsRunOut
    BY DEF TurnInv
  <1>4. QED
    BY <1>1, <1>2, <1>3, PTL DEF Spec

---------------------------------------------------------------------------
(* The promise of FlowPromise, as far as safety goes.                      *)

Waiting == {n \in 1 .. numFlows : ~Started(n)}
Active == {n \in 1 .. numFlows : StillActive(n)}
Finished == {n \in 1 .. numFlows : Closed(n)}
Promised == <<Waiting, Active, Finished, Over>>

(* A flow has an application on one process only.                          *)
LEMMA OneOwner ==
    ASSUME IInv, NEW p \in Procs, NEW q \in Procs, NEW n \in 1 .. MaxNumber,
           IsLocal(p, Line(n).src), app[<<q, n>>].step # "absent"
    PROVE  p = q
  BY DEF IInv, Owned, IsLocal

(* A step that leaves the applications and numFlows alone.                 *)
LEMMA SameApps ==
    ASSUME UNCHANGED <<app, numFlows>>
    PROVE  Waiting' = Waiting /\ Active' = Active /\ Finished' = Finished
  BY DEF Waiting, Active, Finished, Started, StillActive, Closed

LEMMA DispatchPromise ==
    ASSUME IInv, NEW p \in Procs, Dispatch(p)
    PROVE  /\ Taken(p) \subseteq Waiting
           /\ Waiting' = Waiting \ Taken(p)
           /\ Active' = Active \cup Taken(p)
           /\ Finished' = Finished
  <1>1. DispatchAndSchedule(p) /\ UNCHANGED numFlows
    BY DEF Dispatch, DispatchAndSchedule
  <1>2. \A q \in Procs, n \in 1 .. MaxNumber :
            /\ q = p /\ n \in Taken(p) => app'[<<q, n>>].step = "installed"
            /\ ~(q = p /\ n \in Taken(p)) => app'[<<q, n>>] = app[<<q, n>>]
    <2> SUFFICES ASSUME NEW q \in Procs, NEW n \in 1 .. MaxNumber
                 PROVE  /\ q = p /\ n \in Taken(p) => app'[<<q, n>>].step = "installed"
                        /\ ~(q = p /\ n \in Taken(p)) => app'[<<q, n>>] = app[<<q, n>>]
      OBVIOUS
    <2>1. <<q, n>> \in Apps /\ <<q, n>>[1] = q /\ <<q, n>>[2] = n
      BY ExperimentAssumption DEF AppIds
    <2> DEFINE fresh == [NoApp EXCEPT !.step = "installed",
                               !.host = dispatched'[p][n].flow.src,
                               !.port = PortOfFlow(p, n),
                               !.size = dispatched'[p][n].flow.size]
    <2>2. app'[<<q, n>>] = IF q = p /\ n \in Taken(p) THEN fresh ELSE app[<<q, n>>]
      BY <2>1 DEF Dispatch
    <2>3. fresh.step = "installed"
      BY DEF NoApp
    <2> HIDE DEF fresh
    <2>4. QED
      BY <2>2, <2>3
  <1>3. \A n \in Taken(p) : /\ n \in 1 .. numFlows /\ n \in 1 .. MaxNumber
                             /\ \A q \in Procs : app[<<q, n>>].step = "absent"
    <2> SUFFICES ASSUME NEW n \in Taken(p)
                 PROVE  /\ n \in 1 .. numFlows /\ n \in 1 .. MaxNumber
                        /\ \A q \in Procs : app[<<q, n>>].step = "absent"
      OBVIOUS
    <2>1. /\ n \in 1 .. numFlows /\ n > currentIdx[p] /\ IsLocal(p, Line(n).src)
          /\ n \in 1 .. MaxNumber
      BY <1>1, TakenType, NumFlowsType
    <2>2. ASSUME NEW q \in Procs, app[<<q, n>>].step # "absent" PROVE FALSE
      <3>1. p = q
        BY <2>1, <2>2, OneOwner
      <3>2. n <= currentIdx[p] /\ currentIdx[p] \in Int
        BY <2>1, <2>2, <3>1, ExperimentAssumption DEF IInv, Owned, SchedulerInv, SchedulerTypeOK
      <3>3. QED
        BY <2>1, <3>2
    <2>3. QED
      BY <2>1, <2>2
  <1>4. ASSUME NEW n \in 1 .. numFlows
        PROVE  /\ n \in Taken(p) =>
                    /\ n \in Waiting /\ n \notin Waiting' /\ n \in Active'
                    /\ n \notin Finished /\ n \notin Finished'
               /\ n \notin Taken(p) =>
                    /\ n \in Waiting <=> n \in Waiting'
                    /\ n \in Active <=> n \in Active'
                    /\ n \in Finished <=> n \in Finished'
    <2>1. n \in 1 .. MaxNumber /\ n \in 1 .. numFlows'
      BY <1>1, NumFlowsType
    <2>2. CASE n \in Taken(p)
      <3>1. \A q \in Procs : app[<<q, n>>].step = "absent"
        BY <1>3, <2>2
      <3>2. \A q \in Procs : app'[<<q, n>>].step = IF q = p THEN "installed" ELSE "absent"
        BY <1>2, <2>1, <2>2, <3>1
      <3>3. QED
        BY <2>1, <2>2, <3>1, <3>2
        DEF Waiting, Active, Finished, Started, StillActive, Closed
    <2>3. CASE n \notin Taken(p)
      <3>1. \A q \in Procs : app'[<<q, n>>] = app[<<q, n>>]
        BY <1>2, <2>1, <2>3
      <3>2. n \in Waiting <=> n \in Waiting'
        BY <2>1, <3>1 DEF Waiting, Started
      <3>3. n \in Active <=> n \in Active'
        BY <2>1, <3>1 DEF Active, StillActive
      <3>4. n \in Finished <=> n \in Finished'
        BY <2>1, <3>1 DEF Finished, Closed
      <3>5. QED
        BY <2>3, <3>2, <3>3, <3>4
    <2>4. QED
      BY <2>2, <2>3
  <1>5. Waiting' \subseteq 1 .. numFlows /\ Active' \subseteq 1 .. numFlows
        /\ Finished' \subseteq 1 .. numFlows
    BY <1>1 DEF Waiting, Active, Finished
  <1>6. Waiting \subseteq 1 .. numFlows /\ Active \subseteq 1 .. numFlows
        /\ Finished \subseteq 1 .. numFlows
    BY DEF Waiting, Active, Finished
  <1>7. QED
    BY <1>3, <1>4, <1>5, <1>6

LEMMA AppPromise ==
    ASSUME IInv, NEW a \in Apps, AppEvent(a), failure' = "none"
    PROVE  \/ UNCHANGED Promised
           \/ /\ a[2] \in Active /\ UNCHANGED <<Waiting, Over>>
              /\ Active' = Active \ {a[2]} /\ Finished' = Finished \cup {a[2]}
  <1>1. /\ UNCHANGED <<flowVars, failure>>
        /\ app[a].step # "absent" /\ app'[a].step # "absent"
        /\ app[a].step = "closed" => app'[a].step = "closed"
        /\ \A b \in Apps : b # a => app'[b] = app[b]
    BY AppEventShape DEF IInv
  <1>2. UNCHANGED Over /\ UNCHANGED numFlows
    BY <1>1 DEF Over, flowVars
  <1>3. PICK p \in Procs, m \in 1 .. MaxNumber : a = <<p, m>>
    BY ExperimentAssumption DEF AppIds
  <1>4. m \in 1 .. numFlows /\ IsLocal(p, Line(m).src) /\ a[2] = m
    <2>1. m <= currentIdx[p] /\ IsLocal(p, Line(m).src)
      BY <1>1, <1>3 DEF IInv, Owned
    <2>2. currentIdx[p] \in Nat /\ numFlows \in Nat /\ currentIdx[p] <= numFlows
      BY ExperimentAssumption DEF IInv, SchedulerInv, SchedulerTypeOK, NextIsRead
    <2>3. QED
      BY <1>3, <2>1, <2>2
  <1>5. \A q \in Procs : q # p => /\ app[<<q, m>>].step = "absent"
                                  /\ app'[<<q, m>>].step = "absent"
    <2> SUFFICES ASSUME NEW q \in Procs, q # p
                 PROVE  app[<<q, m>>].step = "absent" /\ app'[<<q, m>>].step = "absent"
      OBVIOUS
    <2>1. app[<<q, m>>].step = "absent"
      BY <1>4, OneOwner
    <2>2. <<q, m>> \in Apps /\ <<q, m>> # a
      BY <1>3, ExperimentAssumption DEF AppIds
    <2>3. QED
      BY <1>1, <2>1, <2>2
  <1>6. \A q \in Procs, n \in 1 .. MaxNumber : n # m => app'[<<q, n>>] = app[<<q, n>>]
    <2> SUFFICES ASSUME NEW q \in Procs, NEW n \in 1 .. MaxNumber, n # m
                 PROVE  app'[<<q, n>>] = app[<<q, n>>]
      OBVIOUS
    <2>1. <<q, n>> \in Apps /\ <<q, n>> # a
      BY <1>3, ExperimentAssumption DEF AppIds
    <2>2. QED
      BY <1>1, <2>1
  <1>7. \A n \in 1 .. numFlows : n # m =>
            /\ n \in Waiting <=> n \in Waiting'
            /\ n \in Active <=> n \in Active'
            /\ n \in Finished <=> n \in Finished'
    BY <1>2, <1>6, NumFlowsType DEF Waiting, Active, Finished, Started, StillActive, Closed
  <1>8. /\ m \notin Waiting /\ m \notin Waiting'
        /\ m \in Active <=> app[a].step # "closed"
        /\ m \in Active' <=> app'[a].step # "closed"
        /\ m \in Finished <=> app[a].step = "closed"
        /\ m \in Finished' <=> app'[a].step = "closed"
    BY <1>1, <1>2, <1>3, <1>4, <1>5 DEF Waiting, Active, Finished, Started, StillActive, Closed
  <1>9. /\ Waiting \subseteq 1 .. numFlows /\ Waiting' \subseteq 1 .. numFlows
        /\ Active \subseteq 1 .. numFlows /\ Active' \subseteq 1 .. numFlows
        /\ Finished \subseteq 1 .. numFlows /\ Finished' \subseteq 1 .. numFlows
    BY <1>2 DEF Waiting, Active, Finished
  <1>10. Waiting' = Waiting
    BY <1>7, <1>8, <1>9
  <1>11. CASE app'[a].step = "closed" /\ app[a].step # "closed"
    <2>1. Active' = Active \ {m} /\ Finished' = Finished \cup {m} /\ m \in Active
      BY <1>4, <1>7, <1>8, <1>9, <1>11
    <2>2. QED
      BY <1>2, <1>4, <1>10, <2>1
  <1>12. CASE ~(app'[a].step = "closed" /\ app[a].step # "closed")
    <2>1. app'[a].step = "closed" <=> app[a].step = "closed"
      BY <1>1, <1>12
    <2>2. \A n \in 1 .. numFlows : /\ n \in Active <=> n \in Active'
                                   /\ n \in Finished <=> n \in Finished'
      BY <1>7, <1>8, <2>1
    <2>3. Active' = Active /\ Finished' = Finished
      BY <1>9, <2>2
    <2>4. QED
      BY <1>2, <1>10, <2>3 DEF Promised
  <1>13. QED
    BY <1>11, <1>12

(* Each flow announced is started by one host, once, and finishes once:    *)
(* the initial states of a run are initial states of FlowPromise, and its  *)
(* steps are steps of FlowPromise or leave its variables alone.            *)
THEOREM PromiseSafety == Spec => Promise!Init /\ [][Promise!Next]_(Promise!promiseVars)
  <1>1. ASSUME Init PROVE Promise!Init
    <2>1. numFlows \in 0 .. MaxNumber
      BY <1>1 DEF Init
    <2>2. \A p \in Procs, n \in 1 .. MaxNumber : app[<<p, n>>].step = "absent"
      BY <1>1, ExperimentAssumption DEF Init, AppInit, NoApp, AppIds
    <2>3. 1 .. numFlows \subseteq 1 .. MaxNumber
      BY <2>1, ExperimentAssumption
    <2>4. Waiting = 1 .. numFlows /\ Active = {} /\ Finished = {}
      BY <2>2, <2>3 DEF Waiting, Active, Finished, Started, StillActive, Closed
    <2>5. ~Over
      BY <1>1 DEF Init, SchedulerInit, AppInit, Over
    <2>6. QED
      BY <2>1, <2>4, <2>5 DEF Promise!Init, Waiting, Active, Finished
  <1>2. ASSUME IInv, [Next]_vars
        PROVE  [Promise!Next]_(Promise!promiseVars)
    <2>1. CASE DoAllToAllTcp \/ UNCHANGED vars
      <3>1. UNCHANGED <<app, numFlows, Over>>
        BY <2>1 DEF DoAllToAllTcp, vars, flowVars, appVars, Over
      <3>2. QED
        BY <3>1, SameApps DEF Promise!promiseVars, Waiting, Active, Finished
    <2>2. CASE SetUp
      <3>1. UNCHANGED <<app, numFlows>> /\ ~Over
        BY <2>2 DEF SetUp, Begin, Migrate, appVars
      <3>2. Waiting' = Waiting /\ Active' = Active /\ Finished' = Finished
        BY <3>1, SameApps
      <3>3. Promise!Start({}) /\ Over' \in BOOLEAN
        BY <3>1, <3>2 DEF Promise!Start, Over, Waiting, Active, Finished
      <3>4. QED
        BY <3>3 DEF Promise!Next
    <2>3. CASE \E p \in Procs : Dispatch(p)
      <3>1. PICK p \in Procs : Dispatch(p)
        BY <2>3
      <3>2. ~Over
        BY <3>1 DEF Dispatch, Running, Over
      <3>3. Promise!Start(Taken(p)) /\ Over' \in BOOLEAN /\ Taken(p) \in SUBSET Waiting
        BY <1>2, <3>1, <3>2, DispatchPromise DEF Promise!Start, Over, Waiting, Active, Finished
      <3>4. QED
        BY <3>3 DEF Promise!Next, Waiting
    <2>4. CASE \E a \in Apps : AppEvent(a)
      <3>1. PICK a \in Apps : AppEvent(a)
        BY <2>4
      <3>2. ~Over /\ UNCHANGED numFlows
        BY <3>1 DEF AppEvent, Running, Over, flowVars
      <3>3. CASE failure' = "none"
        <4>1. CASE UNCHANGED Promised
          BY <4>1 DEF Promised, Promise!promiseVars, Waiting, Active, Finished
        <4>2. CASE ~UNCHANGED Promised
          <5>1. Promise!Finish(a[2]) /\ a[2] \in Active
            BY <1>2, <3>1, <3>2, <3>3, <4>2, AppPromise DEF Promise!Finish, Waiting, Active, Finished
          <5>2. QED
            BY <5>1 DEF Promise!Next, Active
        <4>3. QED
          BY <4>1, <4>2
      <3>4. CASE failure' # "none"
        <4>1. UNCHANGED app
          BY <1>2, <3>1, <3>4, AppEventShape DEF IInv
        <4>2. Waiting' = Waiting /\ Active' = Active /\ Finished' = Finished
          BY <3>2, <4>1, SameApps
        <4>3. Promise!Start({}) /\ Over' \in BOOLEAN
          BY <3>2, <4>2 DEF Promise!Start, Over, Waiting, Active, Finished
        <4>4. QED
          BY <4>3 DEF Promise!Next
      <3>5. QED
        BY <3>3, <3>4
    <2>5. CASE \E h \in Hosts : StartStreams(h)
      <3>1. UNCHANGED <<app, numFlows>> /\ ~Over
        BY <2>5 DEF StartStreams, Running, Over, flowVars
      <3>2. Waiting' = Waiting /\ Active' = Active /\ Finished' = Finished
        BY <3>1, SameApps
      <3>3. Promise!Start({}) /\ Over' \in BOOLEAN
        BY <3>1, <3>2 DEF Promise!Start, Over, Waiting, Active, Finished
      <3>4. QED
        BY <3>3 DEF Promise!Next
    <2>6. QED
      BY <1>2, <2>1, <2>2, <2>3, <2>4, <2>5 DEF Next
  <1>3. QED
    BY <1>1, <1>2, AlwaysIInv, PTL DEF Spec

==========================================================================
