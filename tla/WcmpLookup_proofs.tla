------------------------ MODULE WcmpLookup_proofs ------------------------
(***************************************************************************)
(* For any number of entries and any weights: choose() returns an entry    *)
(* that is up and has a weight, chosen for as many hash values as its      *)
(* weight says, and aborts exactly when there is none.                     *)
(* For any table: a lookup answers with a best route that is not on the    *)
(* incoming interface and is usable, and fails or aborts only when there   *)
(* is none.  The invariants of the two loops, of which the first is proved *)
(* in MultiLpm_proofs, are carried over the step from one to the other.    *)
(***************************************************************************)
EXTENDS WcmpLookup, MultiLpm_proofs, SequenceTheorems, FiniteSetTheorems, WellFoundedInduction

---------------------------------------------------------------------------
(* The loops of choose().                                                  *)

(* What the call was given, and the types of the loop variables.           *)
Given ==
    /\ \E n \in Nat : Entries = 1 .. n
    /\ \A x \in Entries : weight[x] \in Nat /\ isUp[x] \in BOOLEAN
    /\ hash \in Nat

Typed ==
    /\ pc \in {"sum", "decide", "pick", "done"}
    /\ pos \in Nat \ {0}
    /\ sum \in Nat
    /\ upEntries \in Seq([entry : Entries, upTo : Nat])

Ups == 1 .. Len(upEntries)

(* The total before the x-th entry that is up.                             *)
Before(x) == IF x = 1 THEN 0 ELSE upEntries[x - 1].upTo

(* The cumulative weights: every entry adds its own, the last has the sum. *)
Cumulative ==
    /\ \A x \in Ups : /\ isUp[upEntries[x].entry]
                      /\ upEntries[x].upTo = Before(x) + weight[upEntries[x].entry]
    /\ sum = Before(Len(upEntries) + 1)

(* The entries a loop has passed: while summing, those that are up and     *)
(* have a weight have made the sum positive and no others have; while      *)
(* picking, the hash is not below their totals.                            *)
Summed ==
    LET passed == IF pc = "sum" THEN {x \in Entries : x < pos} ELSE Entries
    IN  sum = 0 <=> \A x \in passed : ~isUp[x] \/ weight[x] = 0

Picking ==
    pc = "pick" =>
        /\ sum # 0
        /\ pos = 1 \/ (pos - 1 \in Ups /\ ~Below(Residue, upEntries[pos - 1].upTo))
        /\ pos <= Len(upEntries) + 1

Settled ==
    /\ pc # "done" => result = Pending
    /\ pc = "done" => result = Aborted <=> sum = 0
    /\ result # NoEntry
    /\ ChosenIsUsable

ChooseInv == Given /\ Typed /\ Cumulative /\ Summed /\ Picking /\ Settled

LEMMA ChooseInitInv == ChooseInit => ChooseInv
  <1> SUFFICES ASSUME ChooseInit PROVE ChooseInv
    OBVIOUS
  <1>1. PICK n \in 0 .. MaxEntries : isUp \in [1 .. n -> BOOLEAN] /\ weight \in [1 .. n -> WeightValues]
    BY DEF ChooseInit
  <1>2. Given
    <2>1. Entries = 1 .. n /\ n \in Nat
      BY <1>1, EntriesAssumption DEF Entries
    <2>2. \A x \in Entries : weight[x] \in Nat /\ isUp[x] \in BOOLEAN
      BY <1>1, <2>1, WeightAssumption
    <2>3. QED
      BY <2>1, <2>2, HashAssumption DEF ChooseInit, Given
  <1>3. Typed /\ Cumulative /\ Picking
    BY DEF ChooseInit, Typed, Cumulative, Picking, Ups, Before
  <1>4. Summed
    BY <1>2 DEF ChooseInit, Summed, Given
  <1>5. Settled
    BY <1>2 DEF ChooseInit, Settled, ChosenIsUsable, Given, Pending, NoEntry
  <1>6. QED
    BY <1>2, <1>3, <1>4, <1>5 DEF ChooseInv

LEMMA UpEntryOfSeq ==
    ASSUME NEW S, NEW s \in Seq(S), NEW x \in 1 .. Len(s)
    PROVE  s[x] \in S
  OBVIOUS

LEMMA UpEntryTyped ==
    ASSUME Typed
    PROVE  /\ Len(upEntries) \in Nat
           /\ \A x \in Ups : /\ upEntries[x].entry \in Entries
                             /\ upEntries[x].upTo \in Nat
  <1> DEFINE S == [entry : Entries, upTo : Nat]
  <1>1. upEntries \in Seq(S)
    BY DEF Typed
  <1>2. \A r \in S : r.entry \in Entries /\ r.upTo \in Nat
    OBVIOUS
  <1> HIDE DEF S
  <1>3. QED
    BY <1>1, <1>2, UpEntryOfSeq DEF Ups

LEMMA SumLoopInv ==
    ASSUME ChooseInv, SumLoop, UNCHANGED <<isUp, weight, hash>>
    PROVE  ChooseInv'
  <1>g. Given' /\ Entries' = Entries
    BY DEF ChooseInv, Given, Entries
  <1>p. pc = "sum" /\ result = Pending /\ pos \in Nat \ {0} /\ sum \in Nat
    BY DEF SumLoop, ChooseInv, Settled, Typed
  <1>n. PICK n \in Nat : Entries = 1 .. n
    BY DEF ChooseInv, Given
  <1>1. CASE pos \in Entries /\ isUp[pos] /\ AddUpEntry
    <2> DEFINE new == [entry |-> pos, upTo |-> sum + weight[pos]]
    <2>1. /\ pos' = pos + 1 /\ pc' = "sum" /\ result' = Pending
          /\ sum' = sum + weight[pos] /\ upEntries' = Append(upEntries, new)
          /\ weight[pos] \in Nat
      BY <1>p, <1>1 DEF SumLoop, AddUpEntry, ChooseInv, Given
    <2>2. new \in [entry : Entries, upTo : Nat]
      BY <1>p, <1>1, <2>1
    <2>3. upEntries \in Seq([entry : Entries, upTo : Nat])
      BY DEF ChooseInv, Typed
    <2>4. /\ Len(upEntries) \in Nat /\ Len(upEntries') = Len(upEntries) + 1
          /\ upEntries'[Len(upEntries) + 1] = new
          /\ \A x \in Ups : upEntries'[x] = upEntries[x]
          /\ upEntries' \in Seq([entry : Entries, upTo : Nat])
      BY <2>1, <2>2, <2>3 DEF Ups
    <2>5. new.entry = pos /\ new.upTo = sum + weight[pos]
      OBVIOUS
    <2> HIDE DEF new
    <2>6. Typed'
      BY <1>g, <1>p, <2>1, <2>4 DEF Typed
    <2>7. Cumulative'
      <3>1. \A x \in Ups \cup {Len(upEntries) + 1} : Before(x)' = Before(x)
        BY <2>4 DEF Before, Ups
      <3>2. Ups' = Ups \cup {Len(upEntries) + 1}
        BY <2>4 DEF Ups
      <3>3. sum' = upEntries'[Len(upEntries')].upTo /\ Len(upEntries') # 0
        BY <2>1, <2>4, <2>5
      <3>4. ASSUME NEW x \in Ups'
            PROVE  /\ isUp'[upEntries'[x].entry]
                   /\ upEntries'[x].upTo = Before(x)' + weight'[upEntries'[x].entry]
        BY <1>1, <2>1, <2>4, <2>5, <3>1, <3>2 DEF ChooseInv, Cumulative, Ups
      <3>5. sum' = IF Len(upEntries') + 1 = 1 THEN 0
                   ELSE upEntries'[Len(upEntries') + 1 - 1].upTo
        BY <2>4, <3>3
      <3>6. QED
        BY <3>4, <3>5 DEF Cumulative, Before
    <2>8. Summed'
      BY <1>g, <1>n, <1>p, <1>1, <2>1 DEF ChooseInv, Summed, Given
    <2>9. QED
      BY <1>g, <1>p, <2>1, <2>6, <2>7, <2>8 DEF ChooseInv, Picking, Settled, ChosenIsUsable, Pending, Given
  <1>2. CASE pos \in Entries /\ ~isUp[pos] /\ UNCHANGED <<sum, upEntries>>
    <2>1. pos' = pos + 1 /\ pc' = "sum" /\ result' = Pending
      BY <1>p, <1>2 DEF SumLoop
    <2>2. Typed' /\ Cumulative'
      BY <1>g, <1>p, <1>2, <2>1 DEF ChooseInv, Typed, Cumulative, Ups, Before
    <2>3. Summed'
      BY <1>g, <1>n, <1>p, <1>2, <2>1 DEF ChooseInv, Summed, Given
    <2>4. QED
      BY <1>g, <1>p, <2>1, <2>2, <2>3 DEF ChooseInv, Picking, Settled, ChosenIsUsable, Pending, Given
  <1>3. CASE pos \notin Entries /\ pc' = "decide" /\ UNCHANGED <<pos, sum, upEntries, result>>
    <2>1. Typed' /\ Cumulative'
      BY <1>g, <1>p, <1>3 DEF ChooseInv, Typed, Cumulative, Ups, Before
    <2>2. Summed'
      BY <1>g, <1>n, <1>p, <1>3 DEF ChooseInv, Summed
    <2>3. QED
      BY <1>g, <1>p, <1>3, <2>1, <2>2 DEF ChooseInv, Picking, Settled, ChosenIsUsable, Pending, Given
  <1>4. QED
    BY <1>1, <1>2, <1>3 DEF SumLoop

(* After the summing, the totals stand.                                    *)
LEMMA TotalsStand ==
    ASSUME ChooseInv, pc # "sum", pc' # "sum", UNCHANGED <<isUp, weight, hash, sum, upEntries>>
    PROVE  Given' /\ Cumulative' /\ Summed'
  <1>1. Given'
    BY DEF ChooseInv, Given, Entries
  <1>2. Cumulative'
    BY DEF ChooseInv, Cumulative, Ups, Before
  <1>3. Summed'
    BY DEF ChooseInv, Summed, Entries
  <1>4. QED
    BY <1>1, <1>2, <1>3

(* A return settles the result; nothing else of the invariant depends on   *)
(* it.                                                                     *)
LEMMA ReturnInv ==
    ASSUME ChooseInv, pc # "sum", NEW what, Return(what), UNCHANGED <<isUp, weight, hash>>,
           what = Aborted <=> sum = 0, what # NoEntry,
           what \in Entries => isUp[what] /\ weight[what] > 0
    PROVE  ChooseInv'
  BY DEF ChooseInv, Return, Given, Entries, Typed, Cumulative, Ups, Before, Summed, Picking,
         Settled, ChosenIsUsable

(* The position at which the hash falls below the running total first has  *)
(* an entry with a weight.                                                 *)
LEMMA FoundIsUsable ==
    ASSUME ChooseInv, NEW x \in Ups,
           x = 1 \/ ~Below(Residue, upEntries[x - 1].upTo),
           Below(Residue, upEntries[x].upTo), Residue \in Nat
    PROVE  /\ upEntries[x].entry \in Entries
           /\ isUp[upEntries[x].entry] /\ weight[upEntries[x].entry] > 0
  <1>1. upEntries[x].entry \in Entries /\ upEntries[x].upTo \in Nat /\ x \in Nat
    BY UpEntryTyped DEF ChooseInv, Ups
  <1>2. x # 1 => x - 1 \in Ups /\ upEntries[x - 1].upTo \in Nat
    BY UpEntryTyped DEF ChooseInv, Ups
  <1>3. weight[upEntries[x].entry] \in Nat
    BY <1>1 DEF ChooseInv, Given
  <1>4. isUp[upEntries[x].entry] /\ upEntries[x].upTo = Before(x) + weight[upEntries[x].entry]
    BY DEF ChooseInv, Cumulative
  <1>5. Before(x) \in Nat /\ Before(x) <= Residue
    BY <1>1, <1>2 DEF Before, Below
  <1>6. QED
    BY <1>1, <1>3, <1>4, <1>5 DEF Below

LEMMA DecideInv ==
    ASSUME ChooseInv, Decide, UNCHANGED <<isUp, weight, hash>>
    PROVE  ChooseInv'
  <1>1. CASE sum = 0 /\ Return(Aborted)
    BY <1>1, ReturnInv DEF Decide, Aborted, NoEntry, ChooseInv, Given
  <1>2. CASE /\ sum # 0 /\ Len(upEntries) <= 1
             /\ Return(IF upEntries = <<>> THEN NoEntry ELSE upEntries[1].entry)
    <2>1. Len(upEntries) = 1 /\ upEntries # <<>>
      <3>1. Len(upEntries) = 0 => sum = 0
        BY DEF ChooseInv, Cumulative, Before
      <3>2. Len(upEntries) \in Nat /\ Len(<<>>) = 0
        BY UpEntryTyped DEF ChooseInv
      <3>3. Len(upEntries) <= 1 /\ Len(upEntries) # 0
        BY <1>2, <3>1
      <3>4. Len(upEntries) = 1
        BY <3>2, <3>3
      <3>5. QED
        BY <3>2, <3>4
    <2>2. 1 \in Ups /\ Before(1) = 0 /\ sum = upEntries[1].upTo
      BY <2>1 DEF ChooseInv, Cumulative, Ups, Before
    <2>3. /\ upEntries[1].entry \in Entries /\ isUp[upEntries[1].entry]
          /\ weight[upEntries[1].entry] > 0
      <3>1. upEntries[1].entry \in Entries
        BY <2>2, UpEntryTyped DEF ChooseInv
      <3>2. weight[upEntries[1].entry] \in Nat
        BY <3>1 DEF ChooseInv, Given
      <3>3. isUp[upEntries[1].entry] /\ upEntries[1].upTo = 0 + weight[upEntries[1].entry]
        BY <2>2 DEF ChooseInv, Cumulative
      <3>4. QED
        BY <1>2, <2>2, <3>1, <3>2, <3>3
    <2>4. upEntries[1].entry # Aborted /\ upEntries[1].entry # NoEntry
      BY <2>3 DEF ChooseInv, Given, Aborted, NoEntry
    <2>5. pc # "sum" /\ Return(upEntries[1].entry)
      BY <1>2, <2>1 DEF Decide
    <2>6. QED
      BY <1>2, <2>3, <2>4, <2>5, ReturnInv
  <1>3. CASE /\ sum # 0 /\ Len(upEntries) > 1 /\ pc' = "pick" /\ pos' = 1
             /\ UNCHANGED <<sum, upEntries, result>>
    <2>1. pc = "decide"
      BY DEF Decide
    <2>2. Given' /\ Cumulative' /\ Summed'
      BY <1>3, <2>1, TotalsStand
    <2>3. Typed'
      BY <1>3 DEF ChooseInv, Typed, Entries
    <2>4. Picking'
      <3>1. Len(upEntries) \in Nat
        BY UpEntryTyped DEF ChooseInv
      <3>2. QED
        BY <1>3, <3>1 DEF Picking
    <2>5. Settled'
      BY <1>3, <2>1 DEF ChooseInv, Settled, ChosenIsUsable, Entries
    <2>6. QED
      BY <2>2, <2>3, <2>4, <2>5 DEF ChooseInv
  <1>4. QED
    BY <1>1, <1>2, <1>3 DEF Decide

LEMMA PickLoopInv ==
    ASSUME ChooseInv, PickLoop, UNCHANGED <<isUp, weight, hash>>
    PROVE  ChooseInv'
  <1>p. pc = "pick" /\ sum # 0 /\ sum \in Nat /\ pos \in Nat \ {0} /\ Len(upEntries) \in Nat
        /\ pos <= Len(upEntries) + 1
        /\ (pos = 1 \/ (pos - 1 \in Ups /\ ~Below(Residue, upEntries[pos - 1].upTo)))
    BY DEF PickLoop, ChooseInv, Picking, Typed
  <1>r. Residue \in Nat /\ Residue < sum
    BY <1>p DEF Residue, ChooseInv, Given
  <1>1. pos <= Len(upEntries)
    <2> SUFFICES ASSUME pos = Len(upEntries) + 1 PROVE FALSE
      BY <1>p
    <2>1. CASE Len(upEntries) = 0
      BY <1>p, <2>1 DEF ChooseInv, Cumulative, Before
    <2>2. CASE Len(upEntries) # 0
      <3>1. sum = upEntries[pos - 1].upTo
        BY <1>p, <2>2 DEF ChooseInv, Cumulative, Before
      <3>2. QED
        BY <1>p, <1>r, <2>2, <3>1 DEF Below
    <2>3. QED
      BY <2>1, <2>2
  <1>2. CASE Found /\ Return(upEntries[IF pos > Len(upEntries) THEN Len(upEntries) ELSE pos].entry)
    <2>1. pos \in Ups /\ Below(Residue, upEntries[pos].upTo) /\ Return(upEntries[pos].entry)
      BY <1>p, <1>1, <1>2 DEF Found, Ups
    <2>2. /\ upEntries[pos].entry \in Entries
          /\ isUp[upEntries[pos].entry] /\ weight[upEntries[pos].entry] > 0
      BY <1>p, <1>r, <2>1, FoundIsUsable
    <2>3. upEntries[pos].entry # Aborted /\ upEntries[pos].entry # NoEntry
      BY <2>2 DEF ChooseInv, Given, Aborted, NoEntry
    <2>4. QED
      BY <1>p, <2>1, <2>2, <2>3, ReturnInv
  <1>3. CASE ~Found /\ pos' = pos + 1 /\ UNCHANGED <<pc, sum, upEntries, result>>
    <2>1. pos \in Ups /\ ~Below(Residue, upEntries[pos].upTo)
      BY <1>p, <1>1, <1>3 DEF Found, Ups
    <2>2. Picking'
      BY <1>p, <1>1, <1>3, <2>1 DEF Picking, Ups, Below, Residue
    <2>3. Given' /\ Cumulative' /\ Summed'
      BY <1>p, <1>3, TotalsStand
    <2>4. Typed'
      BY <1>p, <1>3 DEF ChooseInv, Typed, Entries
    <2>5. Settled'
      BY <1>p, <1>3 DEF ChooseInv, Settled, ChosenIsUsable, Entries
    <2>6. QED
      BY <2>2, <2>3, <2>4, <2>5 DEF ChooseInv
  <1>4. QED
    BY <1>2, <1>3 DEF PickLoop

LEMMA ChooseNextInv == ChooseInv /\ [ChooseNext]_chooseVars => ChooseInv'
  <1> SUFFICES ASSUME ChooseInv, [ChooseNext]_chooseVars PROVE ChooseInv'
    OBVIOUS
  <1>1. CASE ChooseNext
    BY <1>1, SumLoopInv, DecideInv, PickLoopInv DEF ChooseNext
  <1>2. CASE UNCHANGED chooseVars
    BY <1>2 DEF chooseVars, ChooseInv, Given, Entries, Typed, Cumulative, Ups, Before, Summed, Picking,
                Settled, ChosenIsUsable, Below, Residue
  <1>3. QED
    BY <1>1, <1>2

(* The entry that choose() returns is up and has a weight.                 *)
THEOREM ChooseChosenIsUsableCorrect == ChooseSpec => []ChosenIsUsable
  <1>1. ChooseInv => ChosenIsUsable
    BY DEF ChooseInv, Settled
  <1>2. QED
    BY ChooseInitInv, ChooseNextInv, <1>1, PTL DEF ChooseSpec

(* It aborts the simulation exactly when no entry is up and has a weight.  *)
THEOREM ChooseAbortsOnlyWithoutUsableCorrect == ChooseSpec => []AbortsOnlyWithoutUsable
  <1>1. ChooseInv => AbortsOnlyWithoutUsable
    BY DEF ChooseInv, Settled, Summed, AbortsOnlyWithoutUsable
  <1>2. QED
    BY ChooseInitInv, ChooseNextInv, <1>1, PTL DEF ChooseSpec


---------------------------------------------------------------------------
(* The whole lookup.                                                       *)

(* choose() starts afresh, from the state that the first stage keeps.      *)
Fresh == pc = "sum" /\ pos = 1 /\ sum = 0 /\ upEntries = <<>> /\ result = Pending

(* What the end of the first stage has settled.                            *)
Handed ==
    /\ stage = "lpm" => Fresh
    /\ stage # "lpm" => next = Len(table) + 1
    /\ stage = "noRoute" => Onward = {} /\ result = Pending
    /\ stage = "choose" =>
        /\ Entries = 1 .. Len(kept)
        /\ Onward # {}
        /\ {kept[x] : x \in Entries} = Onward

LoopsInv == LpmTypeOK /\ LoopInv /\ InTableOrder /\ ChooseInv

IInv == LoopsInv /\ stage \in {"lpm", "choose", "noRoute"} /\ Handed

LEMMA InitInv == Init => IInv
  <1> SUFFICES ASSUME Init PROVE IInv
    OBVIOUS
  <1>1. LoopsInv
    BY InitTypeOK, InitLoopInv, ChooseInitInv DEF Init, LoopsInv
  <1>2. stage = "lpm" /\ Fresh
    BY DEF Init, ChooseInit, Fresh
  <1>3. QED
    BY <1>1, <1>2 DEF IInv, Handed

---------------------------------------------------------------------------
(* What is left of the entries.                                            *)

LEMMA RemovedAt ==
    ASSUME NEW S, NEW s \in Seq(S), NEW k \in 1 .. Len(s)
    PROVE  /\ RemoveAt(s, k) \in Seq(S)
           /\ Len(RemoveAt(s, k)) = Len(s) - 1
           /\ \A x \in 1 .. Len(s) - 1 :
                RemoveAt(s, k)[x] = IF x < k THEN s[x] ELSE s[x + 1]
  <1> DEFINE front == SubSeq(s, 1, k - 1)
             back == SubSeq(s, k + 1, Len(s))
  <1>1. /\ front \in Seq(S) /\ Len(front) = k - 1
        /\ \A x \in 1 .. k - 1 : front[x] = s[x]
    OBVIOUS
  <1>2. /\ back \in Seq(S) /\ Len(back) = Len(s) - k
        /\ \A x \in 1 .. Len(s) - k : back[x] = s[x + k]
    OBVIOUS
  <1>3. RemoveAt(s, k) = front \o back
    BY DEF RemoveAt
  <1> HIDE DEF front, back
  <1>4. /\ front \o back \in Seq(S)
        /\ Len(front \o back) = Len(front) + Len(back)
        /\ \A x \in 1 .. Len(front) + Len(back) :
             (front \o back)[x] = IF x <= Len(front) THEN front[x] ELSE back[x - Len(front)]
    BY <1>1, <1>2, ConcatProperties
  <1>5. Len(s) \in Nat /\ Len(front) + Len(back) = Len(s) - 1
    BY <1>1, <1>2
  <1>6. ASSUME NEW x \in 1 .. Len(s) - 1
        PROVE  (front \o back)[x] = IF x < k THEN s[x] ELSE s[x + 1]
    <2>1. CASE x < k
      BY <1>1, <1>4, <1>5, <2>1
    <2>2. CASE ~(x < k)
      <3>1. (front \o back)[x] = back[x - (k - 1)]
        BY <1>1, <1>4, <1>5, <2>2
      <3>2. x - (k - 1) \in 1 .. Len(s) - k /\ (x - (k - 1)) + k = x + 1
        BY <1>5, <2>2
      <3>3. QED
        BY <1>2, <2>2, <3>1, <3>2
    <2>3. QED
      BY <2>1, <2>2
  <1>7. QED
    BY <1>3, <1>4, <1>5, <1>6

(* The entries are distinct, so exactly the incoming row is taken out.     *)
LEMMA ErasedEntries ==
    ASSUME LpmTypeOK, InTableOrder
    PROVE  /\ EraseIncoming(entries) \in Seq(Rows)
           /\ {EraseIncoming(entries)[x] : x \in 1 .. Len(EraseIncoming(entries))}
              = Collected \ {incoming}
  <1> DEFINE left == EraseIncoming(entries)
             n == Len(entries)
  <1>0. entries \in Seq(Rows) /\ n \in Nat /\ DOMAIN entries = 1 .. n
    BY DEF LpmTypeOK
  <1>1. CASE \E x \in DOMAIN entries : entries[x] = incoming
    <2>1. PICK k \in 1 .. n : entries[k] = incoming /\ left = RemoveAt(entries, k)
      <3>1. LET c == CHOOSE x \in DOMAIN entries : entries[x] = incoming
            IN  c \in 1 .. n /\ entries[c] = incoming
        BY <1>0, <1>1
      <3>2. QED
        BY <1>1, <3>1 DEF EraseIncoming
    <2>2. /\ left \in Seq(Rows) /\ Len(left) = n - 1
          /\ \A x \in 1 .. n - 1 : left[x] = IF x < k THEN entries[x] ELSE entries[x + 1]
      BY <1>0, <2>1, RemovedAt
    <2> HIDE DEF left
    <2>3. \A x \in 1 .. n : x # k => entries[x] # incoming
      <3>1. \A x \in 1 .. n : entries[x] \in Nat
        BY <1>0, ElementOfSeq, TableRows DEF Rows, LpmTypeOK
      <3>2. QED
        BY <1>0, <2>1, <3>1 DEF InTableOrder
    <2>4. ASSUME NEW x \in 1 .. Len(left) PROVE left[x] \in Collected \ {incoming}
      <3>1. CASE x < k
        BY <1>0, <2>2, <2>3, <3>1 DEF Collected
      <3>2. CASE ~(x < k)
        <4>1. x + 1 \in 1 .. n /\ x + 1 # k /\ left[x] = entries[x + 1]
          BY <1>0, <2>2, <3>2
        <4>2. QED
          BY <2>3, <4>1 DEF Collected
      <3>3. QED
        BY <3>1, <3>2
    <2>5. ASSUME NEW row \in Collected \ {incoming}
          PROVE  \E x \in 1 .. Len(left) : row = left[x]
      <3>1. PICK y \in 1 .. n : row = entries[y] /\ y # k
        BY <2>1 DEF Collected
      <3>2. CASE y < k
        BY <1>0, <2>2, <3>1, <3>2
      <3>3. CASE ~(y < k)
        <4>1. y - 1 \in 1 .. Len(left) /\ left[y - 1] = entries[y]
          BY <1>0, <2>2, <3>1, <3>3
        <4>2. QED
          BY <3>1, <4>1
      <3>4. QED
        BY <3>2, <3>3
    <2>6. {left[x] : x \in 1 .. Len(left)} = Collected \ {incoming}
      BY <2>4, <2>5
    <2>7. QED
      BY <2>2, <2>6 DEF left
  <1>2. CASE ~ \E x \in DOMAIN entries : entries[x] = incoming
    BY <1>0, <1>2 DEF EraseIncoming, Collected
  <1>3. QED
    BY <1>1, <1>2

---------------------------------------------------------------------------
LEMMA OnwardStands ==
    ASSUME UNCHANGED <<table, incoming>>
    PROVE  Onward' = Onward
  BY DEF Onward, Best, AsGood

LEMMA LpmStepInv ==
    ASSUME IInv, LpmStep
    PROVE  IInv'
  <1>1. stage = "lpm" /\ stage' = "lpm" /\ UNCHANGED chooseVars /\ LpmNext
    BY DEF LpmStep, LpmNext
  <1>2. LpmTypeOK' /\ LoopInv' /\ InTableOrder'
    BY <1>1, NextTypeOK, NextLoopInv DEF IInv, LoopsInv
  <1>3. ChooseInv'
    BY <1>1, ChooseNextInv DEF IInv, LoopsInv
  <1>4. Fresh'
    BY <1>1 DEF IInv, Handed, Fresh, chooseVars
  <1>5. QED
    BY <1>1, <1>2, <1>3, <1>4 DEF IInv, LoopsInv, Handed

(* The call of choose() puts it where its own initial states are.          *)
LEMMA CalledChooseInv ==
    ASSUME Fresh', hash' \in Nat, NEW n \in Nat,
           isUp' \in [1 .. n -> BOOLEAN], weight' \in [1 .. n -> WeightValues]
    PROVE  ChooseInv' /\ Entries' = 1 .. n
  <1>1. Entries' = 1 .. n
    BY DEF Entries
  <1>2. Given'
    <2>1. \A x \in 1 .. n : weight'[x] \in Nat /\ isUp'[x] \in BOOLEAN
      BY WeightAssumption
    <2>2. QED
      BY <1>1, <2>1 DEF Given
  <1>3. Typed' /\ Cumulative' /\ Picking'
    BY DEF Fresh, Typed, Cumulative, Picking, Ups, Before
  <1>4. Summed'
    BY <1>1 DEF Fresh, Summed
  <1>5. Settled'
    BY <1>1 DEF Fresh, Settled, ChosenIsUsable, Pending, NoEntry
  <1>6. QED
    BY <1>1, <1>2, <1>3, <1>4, <1>5 DEF ChooseInv

LEMMA CallChooseInv ==
    ASSUME IInv, CallChoose
    PROVE  IInv'
  <1> DEFINE left == EraseIncoming(entries)
  <1>1. /\ stage = "lpm" /\ Fresh /\ Fresh'
        /\ UNCHANGED lpmVars /\ UNCHANGED <<incoming, hash, pc, pos, sum, upEntries, result>>
    BY DEF CallChoose, IInv, Handed, Fresh
  <1>2. LpmTypeOK' /\ LoopInv' /\ InTableOrder'
    BY <1>1, NextTypeOK, NextLoopInv DEF IInv, LoopsInv
  <1>3. next = Len(table) + 1
    BY DEF CallChoose, IInv, LoopsInv, LpmTypeOK, Rows
  <1>4. Collected \ {incoming} = Onward
    BY <1>3, LoopInvCollectsTheBest DEF IInv, LoopsInv, CollectsTheBest, Onward
  <1>5. left \in Seq(Rows) /\ {left[x] : x \in 1 .. Len(left)} = Onward
    BY <1>4, ErasedEntries DEF IInv, LoopsInv
  <1>6. Onward' = Onward /\ next' = Len(table') + 1
    BY <1>1, <1>3, OnwardStands DEF lpmVars
  <1>7. CASE left = <<>> /\ stage' = "noRoute" /\ UNCHANGED <<kept, isUp, weight>>
    <2>1. Onward = {}
      BY <1>5, <1>7
    <2>2. ChooseInv'
      BY <1>1, <1>7, ChooseNextInv DEF IInv, LoopsInv, chooseVars
    <2>3. Handed'
      BY <1>1, <1>6, <1>7, <2>1 DEF Handed, Fresh
    <2>4. QED
      BY <1>2, <1>7, <2>2, <2>3 DEF IInv, LoopsInv
  <1>8. CASE /\ left # <<>> /\ stage' = "choose" /\ kept' = left
             /\ isUp' \in [1 .. Len(left) -> BOOLEAN]
             /\ weight' \in [1 .. Len(left) -> WeightValues]
    <2> HIDE DEF left
    <2>1. Len(left) \in Nat /\ 1 \in 1 .. Len(left)
      BY <1>5, <1>8
    <2>2. hash' \in Nat
      BY <1>1 DEF IInv, LoopsInv, ChooseInv, Given
    <2>3. ChooseInv' /\ Entries' = 1 .. Len(left)
      BY <1>1, <1>8, <2>1, <2>2, CalledChooseInv
    <2>4. Onward # {}
      BY <1>5, <2>1
    <2>5. Handed'
      BY <1>5, <1>6, <1>8, <2>3, <2>4 DEF Handed
    <2>6. QED
      BY <1>2, <1>8, <2>3, <2>5 DEF IInv, LoopsInv
  <1>9. QED
    BY <1>7, <1>8 DEF CallChoose

LEMMA ChooseStepInv ==
    ASSUME IInv, ChooseStep
    PROVE  IInv'
  <1>1. /\ stage = "choose" /\ stage' = "choose" /\ ChooseNext
        /\ UNCHANGED lpmVars /\ UNCHANGED <<incoming, kept>>
    BY DEF ChooseStep
  <1>2. LpmTypeOK' /\ LoopInv' /\ InTableOrder'
    BY <1>1, NextTypeOK, NextLoopInv DEF IInv, LoopsInv
  <1>3. ChooseInv'
    BY <1>1, ChooseNextInv DEF IInv, LoopsInv
  <1>4. Onward' = Onward /\ Entries' = Entries
    BY <1>1, OnwardStands DEF lpmVars, ChooseNext, Entries
  <1>5. Handed'
    BY <1>1, <1>4 DEF IInv, Handed, lpmVars
  <1>6. QED
    BY <1>1, <1>2, <1>3, <1>5 DEF IInv, LoopsInv

LEMMA NextInv == IInv /\ [Next]_vars => IInv'
  <1> SUFFICES ASSUME IInv, [Next]_vars PROVE IInv'
    OBVIOUS
  <1>1. CASE UNCHANGED vars
    <2>1. UNCHANGED lpmVars /\ UNCHANGED chooseVars /\ UNCHANGED <<incoming, stage, kept>>
      BY <1>1 DEF vars
    <2>2. LpmTypeOK' /\ LoopInv' /\ InTableOrder' /\ ChooseInv'
      BY <2>1, NextTypeOK, NextLoopInv, ChooseNextInv DEF IInv, LoopsInv
    <2>3. Onward' = Onward /\ Entries' = Entries /\ (Fresh => Fresh')
      BY <2>1, OnwardStands DEF lpmVars, chooseVars, Entries, Fresh
    <2>4. Handed'
      BY <2>1, <2>3 DEF IInv, Handed, lpmVars, chooseVars
    <2>5. QED
      BY <2>1, <2>2, <2>4 DEF IInv, LoopsInv
  <1>2. QED
    BY <1>1, LpmStepInv, CallChooseInv, ChooseStepInv DEF Next

---------------------------------------------------------------------------
LEMMA IInvLookupIsRight == IInv => LookupIsRight
  <1> SUFFICES ASSUME IInv PROVE LookupIsRight
    OBVIOUS
  <1>1. ChooseInv /\ Handed /\ stage \in {"lpm", "choose", "noRoute"}
    BY DEF IInv, LoopsInv
  <1>2. PICK n \in Nat : Entries = 1 .. n
    BY <1>1 DEF ChooseInv, Given
  <1>3. result # Pending => stage = "choose" /\ pc = "done"
    BY <1>1 DEF Handed, Fresh, ChooseInv, Settled
  <1>4. ASSUME result \in Entries PROVE kept[result] \in Onward /\ Usable(result)
    <2>1. result # Pending
      BY <1>2, <1>4 DEF Pending
    <2>2. QED
      BY <1>1, <1>3, <1>4, <2>1 DEF Handed, ChooseInv, Settled, ChosenIsUsable, Usable
  <1>5. ASSUME result = Aborted, NEW x \in Entries PROVE ~Usable(x)
    <2>1. result # Pending
      BY <1>5 DEF Pending, Aborted
    <2>2. sum = 0 /\ pc = "done"
      BY <1>1, <1>3, <1>5, <2>1 DEF ChooseInv, Settled
    <2>3. ~isUp[x] \/ weight[x] = 0
      BY <1>1, <2>2 DEF ChooseInv, Summed
    <2>4. QED
      BY <2>3 DEF Usable
  <1>6. result # NoEntry
    BY <1>1 DEF ChooseInv, Settled
  <1>7. QED
    BY <1>1, <1>4, <1>5, <1>6 DEF Handed, LookupIsRight

(* The routes that a lookup finds are the best ones of the table.          *)
THEOREM CollectsTheBestCorrect == Spec => []CollectsTheBest
  <1>1. IInv => CollectsTheBest
    BY LoopInvCollectsTheBest DEF IInv, LoopsInv
  <1>2. QED
    BY InitInv, NextInv, <1>1, PTL DEF Spec

(* ... in the order of the table.                                          *)
THEOREM InTableOrderCorrect == Spec => []InTableOrder
  <1>1. IInv => InTableOrder
    BY DEF IInv, LoopsInv
  <1>2. QED
    BY InitInv, NextInv, <1>1, PTL DEF Spec

(* The whole lookup answers with a best, usable route away from where the  *)
(* packet came from, and with no route or an abort only without one.       *)
THEOREM LookupIsRightCorrect == Spec => []LookupIsRight
  BY InitInv, NextInv, IInvLookupIsRight, PTL DEF Spec

---------------------------------------------------------------------------
(* Sums of weights.  TotalWeight is a fold, a recursive function on the    *)
(* subsets of the set.  Induction over them: a set of finite sets has one  *)
(* that is smallest for inclusion.                                         *)

Chosen(s) == CHOOSE x \in s : TRUE
Sums(A, w, f) == f = [s \in SUBSET A |->
                        IF s = {} THEN 0 ELSE w[Chosen(s)] + f[s \ {Chosen(s)}]]
Running(A, w) == CHOOSE f : Sums(A, w, f)

LEMMA TotalIsRunning == ASSUME NEW A, NEW w PROVE TotalWeight(A, w) = Running(A, w)[A]
  BY DEF TotalWeight, MapThenSumSet, MapThenFoldSet, Running, Sums, Chosen

LEMMA ChosenIn == ASSUME NEW s, s # {} PROVE Chosen(s) \in s
  BY Zenon DEF Chosen

LEMMA SmallestSet ==
    ASSUME NEW A, IsFiniteSet(A), NEW T, T \subseteq SUBSET A, T # {}
    PROVE  \E s \in T : \A t \in T : t \subseteq s => t = s
  <1> DEFINE R == StrictSubsetOrdering(A)
  <1>1. IsWellFoundedOn(R, SUBSET A)
    BY FS_FiniteSubsetsOfFinite, FS_StrictSubsetOrderingWellFounded
  <1>2. \A s, t \in SUBSET A : t \subseteq s /\ t # s => <<t, s>> \in R
    BY DEF StrictSubsetOrdering
  <1> HIDE DEF R
  <1>3. PICK s \in T : \A t \in T : ~(<<t, s>> \in R)
    BY <1>1, WFMin
  <1>4. \A t \in T : t \subseteq s => t = s
    BY <1>2, <1>3
  <1>5. QED
    BY <1>3, <1>4

LEMMA SumsValue ==
    ASSUME NEW A, NEW w, NEW f, Sums(A, w, f), NEW s \in SUBSET A
    PROVE  f[s] = IF s = {} THEN 0 ELSE w[Chosen(s)] + f[s \ {Chosen(s)}]
  BY Zenon DEF Sums

LEMMA SumsAgree ==
    ASSUME NEW A, IsFiniteSet(A), NEW w, NEW f, Sums(A, w, f),
           NEW B \in SUBSET A, NEW g, Sums(B, w, g), NEW s \in SUBSET B
    PROVE  f[s] = g[s]
  <1> SUFFICES ASSUME f[s] # g[s] PROVE FALSE
    OBVIOUS
  <1> DEFINE T == {t \in SUBSET B : f[t] # g[t]}
  <1>1. T \subseteq SUBSET A /\ T # {}
    OBVIOUS
  <1>2. PICK t \in T : \A q \in T : q \subseteq t => q = t
    <2> HIDE DEF T
    <2>1. QED
      BY <1>1, SmallestSet
  <1>3. t \in SUBSET A /\ t \in SUBSET B /\ f[t] # g[t]
    OBVIOUS
  <1> DEFINE x == Chosen(t)
  <1>4. /\ f[t] = IF t = {} THEN 0 ELSE w[x] + f[t \ {x}]
        /\ g[t] = IF t = {} THEN 0 ELSE w[x] + g[t \ {x}]
    BY <1>3, SumsValue
  <1>5. t # {} /\ x \in t
    BY <1>3, <1>4, ChosenIn
  <1> HIDE DEF x
  <1>6. t \ {x} \notin T
    BY <1>2, <1>5
  <1>7. f[t \ {x}] = g[t \ {x}]
    BY <1>3, <1>6
  <1>8. QED
    BY <1>3, <1>4, <1>7

LEMMA SumsExist ==
    ASSUME NEW A, IsFiniteSet(A), NEW w
    PROVE  Sums(A, w, Running(A, w))
  <1> DEFINE Has(B) == \E f : Sums(B, w, f)
  <1>1. \A B : Has(B) => Sums(B, w, Running(B, w))
    BY Zenon DEF Running
  <1> SUFFICES ASSUME ~Has(A) PROVE FALSE
    BY <1>1
  <1> DEFINE T == {B \in SUBSET A : ~Has(B)}
  <1>2. T \subseteq SUBSET A /\ A \in T
    OBVIOUS
  <1>3. PICK B \in T : \A C \in T : C \subseteq B => C = B
    <2> HIDE DEF T
    <2>1. QED
      BY <1>2, SmallestSet
  <1>4. B \in SUBSET A /\ ~Has(B) /\ \A C \in SUBSET B : C # B => Has(C)
    BY <1>3
  <1> HIDE DEF T, Has
  <1> DEFINE Less(s) == s \ {Chosen(s)}
             F(s) == IF s = {} THEN 0 ELSE w[Chosen(s)] + Running(Less(s), w)[Less(s)]
             f == [s \in SUBSET B |-> F(s)]
  <1>5. ASSUME NEW s \in SUBSET B, s # {}
        PROVE  /\ Less(s) \in SUBSET B /\ Less(s) # B
               /\ F(Less(s)) = Running(Less(s), w)[Less(s)]
    <2> DEFINE r == Less(s)
    <2>1. r \in SUBSET B /\ r # B
      BY <1>5, ChosenIn
    <2> HIDE DEF r, Less
    <2>2. Sums(r, w, Running(r, w)) /\ IsFiniteSet(r)
      <3>1. r \in SUBSET A
        BY <1>4, <2>1
      <3>2. QED
        BY <1>1, <1>4, <2>1, <3>1, FS_Subset
    <2>3. r \in SUBSET r
      OBVIOUS
    <2>4. Running(r, w)[r] = IF r = {} THEN 0 ELSE w[Chosen(r)] + Running(r, w)[r \ {Chosen(r)}]
      BY <2>2, <2>3, SumsValue
    <2>5. CASE r = {}
      BY <2>1, <2>4, <2>5 DEF r
    <2>6. CASE r # {}
      <3> DEFINE q == Less(r)
      <3>1. q \in SUBSET r /\ q # r /\ q = r \ {Chosen(r)}
        BY <2>6, ChosenIn DEF Less
      <3> HIDE DEF q
      <3>2. Sums(q, w, Running(q, w))
        BY <1>1, <1>4, <2>1, <3>1
      <3>3. q \in SUBSET q
        OBVIOUS
      <3>4. Running(r, w)[q] = Running(q, w)[q]
        BY <2>2, <3>1, <3>2, <3>3, SumsAgree
      <3>5. F(r) = w[Chosen(r)] + Running(q, w)[q]
        BY <2>6 DEF q
      <3>6. QED
        BY <2>1, <2>4, <2>6, <3>1, <3>4, <3>5 DEF r
    <2>7. QED
      BY <2>5, <2>6
  <1>6. ASSUME NEW s \in SUBSET B
        PROVE  F(s) = IF s = {} THEN 0 ELSE w[Chosen(s)] + f[Less(s)]
    <2>1. CASE s = {}
      BY <2>1
    <2>2. CASE s # {}
      <3>1. f[Less(s)] = F(Less(s))
        <4>1. Less(s) \in SUBSET B
          BY <1>5, <2>2
        <4> HIDE DEF F, Less
        <4>2. QED
          BY <4>1
      <3>2. F(Less(s)) = Running(Less(s), w)[Less(s)]
        BY <1>5, <2>2
      <3>3. F(s) = w[Chosen(s)] + Running(Less(s), w)[Less(s)]
        BY <2>2
      <3> HIDE DEF F, Less, f
      <3>4. QED
        BY <2>2, <3>1, <3>2, <3>3
    <2>3. QED
      BY <2>1, <2>2
  <1>7. f = [s \in SUBSET B |-> IF s = {} THEN 0 ELSE w[Chosen(s)] + f[Less(s)]]
    <2> DEFINE G(s) == IF s = {} THEN 0 ELSE w[Chosen(s)] + f[Less(s)]
    <2>1. \A s \in SUBSET B : F(s) = G(s)
      BY <1>6
    <2> HIDE DEF F, G
    <2>2. f = [s \in SUBSET B |-> G(s)]
      BY <2>1
    <2>3. QED
      BY <2>2 DEF G
  <1>8. Sums(B, w, f)
    <2> HIDE DEF f
    <2>1. QED
      BY <1>7, Zenon DEF Sums
  <1>9. QED
    BY <1>4, <1>8, Zenon DEF Has

LEMMA TotalUnfolds ==
    ASSUME NEW A, IsFiniteSet(A), NEW w
    PROVE  TotalWeight(A, w) =
                IF A = {} THEN 0 ELSE w[Chosen(A)] + TotalWeight(A \ {Chosen(A)}, w)
  <1> DEFINE B == A \ {Chosen(A)}
  <1>1. B \in SUBSET A /\ A \in SUBSET A /\ B \in SUBSET B
    OBVIOUS
  <1> HIDE DEF B
  <1>2. IsFiniteSet(B)
    BY <1>1, FS_Subset
  <1>3. Sums(A, w, Running(A, w)) /\ Sums(B, w, Running(B, w))
    BY <1>2, SumsExist
  <1>4. Running(A, w)[A] = IF A = {} THEN 0 ELSE w[Chosen(A)] + Running(A, w)[B]
    BY <1>1, <1>3, SumsValue DEF B
  <1>5. Running(A, w)[B] = Running(B, w)[B]
    BY <1>1, <1>3, SumsAgree
  <1>6. QED
    BY <1>4, <1>5, TotalIsRunning DEF B

LEMMA TotalType ==
    ASSUME NEW A, IsFiniteSet(A), NEW w, \A x \in A : w[x] \in Nat
    PROVE  TotalWeight(A, w) \in Nat
  <1> SUFFICES ASSUME TotalWeight(A, w) \notin Nat PROVE FALSE
    OBVIOUS
  <1> DEFINE T == {s \in SUBSET A : TotalWeight(s, w) \notin Nat}
  <1>1. T \subseteq SUBSET A /\ A \in T
    OBVIOUS
  <1>2. PICK s \in T : \A t \in T : t \subseteq s => t = s
    <2> HIDE DEF T
    <2>1. QED
      BY <1>1, SmallestSet
  <1>3. s \in SUBSET A /\ TotalWeight(s, w) \notin Nat /\ IsFiniteSet(s)
    BY FS_Subset
  <1> DEFINE x == Chosen(s)
  <1>4. TotalWeight(s, w) = IF s = {} THEN 0 ELSE w[x] + TotalWeight(s \ {x}, w)
    BY <1>3, TotalUnfolds
  <1>5. s # {} /\ x \in s
    BY <1>3, <1>4, ChosenIn
  <1> HIDE DEF x
  <1>6. TotalWeight(s \ {x}, w) \in Nat /\ w[x] \in Nat
    BY <1>2, <1>3, <1>5
  <1>7. QED
    BY <1>3, <1>4, <1>5, <1>6

(* Any member can be added last.                                           *)
LEMMA TotalWithout ==
    ASSUME NEW A, IsFiniteSet(A), NEW w, \A x \in A : w[x] \in Nat, NEW y \in A
    PROVE  TotalWeight(A, w) = w[y] + TotalWeight(A \ {y}, w)
  <1> DEFINE Splits(s) == \A z \in s : TotalWeight(s, w) = w[z] + TotalWeight(s \ {z}, w)
  <1> SUFFICES ASSUME ~Splits(A) PROVE FALSE
    OBVIOUS
  <1> DEFINE T == {s \in SUBSET A : ~Splits(s)}
  <1>1. T \subseteq SUBSET A /\ A \in T
    OBVIOUS
  <1>2. PICK s \in T : \A t \in T : t \subseteq s => t = s
    <2> HIDE DEF T
    <2>1. QED
      BY <1>1, SmallestSet
  <1>3. s \in SUBSET A /\ ~Splits(s) /\ \A t \in SUBSET s : t # s => Splits(t)
    <2> HIDE DEF Splits
    <2>1. QED
      BY <1>2
  <1> HIDE DEF T
  <1>4. PICK z \in s : TotalWeight(s, w) # w[z] + TotalWeight(s \ {z}, w)
    BY <1>3
  <1> DEFINE x == Chosen(s)
  <1>5. /\ IsFiniteSet(s) /\ x \in s /\ w[x] \in Nat /\ w[z] \in Nat
        /\ TotalWeight(s, w) = w[x] + TotalWeight(s \ {x}, w)
    <2>1. IsFiniteSet(s) /\ s # {}
      BY <1>3, <1>4, FS_Subset
    <2>2. x \in s
      BY <2>1, ChosenIn
    <2>3. QED
      BY <1>3, <2>1, <2>2, TotalUnfolds
  <1> HIDE DEF x
  <1>6. x # z
    BY <1>4, <1>5
  <1> DEFINE both == (s \ {x}) \ {z}
  <1>7. TotalWeight(s \ {x}, w) = w[z] + TotalWeight(both, w)
    <2>1. s \ {x} \in SUBSET s /\ s \ {x} # s /\ z \in s \ {x}
      BY <1>5, <1>6
    <2>2. Splits(s \ {x})
      <3> HIDE DEF Splits
      <3>1. QED
        BY <1>3, <2>1
    <2>3. QED
      BY <2>1, <2>2
  <1>8. TotalWeight(s \ {z}, w) = w[x] + TotalWeight(both, w)
    <2>1. s \ {z} \in SUBSET s /\ s \ {z} # s /\ x \in s \ {z}
      BY <1>5, <1>6
    <2>2. Splits(s \ {z})
      <3> HIDE DEF Splits
      <3>1. QED
        BY <1>3, <2>1
    <2>3. (s \ {z}) \ {x} = both
      OBVIOUS
    <2>4. QED
      BY <2>1, <2>2, <2>3
  <1>9. TotalWeight(both, w) \in Nat
    <2>1. both \in SUBSET s /\ IsFiniteSet(s) /\ \A i \in both : w[i] \in Nat
      BY <1>3, <1>5
    <2> HIDE DEF both
    <2>2. IsFiniteSet(both)
      BY <2>1, FS_Subset
    <2>3. QED
      BY <2>1, <2>2, TotalType
  <1> HIDE DEF both
  <1>10. QED
    BY <1>4, <1>5, <1>7, <1>8, <1>9

---------------------------------------------------------------------------
(* The shares of choose().                                                 *)

Up == {x \in Entries : isUp[x]}

(* The list of the first loop has every entry that is up, in order, with   *)
(* the total up to it; the second loop has passed those that the hash is   *)
(* not below.                                                              *)
ShareInv ==
    /\ \A x \in Ups : /\ upEntries[x].upTo = UpTo(Up, weight, upEntries[x].entry)
                      /\ pc = "sum" => upEntries[x].entry < pos
                      /\ pc = "pick" /\ x < pos => ~Below(Residue, upEntries[x].upTo)
    /\ \A x, y \in Ups : x < y => upEntries[x].entry < upEntries[y].entry
    /\ \A i \in Up : pc # "sum" \/ i < pos => \E x \in Ups : upEntries[x].entry = i
    /\ sum = TotalWeight(IF pc = "sum" THEN {j \in Up : j < pos} ELSE Up, weight)
    /\ ExactShare

LEMMA UpFinite ==
    ASSUME Given
    PROVE  /\ Up \subseteq Int /\ IsFiniteSet(Up)
           /\ \A S \in SUBSET Up : IsFiniteSet(S) /\ \A x \in S : weight[x] \in Nat
  <1>1. PICK n \in Nat : Entries = 1 .. n
    BY DEF Given
  <1>2. Up \in SUBSET (1 .. n)
    BY <1>1 DEF Up
  <1>3. IsFiniteSet(1 .. n)
    BY FS_Interval
  <1>4. IsFiniteSet(Up)
    BY <1>2, <1>3, FS_Subset
  <1>5. \A S \in SUBSET Up : IsFiniteSet(S)
    BY <1>4, FS_Subset
  <1>6. \A x \in Up : weight[x] \in Nat
    BY DEF Up, Given
  <1>7. QED
    BY <1>2, <1>4, <1>5, <1>6

LEMMA NoSum == ASSUME NEW w PROVE TotalWeight({}, w) = 0
  BY FS_EmptySet, TotalUnfolds

(* Before the first iteration there is nothing to say.                     *)
LEMMA FreshShare == Given /\ Fresh => ShareInv
  <1> SUFFICES ASSUME Given, Fresh PROVE ShareInv
    OBVIOUS
  <1>1. PICK n \in Nat : Entries = 1 .. n
    BY DEF Given
  <1>2. {j \in Up : j < pos} = {} /\ Ups = {}
    BY <1>1 DEF Up, Ups, Fresh
  <1>3. ExactShare
    BY <1>1 DEF ExactShare, Pending, Fresh
  <1>4. \A i \in Up : ~(i < pos)
    BY <1>2
  <1>5. QED
    BY <1>2, <1>3, <1>4, NoSum DEF ShareInv, Fresh

(* A step of the first loop.                                               *)
LEMMA SumLoopShare ==
    ASSUME ChooseInv, ShareInv, SumLoop, UNCHANGED <<isUp, weight, hash>>
    PROVE  ShareInv'
  <1>g. Up' = Up /\ Entries' = Entries
    BY DEF Up, Entries
  <1>p. pc = "sum" /\ result = Pending /\ pos \in Nat \ {0} /\ sum \in Nat
    BY DEF SumLoop, ChooseInv, Settled, Typed
  <1>n. PICK n \in Nat : Entries = 1 .. n
    BY DEF ChooseInv, Given
  <1>f. /\ Up \subseteq Int
        /\ \A S \in SUBSET Up : IsFiniteSet(S) /\ \A x \in S : weight[x] \in Nat
    BY UpFinite DEF ChooseInv
  <1>s. sum = TotalWeight({j \in Up : j < pos}, weight)
    BY <1>p DEF ShareInv
  <1>e. ExactShare'
    <2>1. result' = Pending
      BY <1>p DEF SumLoop, AddUpEntry
    <2>2. QED
      BY <1>g, <1>n, <2>1 DEF ExactShare, Pending
  <1>1. CASE pos \in Entries /\ isUp[pos] /\ AddUpEntry
    <2> DEFINE new == [entry |-> pos, upTo |-> sum + weight[pos]]
    <2>1. /\ pos' = pos + 1 /\ pc' = "sum"
          /\ sum' = sum + weight[pos] /\ upEntries' = Append(upEntries, new)
      BY <1>p, <1>1 DEF SumLoop, AddUpEntry
    <2>2. upEntries \in Seq([entry : Entries, upTo : Nat])
      BY DEF ChooseInv, Typed
    <2>3. /\ Len(upEntries) \in Nat /\ Ups' = 1 .. Len(upEntries) + 1
          /\ upEntries'[Len(upEntries) + 1] = new
          /\ \A x \in Ups : upEntries'[x] = upEntries[x]
      BY <2>1, <2>2 DEF Ups
    <2>4. new.entry = pos /\ new.upTo = sum + weight[pos]
      OBVIOUS
    <2> HIDE DEF new
    <2>5. pos \in Up
      BY <1>1 DEF Up
    (* The total up to this entry is the sum with its weight.              *)
    <2> DEFINE here == {j \in Up : j < pos + 1}
               past == {j \in Up : j < pos}
    <2>6. here \in SUBSET Up /\ pos \in here /\ here \ {pos} = past /\ here = {j \in Up : j <= pos}
      <3>1. \A j \in Up : j \in Int
        BY <1>f
      <3>2. pos < pos + 1
        BY <1>p
      <3>3. \A j : j \in here <=> j \in Up /\ j < pos + 1
        OBVIOUS
      <3>4. \A j : j \in past <=> j \in Up /\ j < pos
        OBVIOUS
      <3> HIDE DEF here, past
      <3>5. \A j : j \in here \ {pos} <=> j \in past
        BY <1>p, <3>1, <3>3, <3>4
      <3>6. \A j : j \in here <=> j \in {i \in Up : i <= pos}
        BY <1>p, <3>1, <3>3
      <3>7. here \ {pos} = past
        BY <3>5
      <3>8. here = {j \in Up : j <= pos}
        BY <3>6
      <3>9. QED
        BY <2>5, <3>2, <3>3, <3>7, <3>8
    <2>7. TotalWeight(here, weight) = sum + weight[pos]
      <3> HIDE DEF here
      <3>1. TotalWeight(here, weight) = weight[pos] + TotalWeight(here \ {pos}, weight)
        BY <1>f, <2>6, TotalWithout
      <3>2. weight[pos] \in Nat
        BY <1>f, <2>6
      <3>3. QED
        BY <1>p, <1>s, <2>6, <3>1, <3>2
    <2>8. UpTo(Up, weight, pos) = TotalWeight(here, weight)
      BY <2>6 DEF UpTo
    <2>9. sum' = TotalWeight({j \in Up : j < pos'}, weight)
      BY <2>1, <2>7
    <2> HIDE DEF here, past
    <2>10. ASSUME NEW x \in Ups'
           PROVE  /\ upEntries'[x].upTo = UpTo(Up, weight, upEntries'[x].entry)
                  /\ upEntries'[x].entry < pos'
      <3>1. CASE x \in Ups
        <4>1. /\ upEntries[x].upTo = UpTo(Up, weight, upEntries[x].entry)
              /\ upEntries[x].entry < pos /\ upEntries[x].entry \in Int
          BY <1>n, <1>p, <3>1, UpEntryTyped DEF ShareInv, ChooseInv
        <4>2. QED
          BY <1>p, <2>1, <2>3, <3>1, <4>1
      <3>2. CASE x = Len(upEntries) + 1
        BY <1>p, <2>1, <2>3, <2>4, <2>7, <2>8, <3>2
      <3>3. QED
        BY <2>3, <3>1, <3>2 DEF Ups
    <2>11. ASSUME NEW x \in Ups', NEW y \in Ups', x < y
           PROVE  upEntries'[x].entry < upEntries'[y].entry
      <3>1. x \in Ups /\ upEntries[x].entry < pos
        BY <1>p, <2>3, <2>11 DEF Ups, ShareInv
      <3>2. CASE y \in Ups
        BY <2>3, <2>11, <3>1, <3>2 DEF ShareInv
      <3>3. CASE y = Len(upEntries) + 1
        BY <2>3, <2>4, <3>1, <3>3
      <3>4. QED
        BY <2>3, <3>2, <3>3 DEF Ups
    <2>12. ASSUME NEW i \in Up, i < pos'
           PROVE  \E x \in Ups' : upEntries'[x].entry = i
      <3>1. CASE i = pos
        BY <2>3, <2>4, <3>1
      <3>2. CASE i # pos
        <4>1. i < pos
          BY <1>f, <1>p, <2>1, <2>12, <3>2
        <4>2. PICK x \in Ups : upEntries[x].entry = i
          BY <4>1 DEF ShareInv
        <4>3. x \in Ups'
          BY <2>3 DEF Ups
        <4>4. QED
          BY <2>3, <4>2, <4>3
      <3>3. QED
        BY <3>1, <3>2
    <2>13. QED
      BY <1>e, <1>g, <2>1, <2>9, <2>10, <2>11, <2>12 DEF ShareInv
  <1>2. CASE pos \in Entries /\ ~isUp[pos] /\ UNCHANGED <<sum, upEntries>>
    <2>1. pos' = pos + 1 /\ pc' = "sum" /\ Ups' = Ups
      BY <1>p, <1>2 DEF SumLoop, Ups
    <2>2. \A i \in Up : i < pos' <=> i < pos
      BY <1>f, <1>p, <1>2, <2>1 DEF Up
    <2>3. {j \in Up : j < pos'} = {j \in Up : j < pos}
      BY <2>2
    <2>4. \A x \in Ups : upEntries[x].entry < pos'
      BY <1>n, <1>p, <2>1, UpEntryTyped DEF ShareInv, ChooseInv
    <2>5. QED
      BY <1>e, <1>g, <1>p, <1>s, <1>2, <2>1, <2>2, <2>3, <2>4 DEF ShareInv
  <1>3. CASE pos \notin Entries /\ pc' = "decide" /\ UNCHANGED <<pos, sum, upEntries, result>>
    <2>1. \A i \in Up : i < pos
      BY <1>n, <1>p, <1>3 DEF Up
    <2>2. {j \in Up : j < pos} = Up
      BY <2>1
    <2>3. Ups' = Ups
      BY <1>3 DEF Ups
    <2>4. QED
      BY <1>e, <1>g, <1>p, <1>s, <1>3, <2>1, <2>2, <2>3 DEF ShareInv
  <1>4. QED
    BY <1>1, <1>2, <1>3 DEF SumLoop

(* What the second loop finds first is Pick.                               *)
LEMMA FirstIsPick ==
    ASSUME ChooseInv, ShareInv, pc # "sum", sum # 0, NEW x \in Ups,
           Below(Residue, upEntries[x].upTo),
           \A y \in Ups : y < x => ~Below(Residue, upEntries[y].upTo)
    PROVE  upEntries[x].entry = Pick(Up, weight, hash)
  <1> DEFINE e == upEntries[x].entry
             residue == hash % TotalWeight(Up, weight)
             First(i) == /\ residue < UpTo(Up, weight, i)
                         /\ \A j \in Up : residue < UpTo(Up, weight, j) => i <= j
  <1>1. Residue = residue
    BY DEF ShareInv, Residue
  <1>2. \A y \in Ups : upEntries[y].upTo = UpTo(Up, weight, upEntries[y].entry)
    BY DEF ShareInv
  <1>3. /\ Up \subseteq Int /\ e \in Up
        /\ \A y \in Ups : upEntries[y].entry \in Int
    <2>1. \A y \in Ups : upEntries[y].entry \in Entries /\ isUp[upEntries[y].entry]
      BY UpEntryTyped DEF ChooseInv, Cumulative
    <2>2. Up \subseteq Int
      BY UpFinite DEF ChooseInv
    <2>3. QED
      BY <2>1, <2>2 DEF Up
  <1>4. residue < UpTo(Up, weight, e)
    BY <1>1, <1>2 DEF Below
  <1> HIDE DEF residue
  <1>5. ASSUME NEW j \in Up, residue < UpTo(Up, weight, j)
        PROVE  e <= j
    <2>1. PICK y \in Ups : upEntries[y].entry = j
      BY DEF ShareInv
    <2>2. ~(y < x)
      BY <1>1, <1>2, <1>5, <2>1 DEF Below
    <2>3. y = x \/ x < y
      BY <2>2 DEF Ups
    <2>4. y = x \/ e < j
      BY <2>1, <2>3 DEF ShareInv
    <2>5. QED
      BY <1>3, <2>1, <2>4
  <1> HIDE DEF e
  <1>6. First(e) /\ \A i \in Up : First(i) => i = e
    BY <1>3, <1>4, <1>5
  <1>7. Pick(Up, weight, hash) = CHOOSE i \in Up : First(i)
    BY DEF Pick, residue
  <1> HIDE DEF First
  <1>8. QED
    BY <1>3, <1>6, <1>7 DEF e

(* After the first loop only the position and the result change.           *)
LEMMA LaterShare ==
    ASSUME ChooseInv, ShareInv, pc # "sum", pc' # "sum",
           UNCHANGED <<isUp, weight, hash, sum, upEntries>>,
           pc' = "pick" => \A x \in Ups : x < pos' => ~Below(Residue, upEntries[x].upTo),
           result' \in Entries => result' = Pick(Up, weight, hash)
    PROVE  ShareInv'
  <1>1. Up' = Up /\ Entries' = Entries /\ Ups' = Ups /\ Residue' = Residue
    BY DEF Up, Entries, Ups, Residue
  <1>2. ExactShare'
    BY <1>1 DEF ExactShare, Up
  <1>3. QED
    BY <1>1, <1>2 DEF ShareInv, Below

LEMMA DecideShare ==
    ASSUME ChooseInv, ShareInv, Decide, UNCHANGED <<isUp, weight, hash>>
    PROVE  ShareInv'
  <1>n. Pending \notin Entries /\ Aborted \notin Entries /\ NoEntry \notin Entries
    BY DEF ChooseInv, Given, Pending, Aborted, NoEntry
  <1>p. pc = "decide" /\ UNCHANGED <<sum, upEntries>> /\ result = Pending
        /\ sum \in Nat /\ hash \in Nat /\ Len(upEntries) \in Nat
    BY UpEntryTyped DEF Decide, Return, ChooseInv, Settled, Typed, Given
  <1>1. CASE sum = 0 /\ Return(Aborted)
    BY <1>n, <1>p, <1>1, LaterShare DEF Return
  <1>2. CASE /\ sum # 0 /\ Len(upEntries) <= 1
             /\ Return(IF upEntries = <<>> THEN NoEntry ELSE upEntries[1].entry)
    <2>1. CASE upEntries = <<>>
      BY <1>n, <1>p, <1>2, <2>1, LaterShare DEF Return
    <2>2. CASE upEntries # <<>>
      <3>1. Len(upEntries) # 0
        BY <2>2 DEF ChooseInv, Typed
      <3>2. 1 \in Ups /\ sum = upEntries[1].upTo /\ \A y \in Ups : ~(y < 1)
        BY <1>p, <1>2, <3>1 DEF ChooseInv, Cumulative, Ups, Before
      <3>3. Below(Residue, upEntries[1].upTo)
        BY <1>p, <1>2, <3>2 DEF Below, Residue
      <3>4. upEntries[1].entry = Pick(Up, weight, hash)
        BY <1>p, <1>2, <3>2, <3>3, FirstIsPick
      <3>5. result' = upEntries[1].entry /\ pc' = "done"
        BY <1>2, <2>2 DEF Return
      <3>6. QED
        BY <1>p, <3>4, <3>5, LaterShare
    <2>3. QED
      BY <2>1, <2>2
  <1>3. CASE /\ sum # 0 /\ Len(upEntries) > 1 /\ pc' = "pick" /\ pos' = 1
             /\ UNCHANGED <<sum, upEntries, result>>
    <2>1. \A x \in Ups : ~(x < pos')
      BY <1>3 DEF Ups
    <2>2. QED
      BY <1>n, <1>p, <1>3, <2>1, LaterShare
  <1>4. QED
    BY <1>1, <1>2, <1>3 DEF Decide

LEMMA PickLoopShare ==
    ASSUME ChooseInv, ShareInv, PickLoop, UNCHANGED <<isUp, weight, hash>>
    PROVE  ShareInv'
  <1>n. Pending \notin Entries
    BY DEF ChooseInv, Given, Pending
  <1>p. /\ pc = "pick" /\ sum # 0 /\ sum \in Nat /\ hash \in Nat /\ pos \in Nat \ {0}
        /\ Len(upEntries) \in Nat /\ pos <= Len(upEntries) + 1 /\ result = Pending
        /\ UNCHANGED <<sum, upEntries>>
        /\ \A x \in Ups : x < pos => ~Below(Residue, upEntries[x].upTo)
    BY DEF PickLoop, Return, ChooseInv, Picking, Typed, Settled, Given, ShareInv
  <1>r. Residue \in Nat /\ Residue < sum
    BY <1>p DEF Residue
  <1>1. pos <= Len(upEntries)
    <2> SUFFICES ASSUME pos = Len(upEntries) + 1 PROVE FALSE
      BY <1>p
    <2>1. Len(upEntries) # 0 /\ sum = upEntries[Len(upEntries)].upTo
      BY <1>p DEF ChooseInv, Cumulative, Before
    <2>2. Len(upEntries) \in Ups /\ Len(upEntries) < pos
      BY <1>p, <2>1 DEF Ups
    <2>3. QED
      BY <1>p, <1>r, <2>1, <2>2 DEF Below
  <1>2. CASE Found /\ Return(upEntries[IF pos > Len(upEntries) THEN Len(upEntries) ELSE pos].entry)
    <2>1. pos \in Ups /\ Below(Residue, upEntries[pos].upTo) /\ Return(upEntries[pos].entry)
      BY <1>p, <1>1, <1>2 DEF Found, Ups
    <2>2. upEntries[pos].entry = Pick(Up, weight, hash)
      BY <1>p, <2>1, FirstIsPick
    <2>3. QED
      BY <1>p, <2>1, <2>2, LaterShare DEF Return
  <1>3. CASE ~Found /\ pos' = pos + 1 /\ UNCHANGED <<pc, sum, upEntries, result>>
    <2>1. pos \in Ups /\ ~Below(Residue, upEntries[pos].upTo)
      BY <1>p, <1>1, <1>3 DEF Found, Ups
    <2>2. \A x \in Ups : x < pos' => x < pos \/ x = pos
      BY <1>p, <1>3 DEF Ups
    <2>3. QED
      BY <1>n, <1>p, <1>3, <2>1, <2>2, LaterShare
  <1>4. QED
    BY <1>2, <1>3 DEF PickLoop

LEMMA ChooseNextShare == ChooseInv /\ ShareInv /\ [ChooseNext]_chooseVars => ShareInv'
  <1> SUFFICES ASSUME ChooseInv, ShareInv, [ChooseNext]_chooseVars PROVE ShareInv'
    OBVIOUS
  <1>1. CASE ChooseNext
    BY <1>1, SumLoopShare, DecideShare, PickLoopShare DEF ChooseNext
  <1>2. CASE UNCHANGED chooseVars
    <2>1. Up' = Up /\ Entries' = Entries /\ Ups' = Ups /\ Residue' = Residue
      BY <1>2 DEF chooseVars, Up, Entries, Ups, Residue
    <2>2. ExactShare'
      BY <1>2, <2>1 DEF chooseVars, ShareInv, ExactShare
    <2>3. QED
      BY <1>2, <2>1, <2>2 DEF chooseVars, ShareInv, Below
  <1>3. QED
    BY <1>1, <1>2

(* The entry returned is the one whose share of the hash values the hash   *)
(* of the packet falls into: choose() called on its own, for any entries.  *)
THEOREM ChooseExactShareCorrect == ChooseSpec => []ExactShare
  <1>1. ChooseInit => ChooseInv /\ ShareInv
    <2> SUFFICES ASSUME ChooseInit PROVE ChooseInv /\ ShareInv
      OBVIOUS
    <2>1. ChooseInv
      BY ChooseInitInv
    <2>2. QED
      BY <2>1, FreshShare DEF ChooseInit, ChooseInv, Fresh
  <1>2. ShareInv => ExactShare
    BY DEF ShareInv
  <1>3. QED
    BY ChooseNextInv, ChooseNextShare, <1>1, <1>2, PTL DEF ChooseSpec

---------------------------------------------------------------------------
(* Within a lookup too, the entry is the one whose share of the hash       *)
(* values the hash falls into.                                             *)
THEOREM ExactShareCorrect == Spec => []ExactShare
  <1>1. Init => IInv /\ ShareInv
    <2> SUFFICES ASSUME Init PROVE IInv /\ ShareInv
      OBVIOUS
    <2>1. IInv /\ Given /\ Fresh
      BY InitInv DEF Init, ChooseInit, Fresh, IInv, LoopsInv, ChooseInv
    <2>2. QED
      BY <2>1, FreshShare
  <1>2. IInv /\ ShareInv /\ [Next]_vars => IInv' /\ ShareInv'
    <2> SUFFICES ASSUME IInv, ShareInv, [Next]_vars PROVE IInv' /\ ShareInv'
      OBVIOUS
    <2>1. IInv' /\ ChooseInv /\ ChooseInv'
      BY NextInv DEF IInv, LoopsInv
    <2>2. CASE LpmStep \/ UNCHANGED vars
      BY <2>1, <2>2, ChooseNextShare DEF LpmStep, vars
    <2>3. CASE CallChoose
      <3>1. Fresh'
        BY <2>3 DEF CallChoose, IInv, Handed, Fresh
      <3>2. Given'
        BY <2>1 DEF ChooseInv
      <3>3. ShareInv'
        BY <3>1, <3>2, FreshShare, PTL
      <3>4. QED
        BY <2>1, <3>3
    <2>4. CASE ChooseStep
      BY <2>1, <2>4, ChooseNextShare DEF ChooseStep
    <2>5. QED
      BY <2>2, <2>3, <2>4 DEF Next
  <1>3. ShareInv => ExactShare
    BY DEF ShareInv
  <1>4. QED
    BY <1>1, <1>2, <1>3, PTL DEF Spec

===========================================================================
