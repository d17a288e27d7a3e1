------------------------- MODULE ClickHouseProofs -------------------------
(***************************************************************************)
(* Theorems about ClickHouse, for every number of adders, every batch size *)
(* and every run length.                                                   *)
(***************************************************************************)
EXTENDS ClickHouse, FiniteSetTheorems, SequenceTheorems, TLAPS

BackingArrays == [cells : Seq(Nat), cap : Nat]

Shape ==
    /\ pc \in [Procs -> {"idle", "check", "load", "reset", "closing", "closed"}]
    /\ arrays # <<>>
    /\ arrays \in Seq(BackingArrays)
    /\ added \in Nat

Inv == Shape /\ BatchBound

LEMMA BusyFinite == IsFiniteSet(Busy) /\ Cardinality(Busy) \in Nat
<1>1. Busy \in SUBSET Adders /\ IsFiniteSet(Adders)
  BY ClickHouseAssumption DEF Busy
<1>2. QED
  BY <1>1, FS_Subset, FS_CardinalityType

(* An empty batch is within every bound. *)
LEMMA EmptyBatchBound == batch = <<>> => BatchBound
BY BusyFinite, ClickHouseAssumption DEF BatchBound

LEMMA InitInv == Init => Inv
<1> SUFFICES ASSUME Init PROVE Inv
  OBVIOUS
<1>1. arrays = <<NewArray>> /\ batch = <<>>
  BY DEF Init, batch, current, NewArray
<1>2. NewArray \in BackingArrays
  BY ClickHouseAssumption DEF NewArray, BackingArrays
<1>3. Shape
  BY <1>1, <1>2 DEF Init, Shape
<1>4. QED
  BY <1>1, <1>3, EmptyBatchBound DEF Inv

LEMMA BatchShape ==
    ASSUME Shape
    PROVE  /\ Len(arrays) \in 1..Len(arrays)
           /\ current \in BackingArrays
           /\ batch \in Seq(Nat)
           /\ Len(batch) \in Nat
<1>1. Len(arrays) \in 1..Len(arrays)
  BY DEF Shape
<1>2. current \in BackingArrays
  BY <1>1, ElementOfSeq DEF Shape, current
<1>3. batch \in Seq(Nat)
  BY <1>2 DEF batch, BackingArrays
<1>4. QED
  BY <1>1, <1>2, <1>3, LenProperties

(* A step that leaves the batch, and who is in the middle of Add, alone. *)
LEMMA Unaffected ==
    ASSUME Inv, Shape', UNCHANGED arrays,
           \A p \in Adders : pc'[p] = "idle" <=> pc[p] = "idle"
    PROVE  Inv'
<1>1. Busy' = Busy
  BY DEF Busy
<1>2. batch' = batch
  BY DEF batch, current
<1>3. QED
  BY <1>1, <1>2 DEF Inv, BatchBound

(* A step that starts a new batch. *)
LEMMA NewBatch ==
    ASSUME Inv, FreshBatch
    PROVE  /\ arrays' \in Seq(BackingArrays)
           /\ arrays' # <<>>
           /\ BatchBound'
<1>1. NewArray \in BackingArrays
  BY ClickHouseAssumption DEF NewArray, BackingArrays
<1>2. arrays' = Append(arrays, NewArray) /\ arrays \in Seq(BackingArrays)
  BY DEF FreshBatch, Inv, Shape
<1>3. /\ arrays' \in Seq(BackingArrays)
      /\ arrays' # <<>>
      /\ arrays'[Len(arrays')] = NewArray
  BY <1>1, <1>2
<1>4. batch' = <<>>
  BY <1>3 DEF batch, current, NewArray
<1>5. IsFiniteSet(Busy') /\ Cardinality(Busy') \in Nat
  <2>1. Busy' \in SUBSET Adders /\ IsFiniteSet(Adders)
    BY ClickHouseAssumption DEF Busy
  <2>2. QED
    BY <2>1, FS_Subset, FS_CardinalityType
<1>6. BatchBound'
  BY <1>4, <1>5, ClickHouseAssumption DEF BatchBound
<1>7. QED
  BY <1>3, <1>6

(* The record appended is paid for by the adder that is now busy. *)
LEMMA AppendRecordInv ==
    ASSUME Inv, NEW p \in Adders, AppendRecord(p)
    PROVE  Inv'
<1>1. Shape /\ Len(arrays) \in 1..Len(arrays) /\ Len(arrays) \in Nat
      /\ current \in BackingArrays /\ batch \in Seq(Nat)
  BY BatchShape DEF Inv, Shape
<1>2. batch' = Append(batch, added + 1) /\ arrays' # <<>>
      /\ arrays' \in Seq(BackingArrays)
  <2>1. added + 1 \in Nat /\ Append(batch, added + 1) \in Seq(Nat)
    BY <1>1 DEF Shape
  <2>2. CASE Len(batch) < current.cap
    <3> DEFINE a == [current EXCEPT !.cells = Append(@, added + 1)]
    <3>1. arrays' = [arrays EXCEPT ![Len(arrays)] = a]
      BY <2>2 DEF AppendRecord, current
    <3>2. a \in BackingArrays /\ a.cells = Append(batch, added + 1)
      BY <1>1, <2>1 DEF batch, BackingArrays
    <3> HIDE DEF a
    <3>3. /\ arrays' \in Seq(BackingArrays)
          /\ Len(arrays') = Len(arrays)
          /\ arrays'[Len(arrays)] = a
      BY <3>1, <3>2, <1>1 DEF Shape
    <3>4. QED
      BY <3>2, <3>3, <1>1 DEF batch, current
  <2>3. CASE ~(Len(batch) < current.cap)
    <3> DEFINE a == [cells |-> Append(batch, added + 1), cap |-> 2 * current.cap]
    <3>1. arrays' = Append(arrays, a)
      BY <2>3 DEF AppendRecord
    <3>2. a \in BackingArrays /\ a.cells = Append(batch, added + 1)
      BY <1>1, <2>1 DEF BackingArrays
    <3> HIDE DEF a
    <3>3. /\ arrays' \in Seq(BackingArrays)
          /\ arrays' # <<>>
          /\ arrays'[Len(arrays')] = a
      BY <3>1, <3>2, AppendProperties DEF Inv, Shape
    <3>4. QED
      BY <3>2, <3>3 DEF batch, current
  <2>4. QED
    BY <2>2, <2>3
<1>3. Shape'
  <2>1. pc' = [pc EXCEPT ![p] = "check"] /\ added' = added + 1
    BY DEF AppendRecord, Goto
  <2>2. added' \in Nat
    BY <1>1, <2>1 DEF Shape
  <2>3. pc' \in [Procs -> {"idle", "check", "load", "reset", "closing", "closed"}]
    BY <1>1, <2>1 DEF Shape
  <2>4. QED
    BY <1>2, <2>2, <2>3 DEF Shape
<1>4. Cardinality(Busy') = Cardinality(Busy) + 1
  <2>1. Busy' = Busy \cup {p} /\ p \notin Busy
    BY <1>1 DEF AppendRecord, Goto, Busy, Shape, Procs
  <2>2. QED
    BY <2>1, BusyFinite, FS_AddElement
<1>5. Len(batch') = Len(batch) + 1 /\ Len(batch) \in Nat
  BY <1>1, <1>2
<1>6. QED
  BY <1>3, <1>4, <1>5, BusyFinite, ClickHouseAssumption DEF Inv, BatchBound

(* An adder only stops being busy, without a reset, when it saw room. *)
LEMMA CheckFullInv ==
    ASSUME Inv, NEW p \in Adders, CheckFull(p)
    PROVE  Inv'
<1>1. Shape' /\ batch' = batch /\ Len(batch) \in Nat
  BY BatchShape DEF Inv, Shape, CheckFull, Goto, Procs, batch, current
<1>2. CASE Full
  <2>1. pc' = [pc EXCEPT ![p] = "load"] /\ pc[p] = "check" /\ UNCHANGED arrays
    BY <1>2 DEF CheckFull, Goto
  <2>2. \A q \in Adders : pc'[q] = "idle" <=> pc[q] = "idle"
    BY <2>1 DEF Inv, Shape, Procs
  <2>3. QED
    BY <1>1, <2>1, <2>2, Unaffected
<1>3. CASE ~Full
  <2>1. Len(batch') <= BatchSize - 1
    BY <1>1, <1>3, ClickHouseAssumption DEF Full
  <2>2. Busy' \in SUBSET Adders /\ IsFiniteSet(Adders)
    BY ClickHouseAssumption DEF Busy
  <2>3. Cardinality(Busy') \in Nat
    BY <2>2, FS_Subset, FS_CardinalityType
  <2>4. BatchBound'
    BY <1>1, <2>1, <2>3, ClickHouseAssumption DEF BatchBound
  <2>5. QED
    BY <1>1, <2>4 DEF Inv
<1>4. QED
  BY <1>2, <1>3

LEMMA NextInv == Inv /\ [Next]_vars => Inv'
<1> SUFFICES ASSUME Inv, [Next]_vars PROVE Inv'
  OBVIOUS
<1>1. ASSUME NEW p \in Adders, AddStep(p) PROVE Inv'
  <2>1. CASE AppendRecord(p)
    BY <2>1, AppendRecordInv
  <2>2. CASE CheckFull(p)
    BY <2>2, CheckFullInv
  <2>3. CASE LoadArray(p) \/ LoadLen(p)
    <3>1. UNCHANGED <<arrays, added, pc>>
      BY <2>3 DEF LoadArray, LoadLen
    <3>2. Shape'
      BY <3>1 DEF Inv, Shape
    <3>3. QED
      BY <3>1, <3>2, Unaffected
  <2>4. CASE HandOver(p)
    <3>1. UNCHANGED <<arrays, added>> /\ pc[p] = "load" /\ pc' = [pc EXCEPT ![p] = "reset"]
      BY <2>4, ClickHouseAssumption DEF HandOver, Goto
    <3>2. Shape' /\ \A q \in Adders : pc'[q] = "idle" <=> pc[q] = "idle"
      BY <3>1 DEF Inv, Shape, Procs
    <3>3. QED
      BY <3>1, <3>2, Unaffected
  <2>5. CASE ResetBatch(p)
    <3>1. FreshBatch /\ UNCHANGED added /\ pc' = [pc EXCEPT ![p] = "idle"]
      BY <2>5 DEF ResetBatch, Goto
    <3>2. QED
      BY <3>1, NewBatch DEF Inv, Shape, Procs
  <2>6. QED
    BY <1>1, <2>1, <2>2, <2>3, <2>4, <2>5 DEF AddStep
<1>2. ASSUME CloseStep PROVE Inv'
  <2>1. CASE CloseReturns
    <3>1. FreshBatch /\ UNCHANGED added /\ pc' = [pc EXCEPT ![Closer] = "closed"]
      BY <2>1 DEF CloseReturns, Goto
    <3>2. QED
      BY <3>1, NewBatch DEF Inv, Shape, Procs
  <2>2. CASE ~CloseReturns
    <3>1. UNCHANGED <<arrays, added>>
          /\ (pc' = pc \/ pc' = [pc EXCEPT ![Closer] = "load"]
                        \/ pc' = [pc EXCEPT ![Closer] = "closing"])
      BY <1>2, <2>2 DEF CloseStep, Close, LoadArray, LoadLen, HandOver, Goto
    <3>2. Shape' /\ \A q \in Adders : pc'[q] = "idle" <=> pc[q] = "idle"
      BY <3>1, ClickHouseAssumption DEF Inv, Shape, Procs
    <3>3. QED
      BY <3>1, <3>2, Unaffected
  <2>3. QED
    BY <2>1, <2>2
<1>3. ASSUME NEW i \in DOMAIN stores, StoreStep(i) PROVE Inv'
  <2>1. UNCHANGED <<arrays, added, pc>>
    BY <1>3 DEF StoreStep, StoreLock, StoreNoDB, StoreInit, StoreCommit, StoreError
  <2>2. Shape'
    BY <2>1 DEF Inv, Shape
  <2>3. QED
    BY <2>1, <2>2, Unaffected
<1>4. CASE UNCHANGED vars
  <2>1. UNCHANGED <<arrays, added, pc>>
    BY <1>4 DEF vars
  <2>2. Shape'
    BY <2>1 DEF Inv, Shape
  <2>3. QED
    BY <2>1, <2>2, Unaffected
<1>5. QED
  BY <1>1, <1>2, <1>3, <1>4 DEF Next

(* The batch that Add appends to stays below clickhouse-batch-size but for *)
(* one record per request in the middle of Add, although Add tests its     *)
(* length without the mutex, however slow or stuck the stores are: an      *)
(* adder that appends to a full batch does not append again before it has  *)
(* looked at the length and, if the batch is still full, reset it.         *)
THEOREM BatchBounded == Spec => []BatchBound
<1>1. Inv => BatchBound
  BY DEF Inv
<1>2. QED
  BY <1>1, InitInv, NextInv, PTL DEF Spec

-----------------------------------------------------------------------------
(* Types *)

States == {"waiting", "locked", "inserting"} \cup Over
Tasks == [arr : Nat, len : Nat, by : Procs, st : States]

GoodArray(a, k) ==
    /\ a.cells \in Seq(1..k) /\ Len(a.cells) <= k
    /\ a.cap \in Nat \ {0} /\ Len(a.cells) <= a.cap

CellsOK == \A n \in DOMAIN arrays : GoodArray(arrays[n], added)

HeadersOK ==
    /\ header \in [Procs -> [arr : 0..Len(arrays), len : -1..MaxRecords]]
    /\ \A p \in Procs : pc[p] # "load" => header[p] = NoHeader

StoresOK ==
    /\ stores \in Seq(Tasks)
    /\ \A i \in DOMAIN stores : stores[i].arr \in 1..Len(arrays) /\ stores[i].len \in 0..MaxRecords

LockOK ==
    /\ \A i \in DOMAIN stores :
          stores[i].st \in {"locked", "inserting", "leaked"} <=> storeMux = i
    /\ storeMux \in 0..Len(stores)

FlagsOK == initDone \in BOOLEAN /\ tableOK \in BOOLEAN /\ crashed \in BOOLEAN /\ calm \in BOOLEAN

TypeInv ==
    /\ Shape /\ added \in 0..MaxRecords /\ CellsOK
    /\ HeadersOK /\ StoresOK /\ LockOK
    /\ rows \in Seq(1..added) /\ FlagsOK

LEMMA TypeParts == TypeInv => TypeOK
<1> SUFFICES ASSUME TypeInv PROVE TypeOK
  OBVIOUS
<1>1. ASSUME NEW i \in DOMAIN stores
      PROVE  stores[i] \in [arr : 1..Len(arrays), len : 0..MaxRecords, by : Procs,
                            st : {"waiting", "locked", "inserting"} \cup Over]
  <2>1. stores[i] \in Tasks
    BY ElementOfSeq, LenProperties DEF TypeInv, StoresOK
  <2>2. stores[i].arr \in 1..Len(arrays) /\ stores[i].len \in 0..MaxRecords
    BY DEF TypeInv, StoresOK
  <2>3. QED
    BY <2>1, <2>2 DEF Tasks, States
<1>2. QED
  BY <1>1 DEF TypeInv, TypeOK, Shape, CellsOK, GoodArray, HeadersOK, LockOK, FlagsOK

LEMMA LastOrBefore ==
    ASSUME NEW m \in Nat, NEW n \in 1..m
    PROVE  n \in 1..(m - 1) \/ n = m
OBVIOUS

LEMMA GoodNew ==
    ASSUME NEW k \in Nat
    PROVE  GoodArray(NewArray, k)
  BY ClickHouseAssumption DEF GoodArray, NewArray

LEMMA GoodWiden ==
    ASSUME NEW k \in Nat, NEW a, GoodArray(a, k)
    PROVE  GoodArray(a, k + 1)
<1>1. 1..k \subseteq 1..(k + 1)
  OBVIOUS
<1>2. a.cells \in Seq(1..(k + 1)) /\ Len(a.cells) \in Nat
  BY <1>1, SeqMonotonic, LenProperties DEF GoodArray
<1>3. QED
  BY <1>2 DEF GoodArray

LEMMA GoodAppend ==
    ASSUME NEW k \in Nat, NEW a, GoodArray(a, k), NEW b,
           b.cells = Append(a.cells, k + 1), b.cap \in Nat, Len(a.cells) < b.cap
    PROVE  GoodArray(b, k + 1)
<1>1. a.cells \in Seq(1..(k + 1)) /\ Len(a.cells) \in Nat /\ Len(a.cells) <= k
  BY GoodWiden, LenProperties DEF GoodArray
<1>2. k + 1 \in 1..(k + 1)
  OBVIOUS
<1> DEFINE s == a.cells
<1> HIDE DEF s
<1>3. Append(s, k + 1) \in Seq(1..(k + 1)) /\ Len(Append(s, k + 1)) = Len(s) + 1
  BY <1>1, <1>2, AppendProperties DEF s
<1>4. b.cells \in Seq(1..(k + 1)) /\ Len(b.cells) = Len(a.cells) + 1
  BY <1>3 DEF s
<1>5. QED
  BY <1>1, <1>4 DEF GoodArray

LEMMA InitTypes == Init => TypeInv
<1> SUFFICES ASSUME Init PROVE TypeInv
  OBVIOUS
<1>1. Shape
  BY InitInv DEF Inv
<1>2. MaxRecords \in Nat /\ added = 0 /\ arrays = <<NewArray>>
  BY ClickHouseAssumption DEF Init
<1>3. CellsOK
  <2>1. \A n \in DOMAIN arrays : arrays[n] = NewArray
    BY <1>2
  <2>2. QED
    BY <1>2, <2>1, GoodNew DEF CellsOK
<1>4. HeadersOK
  <2>1. NoHeader \in [arr : 0..Len(arrays), len : -1..MaxRecords]
    BY <1>1, <1>2 DEF NoHeader, Shape
  <2>2. QED
    BY <2>1 DEF Init, HeadersOK
<1>5. StoresOK /\ LockOK
  BY DEF Init, StoresOK, LockOK
<1>6. added \in 0..MaxRecords /\ rows \in Seq(1..added)
  BY <1>2, EmptySeq DEF Init
<1>7. FlagsOK
  BY DEF Init, FlagsOK
<1>8. QED
  BY <1>1, <1>3, <1>4, <1>5, <1>6, <1>7 DEF TypeInv

(* What a step may do to the arrays: append to the last, or add one. *)
Appended ==
    /\ added' = added + 1
    /\ Len(arrays') = Len(arrays)
    /\ Len(batch) < current.cap
    /\ \A n \in 1..(Len(arrays) - 1) : arrays'[n] = arrays[n]
    /\ arrays'[Len(arrays)].cells = Append(batch, added + 1)
    /\ arrays'[Len(arrays)].cap = current.cap

Grown ==
    /\ added' = added + 1
    /\ Len(arrays') = Len(arrays) + 1
    /\ ~(Len(batch) < current.cap)
    /\ \A n \in 1..Len(arrays) : arrays'[n] = arrays[n]
    /\ arrays'[Len(arrays) + 1].cells = Append(batch, added + 1)
    /\ arrays'[Len(arrays) + 1].cap = 2 * current.cap

Renewed ==
    /\ added' = added
    /\ Len(arrays') = Len(arrays) + 1
    /\ \A n \in 1..Len(arrays) : arrays'[n] = arrays[n]
    /\ arrays'[Len(arrays) + 1] = NewArray

LEMMA AppendIs ==
    ASSUME Shape, NEW p, AppendRecord(p)
    PROVE  Appended \/ Grown
<1>1. /\ Len(arrays) \in 1..Len(arrays) /\ Len(arrays) \in Nat /\ arrays \in Seq(BackingArrays)
      /\ current \in BackingArrays /\ current = arrays[Len(arrays)] /\ batch = current.cells
  BY BatchShape DEF Shape, batch, current
<1>2. CASE Len(batch) < current.cap
  <2> DEFINE a == [current EXCEPT !.cells = Append(@, added + 1)]
  <2>1. arrays' = [arrays EXCEPT ![Len(arrays)] = a] /\ added' = added + 1
    BY <1>2 DEF AppendRecord, current
  <2>2. a.cells = Append(batch, added + 1) /\ a.cap = current.cap
    BY <1>1 DEF BackingArrays
  <2> HIDE DEF a
  <2>3. /\ Len(arrays') = Len(arrays) /\ arrays'[Len(arrays)] = a
        /\ \A n \in 1..(Len(arrays) - 1) : arrays'[n] = arrays[n]
    BY <1>1, <2>1
  <2>4. QED
    BY <1>2, <2>1, <2>2, <2>3 DEF Appended
<1>3. CASE ~(Len(batch) < current.cap)
  <2> DEFINE a == [cells |-> Append(batch, added + 1), cap |-> 2 * current.cap]
  <2>1. arrays' = Append(arrays, a) /\ added' = added + 1
    BY <1>3 DEF AppendRecord
  <2>2. a.cells = Append(batch, added + 1) /\ a.cap = 2 * current.cap
    OBVIOUS
  <2> HIDE DEF a
  <2>3. /\ Len(arrays') = Len(arrays) + 1 /\ arrays'[Len(arrays) + 1] = a
        /\ \A n \in 1..Len(arrays) : arrays'[n] = arrays[n]
    BY <1>1, <2>1
  <2>4. QED
    BY <1>3, <2>1, <2>2, <2>3 DEF Grown
<1>4. QED
  BY <1>2, <1>3

LEMMA RenewIs ==
    ASSUME Shape, FreshBatch, UNCHANGED added
    PROVE  Renewed
  BY DEF Shape, FreshBatch, Renewed

LEMMA ArrayFacts ==
    ASSUME TypeInv
    PROVE  /\ Len(arrays) \in Nat \ {0} /\ Len(arrays) \in 1..Len(arrays)
           /\ DOMAIN arrays = 1..Len(arrays)
           /\ added \in Nat /\ GoodArray(current, added)
           /\ current = arrays[Len(arrays)] /\ batch = current.cells
<1>1. /\ Len(arrays) \in Nat \ {0} /\ Len(arrays) \in 1..Len(arrays)
      /\ DOMAIN arrays = 1..Len(arrays) /\ added \in Nat
  BY BatchShape DEF TypeInv, Shape
<1>2. QED
  BY <1>1 DEF TypeInv, CellsOK, current, batch

(* The cells of every array after such a step. *)
LEMMA CellsStep ==
    ASSUME TypeInv, Shape', Appended \/ Grown \/ Renewed \/ UNCHANGED <<arrays, added>>
    PROVE  /\ CellsOK' /\ Len(arrays') >= Len(arrays)
           /\ added' = added + 1 \/ added' = added
<1> DEFINE L == Len(arrays)
<1>1. DOMAIN arrays' = 1..Len(arrays')
  BY DEF Shape
<1>2. \A n \in 1..L : GoodArray(arrays[n], added) /\ GoodArray(arrays[n], added + 1)
  BY ArrayFacts, GoodWiden DEF TypeInv, CellsOK
<1>3. CASE Appended
  <2>1. GoodArray(arrays'[L], added + 1)
    BY <1>3, ArrayFacts, GoodAppend DEF Appended, GoodArray
  <2>2. ASSUME NEW n \in 1..L PROVE GoodArray(arrays'[n], added + 1)
    <3>1. n \in 1..(L - 1) \/ n = L
      BY ArrayFacts, LastOrBefore
    <3>2. QED
      BY <1>2, <1>3, <2>1, <3>1 DEF Appended
  <2>3. QED
    BY <1>1, <1>3, <2>2, ArrayFacts DEF CellsOK, Appended
<1>4. CASE Grown
  <2>1. GoodArray(arrays'[L + 1], added + 1)
    <3>1. /\ current.cap \in Nat \ {0} /\ Len(batch) \in Nat /\ Len(batch) <= current.cap
      BY ArrayFacts, LenProperties DEF GoodArray
    <3>2. Len(batch) < 2 * current.cap /\ 2 * current.cap \in Nat
      BY <3>1
    <3>3. QED
      BY <1>4, <3>2, ArrayFacts, GoodAppend DEF Grown
  <2>2. ASSUME NEW n \in 1..(L + 1) PROVE GoodArray(arrays'[n], added + 1)
    <3>1. n \in 1..L \/ n = L + 1
      BY ArrayFacts
    <3>2. QED
      BY <1>2, <1>4, <2>1, <3>1 DEF Grown
  <2>3. QED
    BY <1>1, <1>4, <2>2, ArrayFacts DEF CellsOK, Grown
<1>5. CASE Renewed
  <2>1. ASSUME NEW n \in 1..(L + 1) PROVE GoodArray(arrays'[n], added)
    <3>1. n \in 1..L \/ n = L + 1
      BY ArrayFacts
    <3>2. QED
      BY <1>2, <1>5, <3>1, ArrayFacts, GoodNew DEF Renewed
  <2>2. QED
    BY <1>1, <1>5, <2>1, ArrayFacts DEF CellsOK, Renewed
<1>6. CASE UNCHANGED <<arrays, added>>
  BY <1>6, ArrayFacts DEF TypeInv, CellsOK
<1>7. QED
  BY <1>3, <1>4, <1>5, <1>6

LEMMA StoreFacts ==
    ASSUME StoresOK, NEW i \in DOMAIN stores
    PROVE  /\ Len(stores) \in Nat /\ DOMAIN stores = 1..Len(stores) /\ i \in 1..Len(stores)
           /\ stores[i] \in Tasks
           /\ stores[i].arr \in 1..Len(arrays) /\ stores[i].len \in 0..MaxRecords
<1>1. stores \in Seq(Tasks)
  BY DEF StoresOK
<1>2. Len(stores) \in Nat /\ DOMAIN stores = 1..Len(stores)
  BY <1>1, LenProperties
<1>3. stores[i] \in Tasks
  BY <1>1, <1>2, ElementOfSeq
<1>4. QED
  BY <1>2, <1>3 DEF StoresOK

(* A store goroutine changes its own state only. *)
LEMMA BecomesIs ==
    ASSUME StoresOK, NEW i \in DOMAIN stores, NEW st \in States, Becomes(i, st)
    PROVE  /\ stores' \in Seq(Tasks) /\ Len(stores') = Len(stores) /\ DOMAIN stores' = DOMAIN stores
           /\ stores'[i].st = st
           /\ \A j \in DOMAIN stores :
                 /\ stores'[j].arr = stores[j].arr /\ stores'[j].len = stores[j].len
                 /\ stores'[j].by = stores[j].by
                 /\ j # i => stores'[j].st = stores[j].st
<1> DEFINE t == [stores[i] EXCEPT !.st = st]
<1>1. stores' = [stores EXCEPT ![i] = t]
  BY DEF Becomes
<1>2. /\ t \in Tasks /\ t.arr = stores[i].arr /\ t.len = stores[i].len /\ t.by = stores[i].by
      /\ t.st = st
  BY StoreFacts DEF Tasks
<1> HIDE DEF t
<1>3. i \in 1..Len(stores) /\ stores \in Seq(Tasks) /\ DOMAIN stores = 1..Len(stores)
  BY StoreFacts DEF StoresOK
<1>4. /\ stores' \in Seq(Tasks) /\ Len(stores') = Len(stores)
      /\ \A j \in 1..Len(stores) : stores'[j] = IF j = i THEN t ELSE stores[j]
  BY <1>1, <1>2, <1>3, ExceptSeq
<1>5. DOMAIN stores' = DOMAIN stores
  BY <1>3, <1>4, LenProperties
<1>6. QED
  BY <1>2, <1>3, <1>4, <1>5

LEMMA StoresSameArrays ==
    ASSUME StoresOK, UNCHANGED stores, Len(arrays') >= Len(arrays),
           Len(arrays) \in Nat, Len(arrays') \in Nat
    PROVE  StoresOK'
<1>1. 1..Len(arrays) \subseteq 1..Len(arrays')
  OBVIOUS
<1>2. QED
  BY <1>1 DEF StoresOK

LEMMA HeadersStay ==
    ASSUME HeadersOK, UNCHANGED header, Len(arrays') >= Len(arrays),
           Len(arrays) \in Nat, Len(arrays') \in Nat,
           \A p \in Procs : pc'[p] # "load" => pc[p] # "load"
    PROVE  HeadersOK'
<1>1. 0..Len(arrays) \subseteq 0..Len(arrays')
  OBVIOUS
<1>2. QED
  BY <1>1 DEF HeadersOK

LEMMA RowsStay ==
    ASSUME rows \in Seq(1..added), added \in Nat, UNCHANGED rows,
           added' = added + 1 \/ added' = added
    PROVE  rows' \in Seq(1..added')
<1>1. 1..added \subseteq 1..added'
  OBVIOUS
<1>2. QED
  BY <1>1, SeqMonotonic

(* A step of Add or Close that starts no store. *)
LEMMA FrontTypes ==
    ASSUME TypeInv, Shape', Appended \/ Grown \/ Renewed \/ UNCHANGED <<arrays, added>>,
           added' \in 0..MaxRecords, FlagsOK',
           UNCHANGED <<header, stores, storeMux, rows>>,
           \A p \in Procs : pc'[p] # "load" => pc[p] # "load"
    PROVE  TypeInv'
<1>1. CellsOK' /\ Len(arrays') >= Len(arrays) /\ (added' = added + 1 \/ added' = added)
  BY CellsStep
<1>2. Len(arrays) \in Nat /\ Len(arrays') \in Nat /\ added \in Nat
  BY ArrayFacts DEF Shape
<1>3. StoresOK'
  BY <1>1, <1>2, StoresSameArrays DEF TypeInv
<1>4. HeadersOK'
  BY <1>1, <1>2, HeadersStay DEF TypeInv
<1>5. LockOK'
  BY DEF TypeInv, LockOK
<1>6. rows' \in Seq(1..added')
  BY <1>1, <1>2, RowsStay DEF TypeInv
<1>7. QED
  BY <1>1, <1>3, <1>4, <1>5, <1>6 DEF TypeInv

(* A step of a store goroutine. *)
LEMMA StoreTypes ==
    ASSUME TypeInv, UNCHANGED <<arrays, added, pc, header>>, NEW i \in DOMAIN stores, NEW st \in States,
           Becomes(i, st), FlagsOK', rows' \in Seq(1..added), storeMux = i \/ storeMux = 0,
           storeMux' = IF st \in {"locked", "inserting", "leaked"} THEN i ELSE 0
    PROVE  TypeInv'
<1>1. /\ stores' \in Seq(Tasks) /\ Len(stores') = Len(stores) /\ DOMAIN stores' = DOMAIN stores
      /\ stores'[i].st = st
      /\ \A j \in DOMAIN stores :
            /\ stores'[j].arr = stores[j].arr /\ stores'[j].len = stores[j].len
            /\ j # i => stores'[j].st = stores[j].st
  BY BecomesIs DEF TypeInv
<1>2. Len(stores) \in Nat /\ i \in 1..Len(stores) /\ DOMAIN stores = 1..Len(stores)
  BY StoreFacts DEF TypeInv
<1>3. StoresOK'
  BY <1>1 DEF TypeInv, StoresOK
<1>4. LockOK'
  <2>1. storeMux' \in 0..Len(stores')
    BY <1>1, <1>2
  <2>2. ASSUME NEW j \in DOMAIN stores
        PROVE  stores'[j].st \in {"locked", "inserting", "leaked"} <=> storeMux' = j
    <3>1. CASE j = i
      BY <1>1, <1>2, <3>1
    <3>2. CASE j # i
      <4>1. stores[j].st \notin {"locked", "inserting", "leaked"}
        BY <1>2, <3>2 DEF TypeInv, LockOK
      <4>2. QED
        BY <1>1, <1>2, <3>2, <4>1
    <3>3. QED
      BY <3>1, <3>2
  <2>3. QED
    BY <1>1, <2>1, <2>2 DEF LockOK
<1>5. Shape' /\ CellsOK' /\ HeadersOK' /\ added' \in 0..MaxRecords /\ rows' \in Seq(1..added')
  BY DEF TypeInv, Shape, CellsOK, HeadersOK
<1>6. QED
  BY <1>3, <1>4, <1>5 DEF TypeInv

(* The words of s.batch that go store(s.batch) hands over. *)
LEMMA HandOverTypes ==
    ASSUME TypeInv, NEW p \in Procs, HandOver(p)
    PROVE  /\ TypeInv'
           /\ stores' = Append(stores, Task(p)) /\ Task(p) \in Tasks
           /\ Len(stores') = Len(stores) + 1 /\ stores'[Len(stores) + 1] = Task(p)
           /\ \A i \in 1..Len(stores) : stores'[i] = stores[i]
           /\ DOMAIN stores' = 1..(Len(stores) + 1)
<1>1. /\ stores' = Append(stores, Task(p)) /\ header' = [header EXCEPT ![p] = NoHeader]
      /\ pc' = [pc EXCEPT ![p] = IF p = Closer THEN "closing" ELSE "reset"]
      /\ header[p].arr # 0 /\ header[p].len # -1
      /\ UNCHANGED <<arrays, added, storeMux, initDone, tableOK, rows, crashed, calm>>
  BY DEF HandOver, Goto
<1>2. header[p].arr \in 1..Len(arrays) /\ header[p].len \in 0..MaxRecords /\ MaxRecords \in Nat
  <2>1. header[p].arr \in 0..Len(arrays) /\ header[p].len \in -1..MaxRecords
    BY DEF TypeInv, HeadersOK
  <2>2. QED
    BY <1>1, <2>1, ArrayFacts, ClickHouseAssumption
<1>3. Task(p) \in Tasks /\ Task(p).arr = header[p].arr /\ Task(p).len = header[p].len
      /\ Task(p).st = "waiting"
  BY <1>2, ArrayFacts DEF Task, Tasks, States
<1>4. stores \in Seq(Tasks) /\ Len(stores) \in Nat /\ DOMAIN stores = 1..Len(stores)
  BY LenProperties DEF TypeInv, StoresOK
<1> DEFINE t == Task(p)
<1> HIDE DEF t
<1>5. /\ stores' \in Seq(Tasks) /\ Len(stores') = Len(stores) + 1
      /\ stores'[Len(stores) + 1] = Task(p)
      /\ \A i \in 1..Len(stores) : stores'[i] = stores[i]
  BY <1>1, <1>3, <1>4, AppendProperties DEF t
<1>6. DOMAIN stores' = 1..(Len(stores) + 1)
  BY <1>5, LenProperties
<1>7. ASSUME NEW i \in DOMAIN stores' PROVE i \in 1..Len(stores) \/ i = Len(stores) + 1
  BY <1>4, <1>6
<1>8. StoresOK'
  <2>1. ASSUME NEW i \in DOMAIN stores'
        PROVE  stores'[i].arr \in 1..Len(arrays') /\ stores'[i].len \in 0..MaxRecords
    <3>1. CASE i \in 1..Len(stores)
      BY <1>1, <1>4, <1>5, <3>1 DEF TypeInv, StoresOK
    <3>2. CASE i = Len(stores) + 1
      BY <1>1, <1>2, <1>3, <1>5, <3>2
    <3>3. QED
      BY <1>7, <3>1, <3>2
  <2>2. QED
    BY <1>5, <2>1 DEF StoresOK
<1>9. LockOK'
  <2>1. storeMux \in 0..Len(stores) /\ storeMux # Len(stores) + 1
    BY <1>4 DEF TypeInv, LockOK
  <2>2. ASSUME NEW i \in DOMAIN stores'
        PROVE  stores'[i].st \in {"locked", "inserting", "leaked"} <=> storeMux = i
    <3>1. CASE i \in 1..Len(stores)
      BY <1>4, <1>5, <3>1 DEF TypeInv, LockOK
    <3>2. CASE i = Len(stores) + 1
      BY <1>3, <1>5, <2>1, <3>2
    <3>3. QED
      BY <1>7, <3>1, <3>2
  <2>3. storeMux' \in 0..Len(stores')
    BY <1>1, <1>4, <1>5, <2>1
  <2>4. QED
    BY <1>1, <2>2, <2>3 DEF LockOK
<1>10. HeadersOK'
  <2>1. NoHeader \in [arr : 0..Len(arrays), len : -1..MaxRecords]
    BY <1>2, ArrayFacts DEF NoHeader
  <2>2. QED
    BY <1>1, <2>1 DEF TypeInv, Shape, HeadersOK
<1>11. Shape'
  BY <1>1 DEF TypeInv, Shape
<1>12. TypeInv'
  BY <1>1, <1>8, <1>9, <1>10, <1>11 DEF TypeInv, CellsOK, FlagsOK
<1>13. QED
  BY <1>1, <1>3, <1>5, <1>6, <1>12

LEMMA LoadTypes ==
    ASSUME TypeInv, NEW p \in Procs, LoadArray(p) \/ LoadLen(p)
    PROVE  TypeInv'
<1>1. UNCHANGED <<arrays, added, pc, stores, storeMux, initDone, tableOK, rows, crashed, calm>>
      /\ pc[p] = "load"
  BY DEF LoadArray, LoadLen
<1>2. Len(batch) \in -1..MaxRecords
  <2>1. Len(batch) \in Nat /\ Len(batch) <= added /\ added \in 0..MaxRecords
    BY ArrayFacts, LenProperties DEF GoodArray, TypeInv
  <2>2. QED
    BY <2>1, ClickHouseAssumption
<1>3. Len(arrays) \in 0..Len(arrays)
  BY ArrayFacts
<1>4. HeadersOK'
  BY <1>1, <1>2, <1>3 DEF LoadArray, LoadLen, HeadersOK, TypeInv
<1>5. QED
  BY <1>1, <1>4 DEF TypeInv, Shape, CellsOK, StoresOK, LockOK, FlagsOK

(* What a store goroutine does to the rest. *)
LEMMA StoreStepIs ==
    ASSUME TypeInv, NEW i \in DOMAIN stores, StoreStep(i)
    PROVE  /\ UNCHANGED <<arrays, added, pc, header, calm>> /\ FlagsOK'
           /\ \/ /\ UNCHANGED <<stores, storeMux, rows>>
                 /\ stores[i].len > Len(Cells(i))
              \/ \E st \in States :
                    /\ Becomes(i, st) /\ storeMux \in {0, i}
                    /\ storeMux' = IF st \in {"locked", "inserting", "leaked"} THEN i ELSE 0
                    /\ stores[i].st \notin Over
                    /\ st = "leaked" => stores[i].len = 0
                    /\ st # "committed" => UNCHANGED rows
                    /\ st = "committed" =>
                          /\ stores[i].len <= Len(Cells(i))
                          /\ rows' = rows \o SubSeq(Cells(i), 1, stores[i].len)
<1>1. UNCHANGED <<arrays, added, pc, header, calm>>
  BY DEF StoreStep, StoreLock, StoreNoDB, StoreInit, StoreCommit, StoreError
<1>2. stores[i].st \in {"locked", "inserting"} => storeMux = i
  BY DEF TypeInv, LockOK
<1> DEFINE Moves(st) ==
             /\ Becomes(i, st) /\ storeMux \in {0, i}
             /\ storeMux' = IF st \in {"locked", "inserting", "leaked"} THEN i ELSE 0
             /\ stores[i].st \notin Over
             /\ st = "leaked" => stores[i].len = 0
             /\ st # "committed" => UNCHANGED rows
             /\ st = "committed" =>
                   /\ stores[i].len <= Len(Cells(i))
                   /\ rows' = rows \o SubSeq(Cells(i), 1, stores[i].len)
<1>3. CASE StoreLock(i)
  <2>1. FlagsOK'
    BY <1>3 DEF StoreLock, TypeInv, FlagsOK
  <2>2. Moves("leaked") \/ Moves("locked")
    BY <1>3 DEF StoreLock, StoreMuxFree, Over
  <2>3. QED
    BY <1>1, <2>1, <2>2 DEF States, Over
<1>4. CASE StoreNoDB(i) \/ StoreError(i)
  <2>1. FlagsOK'
    BY <1>4 DEF StoreNoDB, StoreError, TypeInv, FlagsOK
  <2>2. Moves("failed")
    BY <1>2, <1>4 DEF StoreNoDB, StoreError, Finish, Unlock, Over
  <2>3. QED
    BY <1>1, <2>1, <2>2 DEF States, Over
<1>5. CASE StoreInit(i)
  <2>0. Created \in BOOLEAN
    BY DEF Created, TypeInv, FlagsOK
  <2>1. FlagsOK'
    <3>1. tableOK' \in BOOLEAN
      BY <1>5, <2>0, Zenon DEF StoreInit, TypeInv, FlagsOK
    <3>2. QED
      BY <1>5, <3>1 DEF StoreInit, TypeInv, FlagsOK
  <2>2. Moves("inserting") \/ Moves("failed")
    BY <1>2, <1>5 DEF StoreInit, Finish, Unlock, Over
  <2>3. QED
    BY <1>1, <2>1, <2>2 DEF States, Over
<1>6. CASE StoreCommit(i)
  <2>1. FlagsOK'
    BY <1>6 DEF StoreCommit, TypeInv, FlagsOK
  <2>2. CASE stores[i].len > Len(Cells(i)) /\ UNCHANGED <<rows, stores, storeMux>>
    BY <1>1, <2>1, <2>2
  <2>3. CASE /\ stores[i].len <= Len(Cells(i))
             /\ rows' = rows \o SubSeq(Cells(i), 1, stores[i].len)
             /\ Finish(i, "committed")
    <3>1. Moves("committed")
      BY <1>2, <1>6, <2>3 DEF StoreCommit, Finish, Unlock, Over
    <3>2. QED
      BY <1>1, <2>1, <3>1 DEF States, Over
  <2>4. QED
    BY <1>6, <2>2, <2>3 DEF StoreCommit
<1>7. QED
  BY <1>3, <1>4, <1>5, <1>6 DEF StoreStep

(* The rows of a commit. *)
LEMMA CommittedCells ==
    ASSUME TypeInv, NEW i \in DOMAIN stores, stores[i].len <= Len(Cells(i))
    PROVE  LET s == SubSeq(Cells(i), 1, stores[i].len)
           IN  /\ Cells(i) \in Seq(1..added)
               /\ s \in Seq(1..added) /\ Len(s) = stores[i].len
               /\ \A a \in 1..Len(s) : s[a] = Cells(i)[a]
               /\ stores[i].len = Len(Cells(i)) => s = Cells(i)
<1> DEFINE l == stores[i].len
           c == Cells(i)
<1>1. l \in Nat /\ c \in Seq(1..added)
  <2>1. stores[i].arr \in DOMAIN arrays /\ l \in 0..MaxRecords
    BY StoreFacts, ArrayFacts DEF TypeInv
  <2>2. QED
    BY <2>1, ClickHouseAssumption DEF Cells, TypeInv, CellsOK, GoodArray
<1> HIDE DEF l, c
<1>2. Len(c) \in Nat /\ \A a \in 1..Len(c) : c[a] \in 1..added
  BY <1>1, LenProperties, ElementOfSeq
<1>3. l <= Len(c)
  BY DEF l, c
<1>4. \A a \in 1..l : c[a] \in 1..added
  BY <1>1, <1>2, <1>3
<1>5. /\ SubSeq(c, 1, l) \in Seq(1..added)
      /\ Len(SubSeq(c, 1, l)) = IF 1 <= l THEN l - 1 + 1 ELSE 0
      /\ \A a \in 1..(l - 1 + 1) : SubSeq(c, 1, l)[a] = c[1 + a - 1]
  BY <1>1, <1>4, SubSeqProperties
<1>6. Len(SubSeq(c, 1, l)) = l /\ \A a \in 1..l : SubSeq(c, 1, l)[a] = c[a]
  BY <1>1, <1>5
<1>7. l = Len(c) => SubSeq(c, 1, l) = c
  BY <1>1, SubSeqFull
<1>8. QED
  BY <1>1, <1>5, <1>6, <1>7 DEF l, c

LEMMA StoreStepTypes ==
    ASSUME TypeInv, NEW i \in DOMAIN stores, StoreStep(i)
    PROVE  TypeInv'
<1>1. UNCHANGED <<arrays, added, pc, header, calm>> /\ FlagsOK'
  BY StoreStepIs
<1>2. CASE UNCHANGED <<stores, storeMux, rows>>
  BY <1>1, <1>2 DEF TypeInv, Shape, CellsOK, HeadersOK, StoresOK, LockOK
<1>3. ASSUME NEW st \in States, Becomes(i, st), storeMux \in {0, i},
             storeMux' = IF st \in {"locked", "inserting", "leaked"} THEN i ELSE 0,
             st # "committed" => UNCHANGED rows,
             st = "committed" => /\ stores[i].len <= Len(Cells(i))
                                 /\ rows' = rows \o SubSeq(Cells(i), 1, stores[i].len)
      PROVE  TypeInv'
  <2>1. rows' \in Seq(1..added)
    <3>1. CASE st = "committed"
      <4> DEFINE t == SubSeq(Cells(i), 1, stores[i].len)
      <4>1. t \in Seq(1..added) /\ rows' = rows \o t /\ rows \in Seq(1..added)
        BY <1>3, <3>1, CommittedCells DEF TypeInv
      <4> HIDE DEF t
      <4>2. QED
        BY <4>1, ConcatProperties
    <3>2. CASE st # "committed"
      BY <1>3, <3>2 DEF TypeInv
    <3>3. QED
      BY <3>1, <3>2
  <2>2. QED
    BY <1>1, <1>3, <2>1, StoreTypes
<1>4. QED
  BY <1>2, <1>3, StoreStepIs

LEMMA NextTypes == Inv /\ TypeInv /\ [Next]_vars => TypeInv'
<1> SUFFICES ASSUME Inv, TypeInv, [Next]_vars PROVE TypeInv'
  OBVIOUS
<1>1. Shape'
  BY NextInv DEF Inv
<1>2. added \in 0..MaxRecords /\ MaxRecords \in Nat /\ FlagsOK
  BY ClickHouseAssumption DEF TypeInv
<1>3. ASSUME NEW p \in Adders, AppendRecord(p) PROVE TypeInv'
  <2>1. Appended \/ Grown
    BY <1>3, AppendIs DEF TypeInv
  <2>2. added' \in 0..MaxRecords
    BY <1>2, <1>3 DEF AppendRecord
  <2>3. FlagsOK'
    BY <1>2, <1>3 DEF AppendRecord, FlagsOK
  <2>4. \A q \in Procs : pc'[q] # "load" => pc[q] # "load"
    BY <1>3 DEF AppendRecord, Goto, TypeInv, Shape
  <2>5. UNCHANGED <<header, stores, storeMux, rows>>
    BY <1>3 DEF AppendRecord
  <2>6. QED
    BY <1>1, <2>1, <2>2, <2>3, <2>4, <2>5, FrontTypes
<1>4. ASSUME NEW p \in Adders, CheckFull(p) \/ ResetBatch(p) PROVE TypeInv'
  <2>1. Renewed \/ UNCHANGED <<arrays, added>>
    BY <1>4, RenewIs DEF CheckFull, ResetBatch, TypeInv
  <2>2. added' \in 0..MaxRecords /\ FlagsOK'
    BY <1>2, <1>4 DEF CheckFull, ResetBatch, FlagsOK
  <2>3. \A q \in Procs : pc'[q] # "load" => pc[q] # "load"
    BY <1>4 DEF CheckFull, ResetBatch, Goto, TypeInv, Shape
  <2>4. UNCHANGED <<header, stores, storeMux, rows>>
    BY <1>4 DEF CheckFull, ResetBatch
  <2>5. QED
    BY <1>1, <2>1, <2>2, <2>3, <2>4, FrontTypes
<1>5. ASSUME Close \/ CloseReturns PROVE TypeInv'
  <2>1. Renewed \/ UNCHANGED <<arrays, added>>
    BY <1>5, RenewIs DEF Close, CloseReturns, TypeInv
  <2>2. added' \in 0..MaxRecords /\ FlagsOK'
    BY <1>2, <1>5 DEF Close, CloseReturns, FlagsOK
  <2>3. \A q \in Procs : pc'[q] # "load" => pc[q] # "load"
    BY <1>5 DEF Close, CloseReturns, Goto, TypeInv, Shape
  <2>4. UNCHANGED <<header, stores, storeMux, rows>>
    BY <1>5 DEF Close, CloseReturns
  <2>5. QED
    BY <1>1, <2>1, <2>2, <2>3, <2>4, FrontTypes
<1>6. ASSUME NEW p \in Procs, LoadArray(p) \/ LoadLen(p) PROVE TypeInv'
  BY <1>6, LoadTypes
<1>7. ASSUME NEW p \in Procs, HandOver(p) PROVE TypeInv'
  BY <1>7, HandOverTypes
<1>8. ASSUME NEW i \in DOMAIN stores, StoreStep(i) PROVE TypeInv'
  BY <1>8, StoreStepTypes
<1>9. CASE UNCHANGED vars
  BY <1>9 DEF vars, TypeInv, Shape, CellsOK, HeadersOK, StoresOK, LockOK, FlagsOK
<1>10. Adders \subseteq Procs /\ Closer \in Procs
  BY DEF Procs
<1>11. QED
  BY <1>3, <1>4, <1>5, <1>6, <1>7, <1>8, <1>9, <1>10 DEF Next, AddStep, CloseStep

(* The mutex of store is held by the one goroutine that is inside the      *)
(* database section, or by one that returned from an empty batch without   *)
(* unlocking it, for any number of stores; what the unlocked reads of Add  *)
(* hand to them always is an array that exists and a length within bounds. *)
THEOREM TypeCorrect == Spec => []TypeOK
<1>1. Inv /\ TypeInv /\ [Next]_vars => (Inv /\ TypeInv)'
  BY NextInv, NextTypes
<1>2. QED
  BY <1>1, InitInv, InitTypes, TypeParts, PTL DEF Spec

-----------------------------------------------------------------------------
(* Where the records are, as long as calls do not overlap *)

(* Close starts one store, after all others have been started. *)
CloserTask ==
    /\ \A i \in DOMAIN stores : stores[i].by = Closer => pc[Closer] \in {"closing", "closed"}
    /\ \A i, j \in DOMAIN stores : stores[i].by = Closer /\ stores[j].by = Closer => i = j

(* Every record is in an array. *)
Covered == \A x \in 1..added : \E n \in DOMAIN arrays : x \in ToSet(arrays[n].cells)

OneAtATime ==
    /\ \A p, q \in Busy : p = q
    /\ pc[Closer] # "idle" => Quiet

NoGrowth == \A n \in DOMAIN arrays : arrays[n].cap = BatchSize

HeadersCurrent ==
    \A p \in Procs : header[p].arr \in {0, Len(arrays)} /\ header[p].len \in {-1, Len(batch)}

Handed == {stores[i].arr : i \in DOMAIN stores}

(* The batch has been handed over and not been replaced yet. *)
Owed == (\E p \in Adders : pc[p] = "reset") \/ pc[Closer] = "closing"

(* Every array but the last has been handed to one store, as a whole. *)
EachOnce ==
    /\ \A i \in DOMAIN stores : stores[i].len = Len(Cells(i))
    /\ \A i, j \in DOMAIN stores : stores[i].arr = stores[j].arr => i = j
    /\ 1..(Len(arrays) - 1) \subseteq Handed
    /\ Len(arrays) \in Handed <=> Owed

CloserLast ==
    /\ pc[Closer] # "idle" => \A i \in Pending : stores[i].by = Closer
    /\ pc[Closer] = "closed" => Pending = {} /\ batch = <<>>

(* No record is in two places. *)
Disjoint ==
    \A n, m \in DOMAIN arrays : \A a \in DOMAIN arrays[n].cells, b \in DOMAIN arrays[m].cells :
        arrays[n].cells[a] = arrays[m].cells[b] => n = m /\ a = b

(* The table holds the records of the stores that have committed. *)
RowsOfStores ==
    /\ \A y \in ToSet(rows) :
          \E i \in DOMAIN stores : stores[i].st = "committed" /\ y \in ToSet(Cells(i))
    /\ \A i \in DOMAIN stores : stores[i].st = "committed" => ToSet(Cells(i)) \subseteq ToSet(rows)
    /\ \A i \in DOMAIN stores : stores[i].st = "leaked" => stores[i].len = 0
    /\ IsInjective(rows)

Calm == OneAtATime /\ NoGrowth /\ HeadersCurrent /\ EachOnce /\ CloserLast /\ Disjoint /\ RowsOfStores

LEMMA AppendIndex ==
    ASSUME NEW S, NEW s \in Seq(S), NEW e
    PROVE  /\ DOMAIN s = 1..Len(s) /\ Len(s) \in Nat
           /\ DOMAIN Append(s, e) = 1..(Len(s) + 1)
           /\ Append(s, e)[Len(s) + 1] = e
           /\ \A i \in 1..Len(s) : Append(s, e)[i] = s[i]
OBVIOUS

(* A cell after a step is a cell from before it, or the new record's. *)
LEMMA AppendedCells ==
    ASSUME TypeInv, TypeInv', Appended, NEW n \in DOMAIN arrays', NEW a \in DOMAIN arrays'[n].cells
    PROVE  /\ n \in DOMAIN arrays
           /\ \/ /\ a \in DOMAIN arrays[n].cells
                 /\ arrays'[n].cells[a] = arrays[n].cells[a]
                 /\ arrays[n].cells[a] \in 1..added
              \/ /\ n = Len(arrays) /\ a = Len(batch) + 1
                 /\ arrays'[n].cells[a] = added + 1
<1> DEFINE L == Len(arrays)
<1>1. L \in Nat \ {0} /\ DOMAIN arrays = 1..L /\ DOMAIN arrays' = 1..L /\ n \in 1..L
  BY ArrayFacts DEF TypeInv, Shape, Appended
<1>2. CASE n = L
  <2>1. arrays'[n].cells = Append(batch, added + 1) /\ arrays[n].cells = batch
    BY <1>2, ArrayFacts DEF Appended
  <2>2. batch \in Seq(1..added) /\ added + 1 \in Nat
    BY ArrayFacts DEF GoodArray
  <2>3. a \in 1..Len(batch) \/ a = Len(batch) + 1
    BY <2>1, <2>2
  <2>4. CASE a \in 1..Len(batch)
    <3>1. Append(batch, added + 1)[a] = batch[a] /\ a \in DOMAIN batch
      BY <2>2, <2>4, AppendIndex
    <3>2. batch[a] \in 1..added
      BY <2>2, <2>4, ElementOfSeq
    <3>3. QED
      BY <1>1, <2>1, <3>1, <3>2
  <2>5. CASE a = Len(batch) + 1
    BY <1>1, <1>2, <2>1, <2>2, <2>5
  <2>6. QED
    BY <2>3, <2>4, <2>5
<1>3. CASE n # L
  <2>1. n \in 1..(L - 1)
    BY <1>1, <1>3, LastOrBefore
  <2>2. arrays'[n] = arrays[n] /\ n \in DOMAIN arrays
    BY <1>1, <2>1 DEF Appended
  <2>3. arrays[n].cells \in Seq(1..added)
    BY <2>2 DEF TypeInv, CellsOK, GoodArray
  <2>4. QED
    BY <2>2, <2>3, ElementOfSeq, LenProperties
<1>4. QED
  BY <1>2, <1>3

LEMMA RenewedCells ==
    ASSUME TypeInv, TypeInv', Renewed, NEW n \in DOMAIN arrays'
    PROVE  \/ n \in DOMAIN arrays /\ arrays'[n] = arrays[n]
           \/ n = Len(arrays) + 1 /\ arrays'[n] = NewArray /\ arrays'[n].cells = <<>>
<1>1. n \in 1..(Len(arrays) + 1)
  BY DEF TypeInv, Shape, Renewed
<1>2. n \in 1..Len(arrays) \/ n = Len(arrays) + 1
  BY <1>1, ArrayFacts
<1>3. QED
  BY <1>2, ArrayFacts DEF Renewed, NewArray

LEMMA DisjointStays ==
    ASSUME TypeInv, TypeInv', Disjoint, Appended \/ Renewed \/ UNCHANGED arrays
    PROVE  Disjoint'
<1>1. CASE Appended
  <2> SUFFICES ASSUME NEW n \in DOMAIN arrays', NEW m \in DOMAIN arrays',
                      NEW a \in DOMAIN arrays'[n].cells, NEW b \in DOMAIN arrays'[m].cells,
                      arrays'[n].cells[a] = arrays'[m].cells[b]
               PROVE  n = m /\ a = b
    BY DEF Disjoint
  <2>1. added \in Nat
    BY ArrayFacts
  <2> DEFINE Old(k, c) == /\ k \in DOMAIN arrays /\ c \in DOMAIN arrays[k].cells
                          /\ arrays'[k].cells[c] = arrays[k].cells[c]
                          /\ arrays[k].cells[c] \in 1..added
             New(k, c) == /\ k = Len(arrays) /\ c = Len(batch) + 1
                          /\ arrays'[k].cells[c] = added + 1
  <2>2. (Old(n, a) \/ New(n, a)) /\ (Old(m, b) \/ New(m, b))
    BY <1>1, AppendedCells
  <2>3. CASE Old(n, a) /\ Old(m, b)
    <3>1. arrays[n].cells[a] = arrays[m].cells[b]
      BY <2>3
    <3>2. QED
      BY <2>3, <3>1 DEF Disjoint
  <2>4. CASE New(n, a) /\ New(m, b)
    BY <2>4
  <2>5. CASE (Old(n, a) /\ New(m, b)) \/ (New(n, a) /\ Old(m, b))
    BY <2>1, <2>5
  <2>6. QED
    BY <2>2, <2>3, <2>4, <2>5
<1>2. CASE Renewed
  <2>1. \A n \in DOMAIN arrays' : \/ n \in DOMAIN arrays /\ arrays'[n] = arrays[n]
                                  \/ DOMAIN arrays'[n].cells = {}
    BY <1>2, RenewedCells
  <2>2. QED
    BY <2>1 DEF Disjoint
<1>3. CASE UNCHANGED arrays
  BY <1>3 DEF Disjoint
<1>4. QED
  BY <1>1, <1>2, <1>3

LEMMA AppendSet ==
    ASSUME NEW S, NEW s \in Seq(S), NEW e
    PROVE  ToSet(s) \subseteq ToSet(Append(s, e)) /\ e \in ToSet(Append(s, e))
<1>1. /\ DOMAIN s = 1..Len(s) /\ Len(s) \in Nat
      /\ DOMAIN Append(s, e) = 1..(Len(s) + 1)
      /\ Append(s, e)[Len(s) + 1] = e
      /\ \A i \in 1..Len(s) : Append(s, e)[i] = s[i]
  BY AppendIndex
<1>2. Len(s) + 1 \in 1..(Len(s) + 1) /\ 1..Len(s) \subseteq 1..(Len(s) + 1)
  BY <1>1
<1>3. QED
  BY <1>1, <1>2 DEF ToSet

LEMMA CoveredStays ==
    ASSUME TypeInv, TypeInv', Covered, Appended \/ Grown \/ Renewed \/ UNCHANGED <<arrays, added>>
    PROVE  Covered'
<1> DEFINE L == Len(arrays)
<1>1. L \in Nat \ {0} /\ DOMAIN arrays = 1..L /\ DOMAIN arrays' = 1..Len(arrays') /\ added \in Nat
      /\ L \in 1..L
  BY ArrayFacts DEF TypeInv, Shape
<1>2. batch \in Seq(1..added) /\ batch = arrays[L].cells
  BY ArrayFacts DEF GoodArray
<1>3. /\ ToSet(batch) \subseteq ToSet(Append(batch, added + 1))
      /\ added + 1 \in ToSet(Append(batch, added + 1))
  BY <1>2, AppendSet
<1>4. ASSUME NEW x \in 1..added'
      PROVE  \E n \in DOMAIN arrays' : x \in ToSet(arrays'[n].cells)
  <2>1. CASE Appended
    <3>1. arrays'[L].cells = Append(batch, added + 1) /\ L \in DOMAIN arrays' /\ added' = added + 1
          /\ DOMAIN arrays' = 1..L
      BY <1>1, <2>1 DEF Appended
    <3>2. CASE x = added + 1
      BY <1>3, <3>1, <3>2
    <3>3. CASE x # added + 1
      <4>1. x \in 1..added
        BY <1>1, <3>1, <3>3
      <4>2. PICK n \in DOMAIN arrays : x \in ToSet(arrays[n].cells)
        BY <4>1 DEF Covered
      <4>3. n \in 1..(L - 1) \/ n = L
        BY <1>1, LastOrBefore
      <4>4. x \in ToSet(arrays'[n].cells)
        BY <1>2, <1>3, <2>1, <3>1, <4>2, <4>3 DEF Appended
      <4>5. QED
        BY <1>1, <3>1, <4>4
    <3>4. QED
      BY <3>2, <3>3
  <2>2. CASE Grown \/ Renewed
    <3>1. /\ \A n \in 1..L : arrays'[n] = arrays[n]
          /\ DOMAIN arrays' = 1..(L + 1) /\ 1..L \subseteq 1..(L + 1) /\ L + 1 \in 1..(L + 1)
      <4>1. Len(arrays') = L + 1 /\ \A n \in 1..L : arrays'[n] = arrays[n]
        BY <2>2 DEF Grown, Renewed
      <4>2. L \in Nat /\ DOMAIN arrays' = 1..Len(arrays')
        BY <1>1
      <4> HIDE DEF L
      <4>3. 1..L \subseteq 1..(L + 1) /\ L + 1 \in 1..(L + 1)
        BY <4>2
      <4>4. QED
        BY <4>1, <4>2, <4>3
    <3>2. CASE x \in 1..added
      BY <1>1, <3>1, <3>2 DEF Covered
    <3>3. CASE x \notin 1..added
      <4>1. Grown /\ x = added + 1
        <5>1. added' = added + 1 \/ added' = added
          BY <2>2 DEF Grown, Renewed
        <5>2. added' # added /\ x = added + 1
          BY <1>1, <3>3, <5>1
        <5>3. QED
          BY <2>2, <5>2 DEF Renewed
      <4>2. QED
        BY <1>3, <3>1, <4>1 DEF Grown
    <3>4. QED
      BY <3>2, <3>3
  <2>3. CASE UNCHANGED <<arrays, added>>
    BY <2>3 DEF Covered
  <2>4. QED
    BY <2>1, <2>2, <2>3
<1>5. QED
  BY <1>4 DEF Covered

-----------------------------------------------------------------------------
(* Steps of Add and Close, as long as calls do not overlap *)

LEMMA RowsOfStoresStay ==
    ASSUME RowsOfStores, UNCHANGED <<stores, rows>>,
           \A i \in DOMAIN stores : Cells(i)' = Cells(i)
    PROVE  RowsOfStores'
  BY DEF RowsOfStores

LEMMA NoHeadersCurrent ==
    ASSUME TypeInv', \A p \in Procs : pc'[p] # "load"
    PROVE  HeadersCurrent'
  BY DEF TypeInv, HeadersOK, HeadersCurrent, NoHeader

LEMMA PcFacts ==
    ASSUME TypeInv
    PROVE  /\ pc \in [Procs -> {"idle", "check", "load", "reset", "closing", "closed"}]
           /\ Adders \subseteq Procs /\ Closer \in Procs /\ Closer \notin Adders
           /\ \A p \in Procs : p \in Adders \/ p = Closer
  BY ClickHouseAssumption DEF TypeInv, Shape, Procs

LEMMA CalmAppend ==
    ASSUME Inv, TypeInv, TypeInv', NEW p \in Adders, AppendRecord(p), calm => Calm, calm'
    PROVE  Calm'
<1>1. calm /\ Quiet /\ pc[Closer] = "idle" /\ Calm
  BY DEF AppendRecord
<1>2. pc' = [pc EXCEPT ![p] = "check"] /\ UNCHANGED <<header, stores, rows>> /\ added' = added + 1
  BY DEF AppendRecord, Goto
<1>3. Appended
  <2>1. Busy = {}
    BY <1>1 DEF Quiet, Busy
  <2>2. Len(batch) <= BatchSize - 1
    <3>1. Cardinality(Busy) = 0
      BY <2>1, FS_EmptySet
    <3>2. QED
      BY <3>1, ClickHouseAssumption DEF Inv, BatchBound
  <2>3. current.cap = BatchSize
    BY <1>1, ArrayFacts DEF Calm, NoGrowth
  <2>4. Len(batch) < current.cap
    BY <2>2, <2>3, BatchShape, ClickHouseAssumption DEF TypeInv
  <2>5. QED
    BY <2>4, AppendIs DEF TypeInv, Grown
<1>4. pc'[Closer] = "idle" /\ \A q \in Adders : pc'[q] = IF q = p THEN "check" ELSE "idle"
  BY <1>1, <1>2, PcFacts DEF Quiet
<1>5. OneAtATime'
  BY <1>4 DEF OneAtATime, Busy
<1>6. NoGrowth'
  <2>1. DOMAIN arrays' = DOMAIN arrays
    BY <1>3 DEF Appended, TypeInv, Shape
  <2>2. ASSUME NEW n \in DOMAIN arrays PROVE arrays'[n].cap = arrays[n].cap
    <3>1. n \in 1..(Len(arrays) - 1) \/ n = Len(arrays)
      BY ArrayFacts, LastOrBefore
    <3>2. QED
      BY <1>3, <3>1, ArrayFacts DEF Appended
  <2>3. QED
    BY <1>1, <2>1, <2>2 DEF Calm, NoGrowth
<1>7. HeadersCurrent'
  <2>1. \A q \in Procs : pc'[q] # "load"
    BY <1>4, PcFacts
  <2>2. QED
    BY <2>1, NoHeadersCurrent
<1>8. ~Owed /\ ~Owed'
  BY <1>1, <1>4 DEF Quiet, Owed
<1>9. \A i \in DOMAIN stores : Cells(i)' = Cells(i)
  <2> SUFFICES ASSUME NEW i \in DOMAIN stores PROVE Cells(i)' = Cells(i)
    OBVIOUS
  <2>1. stores[i].arr \in 1..Len(arrays)
    BY StoreFacts DEF TypeInv
  <2>2. stores[i].arr # Len(arrays)
    BY <1>1, <1>8 DEF Calm, EachOnce, Handed
  <2>3. stores[i].arr \in 1..(Len(arrays) - 1)
    BY <2>1, <2>2, ArrayFacts, LastOrBefore
  <2>4. QED
    BY <1>2, <1>3, <2>3 DEF Cells, Appended
<1>10. EachOnce'
  BY <1>1, <1>2, <1>3, <1>8, <1>9 DEF Calm, EachOnce, Handed, Appended
<1>11. CloserLast'
  BY <1>4 DEF CloserLast
<1>12. Disjoint'
  BY <1>1, <1>3, DisjointStays DEF Calm
<1>13. RowsOfStores'
  BY <1>1, <1>2, <1>9, RowsOfStoresStay DEF Calm
<1>14. QED
  BY <1>5, <1>6, <1>7, <1>10, <1>11, <1>12, <1>13 DEF Calm

LEMMA CalmCheck ==
    ASSUME TypeInv, TypeInv', NEW p \in Adders, CheckFull(p), Calm
    PROVE  Calm'
<1>1. /\ pc[p] = "check" /\ (pc' = [pc EXCEPT ![p] = "load"] \/ pc' = [pc EXCEPT ![p] = "idle"])
      /\ UNCHANGED <<arrays, added, header, stores, rows>>
  BY DEF CheckFull, Goto
<1>2. /\ pc'[Closer] = pc[Closer]
      /\ \A q \in Adders : (pc'[q] = "reset" <=> pc[q] = "reset") /\ (pc[q] = "idle" => pc'[q] = "idle")
  BY <1>1, PcFacts
<1>3. OneAtATime'
  BY <1>2 DEF Calm, OneAtATime, Busy, Quiet
<1>4. Owed' <=> Owed
  BY <1>2 DEF Owed
<1>5. EachOnce'
  BY <1>1, <1>4 DEF Calm, EachOnce, Handed, Cells
<1>6. CloserLast'
  BY <1>1, <1>2 DEF Calm, CloserLast, Pending, batch, current
<1>7. RowsOfStores' /\ Disjoint' /\ NoGrowth' /\ HeadersCurrent'
  BY <1>1 DEF Calm, RowsOfStores, Cells, Disjoint, NoGrowth, HeadersCurrent, batch, current
<1>8. QED
  BY <1>3, <1>5, <1>6, <1>7 DEF Calm

LEMMA CalmLoad ==
    ASSUME TypeInv, TypeInv', NEW p \in Procs, LoadArray(p) \/ LoadLen(p), Calm
    PROVE  Calm'
<1>1. UNCHANGED <<arrays, added, pc, stores, rows>>
  BY DEF LoadArray, LoadLen
<1>2. HeadersCurrent'
  BY <1>1 DEF LoadArray, LoadLen, Calm, HeadersCurrent, batch, current, TypeInv, HeadersOK
<1>3. OneAtATime' /\ EachOnce' /\ CloserLast'
  BY <1>1 DEF Calm, OneAtATime, Busy, Quiet, EachOnce, Handed, Owed, Cells, CloserLast, Pending,
     batch, current
<1>4. RowsOfStores' /\ Disjoint' /\ NoGrowth'
  BY <1>1 DEF Calm, RowsOfStores, Cells, Disjoint, NoGrowth
<1>5. QED
  BY <1>2, <1>3, <1>4 DEF Calm

LEMMA CalmHandOver ==
    ASSUME TypeInv, TypeInv', NEW p \in Procs, HandOver(p), Calm
    PROVE  Calm'
<1>0. PICK k \in Nat : k = Len(stores) + 1
  BY LenProperties DEF TypeInv, StoresOK
<1> DEFINE L == Len(arrays)
           t == stores'[k]
<1>1. /\ pc[p] = "load" /\ header' = [header EXCEPT ![p] = NoHeader]
      /\ pc' = [pc EXCEPT ![p] = IF p = Closer THEN "closing" ELSE "reset"]
      /\ header[p].arr # 0 /\ header[p].len # -1
      /\ UNCHANGED <<arrays, added, rows>>
  BY DEF HandOver, Goto
<1>2. t.arr = L /\ t.len = Len(batch) /\ t.by = p /\ t.st = "waiting"
  <2>1. header[p].arr = L /\ header[p].len = Len(batch)
    BY <1>1 DEF Calm, HeadersCurrent
  <2>2. t = Task(p)
    BY <1>0, HandOverTypes
  <2>3. QED
    BY <2>1, <2>2 DEF Task
<1>3. /\ DOMAIN stores' = DOMAIN stores \cup {k} /\ k \notin DOMAIN stores
      /\ \A i \in DOMAIN stores : stores'[i] = stores[i]
  <2>1. Len(stores) \in Nat /\ DOMAIN stores = 1..Len(stores)
    BY LenProperties DEF TypeInv, StoresOK
  <2>2. 1..(Len(stores) + 1) = 1..Len(stores) \cup {Len(stores) + 1}
        /\ Len(stores) + 1 \notin 1..Len(stores)
    BY <2>1
  <2>3. QED
    BY <1>0, <2>1, <2>2, HandOverTypes
<1> HIDE DEF t
<1>4. ~Owed /\ Owed'
  <2>1. CASE p \in Adders
    <3>1. pc[Closer] = "idle" /\ \A q \in Adders : q # p => pc[q] = "idle"
      BY <1>1, <2>1 DEF Calm, OneAtATime, Quiet, Busy
    <3>2. QED
      BY <1>1, <2>1, <3>1, PcFacts DEF Owed
  <2>2. CASE p = Closer
    <3>1. Quiet
      BY <1>1, <2>2 DEF Calm, OneAtATime
    <3>2. QED
      BY <1>1, <2>2, <3>1, PcFacts DEF Owed, Quiet
  <2>3. QED
    BY <2>1, <2>2, PcFacts
<1>5. \A i \in DOMAIN stores : Cells(i)' = Cells(i) /\ stores[i].arr # L
  BY <1>1, <1>3, <1>4 DEF Cells, Calm, EachOnce, Handed
<1>6. Cells(k)' = batch
  BY <1>1, <1>2 DEF Cells, t, batch, current
<1>7. OneAtATime'
  <2>1. CASE p \in Adders
    BY <1>1, <2>1, PcFacts DEF Calm, OneAtATime, Busy, Quiet
  <2>2. CASE p = Closer
    BY <1>1, <2>2, PcFacts DEF Calm, OneAtATime, Busy, Quiet
  <2>3. QED
    BY <2>1, <2>2, PcFacts
<1>8. HeadersCurrent'
  BY <1>1 DEF Calm, HeadersCurrent, batch, current, TypeInv, HeadersOK, NoHeader
<1>9. EachOnce'
  <2>1. ASSUME NEW i \in DOMAIN stores' PROVE stores'[i].len = Len(Cells(i)')
    <3>1. CASE i = k
      BY <1>2, <1>6, <3>1 DEF t
    <3>2. CASE i # k
      BY <1>3, <1>5, <3>2 DEF Calm, EachOnce
    <3>3. QED
      BY <3>1, <3>2
  <2>2. \A i, j \in DOMAIN stores' : stores'[i].arr = stores'[j].arr => i = j
    BY <1>2, <1>3, <1>5 DEF Calm, EachOnce, t
  <2>3. Handed' = Handed \cup {L}
    BY <1>2, <1>3 DEF Handed, t
  <2>4. QED
    BY <1>1, <1>4, <2>1, <2>2, <2>3 DEF Calm, EachOnce
<1>10. CloserLast'
  <2>1. pc'[Closer] # "closed"
    <3>1. CASE p = Closer
      BY <1>1, <3>1, PcFacts
    <3>2. CASE p # Closer
      <4>1. p \in Adders /\ pc[p] # "idle"
        BY <1>1, <3>2, PcFacts
      <4>2. pc[Closer] = "idle"
        BY <4>1 DEF Calm, OneAtATime, Quiet
      <4>3. QED
        BY <1>1, <3>2, <4>2, PcFacts
    <3>3. QED
      BY <3>1, <3>2
  <2>2. ASSUME pc'[Closer] # "idle" PROVE \A i \in Pending' : stores'[i].by = Closer
    <3>1. p = Closer
      <4>1. CASE p # Closer
        <5>1. p \in Adders /\ pc[p] # "idle"
          BY <1>1, <4>1, PcFacts
        <5>2. pc[Closer] = "idle"
          BY <5>1 DEF Calm, OneAtATime, Quiet
        <5>3. QED
          BY <1>1, <2>2, <4>1, <5>2, PcFacts
      <4>2. QED
        BY <4>1
    <3>2. \A i \in Pending : stores[i].by = Closer
      BY <1>1, <3>1 DEF Calm, CloserLast
    <3>3. \A i \in Pending' : i = k \/ i \in Pending
      BY <1>3 DEF Pending
    <3>4. QED
      BY <1>2, <1>3, <3>1, <3>2, <3>3 DEF Pending, t
  <2>3. QED
    BY <2>1, <2>2 DEF CloserLast
<1>11. RowsOfStores'
  <2>1. \A y \in ToSet(rows') :
           \E i \in DOMAIN stores' : stores'[i].st = "committed" /\ y \in ToSet(Cells(i)')
    BY <1>1, <1>3, <1>5 DEF Calm, RowsOfStores
  <2>2. \A i \in DOMAIN stores' : stores'[i].st \in {"committed", "leaked"} => i \in DOMAIN stores
    BY <1>2, <1>3 DEF t
  <2>3. \A i \in DOMAIN stores' : stores'[i].st = "committed" => ToSet(Cells(i)') \subseteq ToSet(rows')
    BY <1>1, <1>3, <1>5, <2>2 DEF Calm, RowsOfStores
  <2>4. \A i \in DOMAIN stores' : stores'[i].st = "leaked" => stores'[i].len = 0
    BY <1>3, <2>2 DEF Calm, RowsOfStores
  <2>5. IsInjective(rows')
    BY <1>1 DEF Calm, RowsOfStores
  <2>6. QED
    BY <2>1, <2>3, <2>4, <2>5 DEF RowsOfStores
<1>12. Disjoint' /\ NoGrowth'
  BY <1>1 DEF Calm, Disjoint, NoGrowth
<1>13. QED
  BY <1>7, <1>8, <1>9, <1>10, <1>11, <1>12 DEF Calm

(* A reset replaces a batch that has been handed over. *)
LEMMA CalmRenew ==
    ASSUME TypeInv, TypeInv', Renewed, UNCHANGED <<header, stores, rows>>, Calm,
           Owed, ~Owed', \A p \in Procs : pc'[p] # "load"
    PROVE  /\ NoGrowth' /\ HeadersCurrent' /\ EachOnce' /\ Disjoint' /\ RowsOfStores'
           /\ batch' = <<>>
<1> DEFINE L == Len(arrays)
<1>1. /\ L \in Nat \ {0} /\ Len(arrays') = L + 1 /\ arrays'[L + 1] = NewArray
      /\ \A n \in 1..L : arrays'[n] = arrays[n]
  BY ArrayFacts DEF Renewed
<1>2. batch' = <<>>
  BY <1>1 DEF batch, current, NewArray
<1>3. \A i \in DOMAIN stores : stores[i].arr \in 1..L /\ Cells(i)' = Cells(i)
  BY <1>1, StoreFacts DEF Cells, TypeInv
<1>4. NoGrowth'
  BY RenewedCells DEF Calm, NoGrowth, NewArray
<1>5. EachOnce'
  <2>1. Handed' = Handed
    BY DEF Handed
  <2>2. L + 1 \notin Handed
    <3>1. Handed \subseteq 1..L
      BY <1>3 DEF Handed
    <3> HIDE DEF L
    <3>2. L + 1 \notin 1..L
      BY <1>1
    <3>3. QED
      BY <3>1, <3>2
  <2>3. 1..L \subseteq Handed
    <3>1. 1..(L - 1) \subseteq Handed /\ L \in Handed
      BY DEF Calm, EachOnce
    <3>2. \A n \in 1..L : n \in 1..(L - 1) \/ n = L
      BY <1>1, LastOrBefore
    <3>3. QED
      BY <3>1, <3>2
  <2>4. Len(arrays') - 1 = L
    BY <1>1
  <2>5. 1..(Len(arrays') - 1) \subseteq Handed' /\ (Len(arrays') \in Handed' <=> Owed')
    BY <1>1, <2>1, <2>2, <2>3, <2>4
  <2>6. \A i \in DOMAIN stores' : stores'[i].len = Len(Cells(i)')
    BY <1>3 DEF Calm, EachOnce
  <2>7. \A i, j \in DOMAIN stores' : stores'[i].arr = stores'[j].arr => i = j
    BY DEF Calm, EachOnce
  <2>8. QED
    BY <2>5, <2>6, <2>7 DEF EachOnce
<1>6. Disjoint' /\ HeadersCurrent' /\ RowsOfStores'
  BY <1>3, DisjointStays, NoHeadersCurrent, RowsOfStoresStay DEF Calm
<1>7. QED
  BY <1>2, <1>4, <1>5, <1>6

LEMMA CalmReset ==
    ASSUME TypeInv, TypeInv', NEW p \in Adders, ResetBatch(p), Calm
    PROVE  Calm'
<1>1. /\ pc[p] = "reset" /\ pc' = [pc EXCEPT ![p] = "idle"] /\ Renewed
      /\ UNCHANGED <<header, stores, rows>>
  BY RenewIs DEF ResetBatch, Goto, TypeInv
<1>2. pc[Closer] = "idle" /\ \A q \in Adders : q # p => pc[q] = "idle"
  BY <1>1 DEF Calm, OneAtATime, Quiet, Busy
<1>3. pc'[Closer] = "idle" /\ \A q \in Adders : pc'[q] = "idle"
  BY <1>1, <1>2, PcFacts
<1>4. Owed /\ ~Owed' /\ \A q \in Procs : pc'[q] # "load"
  BY <1>1, <1>3, PcFacts DEF Owed
<1>5. OneAtATime' /\ CloserLast'
  BY <1>3 DEF OneAtATime, CloserLast, Busy
<1>6. QED
  BY <1>1, <1>4, <1>5, CalmRenew DEF Calm

(* Close begins when no Add is under way and the stores are over. *)
LEMMA CalmClose ==
    ASSUME TypeInv, Close, calm => Calm, calm'
    PROVE  Calm'
<1>1. /\ calm /\ Quiet /\ Pending = {} /\ Calm /\ pc[Closer] = "idle"
      /\ pc' = [pc EXCEPT ![Closer] = "load"] /\ UNCHANGED <<arrays, added, header, stores, rows>>
  BY DEF Close, Goto
<1>2. pc'[Closer] = "load" /\ \A q \in Adders : pc'[q] = pc[q]
  BY <1>1, PcFacts
<1>3. OneAtATime' /\ CloserLast'
  BY <1>1, <1>2 DEF OneAtATime, Busy, Quiet, CloserLast, Pending
<1>4. EachOnce'
  <2>1. ~Owed /\ ~Owed'
    BY <1>1, <1>2 DEF Owed, Quiet
  <2>2. QED
    BY <1>1, <2>1 DEF Calm, EachOnce, Handed, Cells
<1>5. RowsOfStores' /\ Disjoint' /\ NoGrowth' /\ HeadersCurrent'
  BY <1>1 DEF Calm, RowsOfStores, Cells, Disjoint, NoGrowth, HeadersCurrent, batch, current
<1>6. QED
  BY <1>3, <1>4, <1>5 DEF Calm

(* Its own store is the only one left, and is over when it returns. *)
LEMMA CalmCloseReturns ==
    ASSUME TypeInv, TypeInv', CloserTask, CloseReturns, Calm
    PROVE  Calm'
<1>1. /\ pc[Closer] = "closing" /\ pc' = [pc EXCEPT ![Closer] = "closed"] /\ Renewed
      /\ UNCHANGED <<header, stores, rows>>
  BY RenewIs DEF CloseReturns, Goto, TypeInv
<1>2. Quiet
  BY <1>1 DEF Calm, OneAtATime
<1>3. pc'[Closer] = "closed" /\ \A q \in Adders : pc'[q] = "idle"
  BY <1>1, <1>2, PcFacts DEF Quiet
<1>4. Owed /\ ~Owed' /\ \A q \in Procs : pc'[q] # "load"
  BY <1>1, <1>3, PcFacts DEF Owed
<1>5. Pending' = {}
  <2>1. PICK i \in DOMAIN stores : stores[i].by = Closer /\ stores[i].st \in Over
    BY DEF CloseReturns
  <2>2. ASSUME NEW j \in Pending PROVE FALSE
    <3>1. stores[j].by = Closer /\ j \in DOMAIN stores /\ stores[j].st \notin Over
      BY <1>1 DEF Calm, CloserLast, Pending
    <3>2. j = i
      BY <2>1, <3>1 DEF CloserTask
    <3>3. QED
      BY <2>1, <3>1, <3>2
  <2>3. QED
    BY <1>1, <2>2 DEF Pending
<1>6. /\ NoGrowth' /\ HeadersCurrent' /\ EachOnce' /\ Disjoint' /\ RowsOfStores' /\ batch' = <<>>
  BY <1>1, <1>4, CalmRenew
<1>7. OneAtATime' /\ CloserLast'
  BY <1>3, <1>5, <1>6 DEF OneAtATime, Busy, Quiet, CloserLast
<1>8. QED
  BY <1>6, <1>7 DEF Calm

LEMMA ConcatSet ==
    ASSUME NEW S, NEW s \in Seq(S), NEW t \in Seq(S)
    PROVE  /\ ToSet(s \o t) = ToSet(s) \cup ToSet(t)
           /\ IsInjective(s) /\ IsInjective(t) /\ ToSet(s) \cap ToSet(t) = {} => IsInjective(s \o t)
<1> DEFINE u == s \o t
           m == Len(s)
           k == Len(t)
<1>1. /\ m \in Nat /\ k \in Nat /\ DOMAIN s = 1..m /\ DOMAIN t = 1..k /\ DOMAIN u = 1..(m + k)
      /\ \A i \in 1..(m + k) : u[i] = IF i <= m THEN s[i] ELSE t[i - m]
  BY ConcatProperties, LenProperties
<1> HIDE DEF u, m, k
<1>2. ASSUME NEW i \in 1..(m + k)
      PROVE  \/ i \in 1..m /\ u[i] = s[i] /\ u[i] \in ToSet(s)
             \/ i - m \in 1..k /\ i \notin 1..m /\ u[i] = t[i - m] /\ u[i] \in ToSet(t)
  <2>1. CASE i <= m
    <3>1. i \in 1..m
      BY <1>1, <2>1
    <3>2. QED
      BY <1>1, <2>1, <3>1 DEF ToSet
  <2>2. CASE ~(i <= m)
    <3>1. i - m \in 1..k /\ i \notin 1..m
      BY <1>1, <2>2
    <3>2. QED
      BY <1>1, <2>2, <3>1 DEF ToSet
  <2>3. QED
    BY <2>1, <2>2
<1>3. ASSUME NEW i \in 1..m PROVE i \in DOMAIN u /\ u[i] = s[i]
  <2>1. i \in 1..(m + k) /\ i <= m
    BY <1>1
  <2>2. QED
    BY <1>1, <2>1
<1>4. ASSUME NEW i \in 1..k PROVE m + i \in DOMAIN u /\ u[m + i] = t[i]
  <2>1. m + i \in 1..(m + k) /\ ~(m + i <= m) /\ (m + i) - m = i
    BY <1>1
  <2>2. QED
    BY <1>1, <2>1
<1>5. ToSet(u) = ToSet(s) \cup ToSet(t)
  <2>1. ToSet(u) \subseteq ToSet(s) \cup ToSet(t)
    BY <1>1, <1>2 DEF ToSet
  <2>2. ToSet(s) \subseteq ToSet(u)
    BY <1>1, <1>3 DEF ToSet
  <2>3. ToSet(t) \subseteq ToSet(u)
    BY <1>1, <1>4 DEF ToSet
  <2>4. QED
    BY <2>1, <2>2, <2>3
<1>6. ASSUME IsInjective(s), IsInjective(t), ToSet(s) \cap ToSet(t) = {} PROVE IsInjective(u)
  <2> SUFFICES ASSUME NEW a \in 1..(m + k), NEW b \in 1..(m + k), u[a] = u[b] PROVE a = b
    BY <1>1 DEF IsInjective
  <2>1. CASE a \in 1..m /\ b \in 1..m
    BY <1>1, <1>3, <1>6, <2>1 DEF IsInjective
  <2>2. CASE a \notin 1..m /\ b \notin 1..m
    <3>1. t[a - m] = t[b - m] /\ a - m \in 1..k /\ b - m \in 1..k
      BY <1>2, <2>2
    <3>2. a - m = b - m
      BY <1>1, <1>6, <3>1 DEF IsInjective
    <3>3. QED
      BY <1>1, <3>2
  <2>3. CASE (a \in 1..m) # (b \in 1..m)
    <3>1. u[a] \in ToSet(s) /\ u[a] \in ToSet(t)
      <4>1. \A i \in 1..(m + k) : i \in 1..m => u[i] \in ToSet(s)
        BY <1>2
      <4>2. \A i \in 1..(m + k) : i \notin 1..m => u[i] \in ToSet(t)
        BY <1>2
      <4>3. QED
        BY <2>3, <4>1, <4>2
    <3>2. QED
      BY <1>6, <3>1
  <2>4. QED
    BY <2>1, <2>2, <2>3
<1>7. QED
  BY <1>5, <1>6 DEF u

(* The records a store commits are in no batch that was stored before. *)
LEMMA CalmCommit ==
    ASSUME TypeInv, Calm, NEW i \in DOMAIN stores, stores[i].st # "committed",
           rows' = rows \o SubSeq(Cells(i), 1, stores[i].len)
    PROVE  ToSet(rows') = ToSet(rows) \cup ToSet(Cells(i)) /\ IsInjective(rows')
<1>1. stores[i].len = Len(Cells(i))
  BY DEF Calm, EachOnce
<1>2. Cells(i) \in Seq(1..added) /\ Len(Cells(i)) \in Nat
  <2>1. stores[i].arr \in DOMAIN arrays
    BY StoreFacts, ArrayFacts DEF TypeInv
  <2>2. QED
    BY <2>1, LenProperties DEF Cells, TypeInv, CellsOK, GoodArray
<1>3. rows' = rows \o Cells(i) /\ rows \in Seq(1..added)
  BY <1>1, <1>2, CommittedCells DEF TypeInv
<1>4. IsInjective(rows)
  BY DEF Calm, RowsOfStores
<1>5. IsInjective(Cells(i))
  <2>1. stores[i].arr \in DOMAIN arrays
    BY StoreFacts, ArrayFacts DEF TypeInv
  <2>2. QED
    BY <2>1 DEF Calm, Disjoint, IsInjective, Cells
<1>6. ToSet(rows) \cap ToSet(Cells(i)) = {}
  <2> SUFFICES ASSUME NEW y \in ToSet(rows), y \in ToSet(Cells(i)) PROVE FALSE
    OBVIOUS
  <2>1. PICK j \in DOMAIN stores : stores[j].st = "committed" /\ y \in ToSet(Cells(j))
    BY DEF Calm, RowsOfStores
  <2>2. stores[i].arr \in DOMAIN arrays /\ stores[j].arr \in DOMAIN arrays
    BY StoreFacts, ArrayFacts DEF TypeInv
  <2>3. stores[i].arr = stores[j].arr
    BY <2>1, <2>2 DEF Calm, Disjoint, Cells, ToSet
  <2>4. i = j
    BY <2>3 DEF Calm, EachOnce
  <2>5. QED
    BY <2>1, <2>4
<1> DEFINE t == Cells(i)
<1> HIDE DEF t
<1>7. ToSet(rows \o t) = ToSet(rows) \cup ToSet(t) /\ IsInjective(rows \o t)
  BY <1>2, <1>3, <1>4, <1>5, <1>6, ConcatSet DEF t
<1>8. QED
  BY <1>3, <1>7 DEF t

LEMMA CalmStore ==
    ASSUME TypeInv, NEW i \in DOMAIN stores, StoreStep(i), Calm
    PROVE  Calm'
<1>1. UNCHANGED <<arrays, added, pc, header, calm>>
  BY StoreStepIs
<1>2. OneAtATime' /\ NoGrowth' /\ HeadersCurrent' /\ Disjoint'
  BY <1>1 DEF Calm, OneAtATime, Busy, Quiet, NoGrowth, HeadersCurrent, Disjoint, batch, current
<1>3. CASE UNCHANGED <<stores, storeMux, rows>>
  <2>1. EachOnce' /\ CloserLast' /\ RowsOfStores'
    BY <1>1, <1>3 DEF Calm, EachOnce, Handed, Owed, Cells, CloserLast, Pending, batch, current,
       RowsOfStores
  <2>2. QED
    BY <1>2, <2>1 DEF Calm
<1>4. ASSUME NEW st \in States, Becomes(i, st), stores[i].st \notin Over,
             st = "leaked" => stores[i].len = 0,
             st # "committed" => UNCHANGED rows,
             st = "committed" => rows' = rows \o SubSeq(Cells(i), 1, stores[i].len)
      PROVE  Calm'
  <2>1. /\ DOMAIN stores' = DOMAIN stores /\ stores'[i].st = st
        /\ \A j \in DOMAIN stores :
              /\ stores'[j].arr = stores[j].arr /\ stores'[j].len = stores[j].len
              /\ stores'[j].by = stores[j].by
              /\ j # i => stores'[j].st = stores[j].st
    BY <1>4, BecomesIs DEF TypeInv
  <2>2. \A j \in DOMAIN stores : Cells(j)' = Cells(j)
    BY <1>1, <2>1 DEF Cells
  <2>3. EachOnce'
    <3>1. Handed' = Handed
      BY <2>1 DEF Handed
    <3>2. Owed' <=> Owed
      BY <1>1 DEF Owed
    <3>3. /\ \A j \in DOMAIN stores' : stores'[j].len = Len(Cells(j)')
          /\ \A j, k \in DOMAIN stores' : stores'[j].arr = stores'[k].arr => j = k
      BY <2>1, <2>2 DEF Calm, EachOnce
    <3>4. QED
      BY <1>1, <3>1, <3>2, <3>3 DEF Calm, EachOnce
  <2>4. CloserLast'
    <3>1. Pending' \subseteq Pending
      BY <1>4, <2>1 DEF Pending
    <3>2. \A j \in Pending : stores'[j].by = stores[j].by
      BY <2>1 DEF Pending
    <3>3. QED
      BY <1>1, <3>1, <3>2 DEF Calm, CloserLast, batch, current
  <2>5. RowsOfStores'
    <3>1. stores[i].st \notin {"committed", "leaked"}
      BY <1>4 DEF Over
    <3>2. \A j \in DOMAIN stores' : stores'[j].st = "leaked" => stores'[j].len = 0
      BY <1>4, <2>1 DEF Calm, RowsOfStores
    <3>3. CASE st = "committed"
      <4>1. ToSet(rows') = ToSet(rows) \cup ToSet(Cells(i)) /\ IsInjective(rows')
        BY <1>4, <3>1, <3>3, CalmCommit
      <4>2. \A y \in ToSet(rows') :
               \E j \in DOMAIN stores' : stores'[j].st = "committed" /\ y \in ToSet(Cells(j)')
        BY <2>1, <2>2, <3>1, <3>3, <4>1 DEF Calm, RowsOfStores
      <4>3. \A j \in DOMAIN stores' : stores'[j].st = "committed" => ToSet(Cells(j)') \subseteq ToSet(rows')
        BY <2>1, <2>2, <4>1 DEF Calm, RowsOfStores
      <4>4. QED
        BY <3>2, <4>1, <4>2, <4>3 DEF RowsOfStores
    <3>4. CASE st # "committed"
      <4>1. rows' = rows
        BY <1>4, <3>4
      <4>2. \A y \in ToSet(rows') :
               \E j \in DOMAIN stores' : stores'[j].st = "committed" /\ y \in ToSet(Cells(j)')
        BY <2>1, <2>2, <3>1, <4>1 DEF Calm, RowsOfStores
      <4>3. \A j \in DOMAIN stores' : stores'[j].st = "committed" => ToSet(Cells(j)') \subseteq ToSet(rows')
        BY <2>1, <2>2, <3>4, <4>1 DEF Calm, RowsOfStores
      <4>4. QED
        BY <3>2, <4>1, <4>2, <4>3 DEF Calm, RowsOfStores
    <3>5. QED
      BY <3>3, <3>4
  <2>6. QED
    BY <1>2, <2>3, <2>4, <2>5 DEF Calm
<1>5. QED
  BY <1>3, <1>4, StoreStepIs

LEMMA CloserTaskNext == TypeInv /\ CloserTask /\ [Next]_vars => CloserTask'
<1> SUFFICES ASSUME TypeInv, CloserTask, [Next]_vars PROVE CloserTask'
  OBVIOUS
<1>1. ASSUME NEW p \in Adders, AppendRecord(p) \/ CheckFull(p) \/ ResetBatch(p) PROVE CloserTask'
  <2>1. UNCHANGED stores /\ \E l : pc' = [pc EXCEPT ![p] = l]
    BY <1>1 DEF AppendRecord, CheckFull, ResetBatch, Goto
  <2>2. pc'[Closer] = pc[Closer]
    BY <2>1, PcFacts
  <2>3. QED
    BY <2>1, <2>2 DEF CloserTask
<1>2. ASSUME NEW p \in Procs, LoadArray(p) \/ LoadLen(p) PROVE CloserTask'
  BY <1>2 DEF LoadArray, LoadLen, CloserTask
<1>3. ASSUME NEW p \in Procs, HandOver(p) PROVE CloserTask'
  <2> DEFINE k == Len(stores) + 1
  <2>1. /\ pc[p] = "load" /\ pc' = [pc EXCEPT ![p] = IF p = Closer THEN "closing" ELSE "reset"]
    BY <1>3 DEF HandOver, Goto
  <2>2. /\ stores'[k].by = p
        /\ \A i \in DOMAIN stores : stores'[i] = stores[i]
        /\ \A i \in DOMAIN stores' : i \in DOMAIN stores \/ i = k
    <3>1. Len(stores) \in Nat /\ DOMAIN stores = 1..Len(stores)
      BY LenProperties DEF TypeInv, StoresOK
    <3>2. \A i \in 1..(Len(stores) + 1) : i \in 1..Len(stores) \/ i = Len(stores) + 1
      BY <3>1
    <3>3. stores'[k] = Task(p) /\ DOMAIN stores' = 1..(Len(stores) + 1)
          /\ \A i \in 1..Len(stores) : stores'[i] = stores[i]
      BY <1>3, HandOverTypes
    <3>4. stores'[k].by = p
      BY <3>3 DEF Task
    <3> HIDE DEF k
    <3>5. k = Len(stores) + 1
      BY DEF k
    <3>6. QED
      BY <3>1, <3>2, <3>3, <3>4, <3>5
  <2> HIDE DEF k
  <2>3. CASE p = Closer
    <3>1. \A i \in DOMAIN stores : stores[i].by # Closer
      BY <2>1, <2>3 DEF CloserTask
    <3>2. pc'[Closer] = "closing"
      BY <2>1, <2>3, PcFacts
    <3>3. QED
      BY <2>2, <3>1, <3>2 DEF CloserTask
  <2>4. CASE p # Closer
    <3>1. pc'[Closer] = pc[Closer]
      BY <2>1, <2>4, PcFacts
    <3>2. QED
      BY <2>2, <2>4, <3>1 DEF CloserTask
  <2>5. QED
    BY <2>3, <2>4
<1>4. CASE Close
  <2>1. UNCHANGED stores /\ pc[Closer] = "idle"
    BY <1>4 DEF Close
  <2>2. QED
    BY <2>1 DEF CloserTask
<1>5. CASE CloseReturns
  <2>1. UNCHANGED stores /\ pc' = [pc EXCEPT ![Closer] = "closed"]
    BY <1>5 DEF CloseReturns, Goto
  <2>2. pc'[Closer] = "closed"
    BY <2>1, PcFacts
  <2>3. QED
    BY <2>1, <2>2 DEF CloserTask
<1>6. ASSUME NEW i \in DOMAIN stores, StoreStep(i) PROVE CloserTask'
  <2>1. UNCHANGED pc
    BY <1>6, StoreStepIs
  <2>2. UNCHANGED stores \/ \E st \in States : Becomes(i, st)
    BY <1>6, StoreStepIs
  <2>3. DOMAIN stores' = DOMAIN stores /\ \A j \in DOMAIN stores : stores'[j].by = stores[j].by
    BY <2>2, BecomesIs DEF TypeInv
  <2>4. QED
    BY <2>1, <2>3 DEF CloserTask
<1>7. CASE UNCHANGED vars
  BY <1>7 DEF vars, CloserTask
<1>8. Adders \subseteq Procs /\ Closer \in Procs
  BY DEF Procs
<1>9. QED
  BY <1>1, <1>2, <1>3, <1>4, <1>5, <1>6, <1>7, <1>8 DEF Next, AddStep, CloseStep

LEMMA CoveredNext == TypeInv /\ TypeInv' /\ Covered /\ [Next]_vars => Covered'
<1> SUFFICES ASSUME TypeInv, TypeInv', Covered, [Next]_vars PROVE Covered'
  OBVIOUS
<1>1. ASSUME NEW p, AppendRecord(p) PROVE Appended \/ Grown
  BY <1>1, AppendIs DEF TypeInv
<1>2. ASSUME NEW p, ResetBatch(p) PROVE Renewed
  BY <1>2, RenewIs DEF TypeInv, ResetBatch
<1>3. CloseReturns => Renewed
  BY RenewIs DEF TypeInv, CloseReturns
<1>4. ASSUME NEW p, CheckFull(p) \/ LoadArray(p) \/ LoadLen(p) \/ HandOver(p)
      PROVE  UNCHANGED <<arrays, added>>
  BY <1>4 DEF CheckFull, LoadArray, LoadLen, HandOver
<1>5. Close => UNCHANGED <<arrays, added>>
  BY DEF Close
<1>6. ASSUME NEW i \in DOMAIN stores, StoreStep(i) PROVE UNCHANGED <<arrays, added>>
  BY <1>6, StoreStepIs
<1>7. Appended \/ Grown \/ Renewed \/ UNCHANGED <<arrays, added>>
  BY <1>1, <1>2, <1>3, <1>4, <1>5, <1>6 DEF Next, AddStep, CloseStep, vars
<1>8. QED
  BY <1>7, CoveredStays

CalmInv == Inv /\ TypeInv /\ CloserTask /\ Covered /\ (calm => Calm)

LEMMA InitCalm == Init => CalmInv
<1> SUFFICES ASSUME Init PROVE CalmInv
  OBVIOUS
<1>1. Inv /\ TypeInv
  BY InitInv, InitTypes
<1>2. /\ arrays = <<NewArray>> /\ added = 0 /\ stores = <<>> /\ rows = <<>>
      /\ DOMAIN arrays = {1} /\ Len(arrays) = 1 /\ arrays[1].cells = <<>> /\ arrays[1].cap = BatchSize
  BY DEF Init, NewArray
<1>3. DOMAIN stores = {} /\ DOMAIN rows = {}
  BY <1>2
<1>4. CloserTask /\ Covered
  BY <1>2, <1>3 DEF CloserTask, Covered
<1>5. OneAtATime /\ CloserLast /\ ~Owed
  BY ClickHouseAssumption DEF Init, Procs, OneAtATime, Busy, CloserLast, Owed
<1>6. NoGrowth /\ HeadersCurrent
  BY <1>2 DEF Init, NoGrowth, HeadersCurrent, NoHeader
<1>7. EachOnce
  <2>1. Handed = {} /\ 1..(Len(arrays) - 1) = {}
    BY <1>2, <1>3 DEF Handed
  <2>2. QED
    BY <1>3, <1>5, <2>1 DEF EachOnce
<1>8. Disjoint /\ RowsOfStores
  <2>1. DOMAIN arrays[1].cells = {} /\ ToSet(rows) = {}
    BY <1>2, <1>3 DEF ToSet
  <2>2. QED
    BY <1>2, <1>3, <2>1 DEF Disjoint, RowsOfStores, IsInjective
<1>9. QED
  BY <1>1, <1>4, <1>5, <1>6, <1>7, <1>8 DEF CalmInv, Calm

LEMMA NextCalm == CalmInv /\ [Next]_vars => CalmInv'
<1> SUFFICES ASSUME CalmInv, [Next]_vars PROVE CalmInv'
  OBVIOUS
<1>1. Inv /\ TypeInv /\ CloserTask /\ Covered /\ (calm => Calm)
  BY DEF CalmInv
<1>2. Inv' /\ TypeInv' /\ CloserTask' /\ Covered'
  BY <1>1, NextInv, NextTypes, CloserTaskNext, CoveredNext
<1>3. ASSUME calm' PROVE Calm'
  <2>1. ASSUME NEW p \in Adders, AppendRecord(p) PROVE Calm'
    BY <1>1, <1>2, <1>3, <2>1, CalmAppend
  <2>2. CASE Close
    BY <1>1, <1>3, <2>2, CalmClose
  <2>3. ASSUME NEW p \in Adders, CheckFull(p) PROVE Calm'
    BY <1>1, <1>2, <1>3, <2>3, CalmCheck DEF CheckFull
  <2>4. ASSUME NEW p \in Procs, LoadArray(p) \/ LoadLen(p) PROVE Calm'
    BY <1>1, <1>2, <1>3, <2>4, CalmLoad DEF LoadArray, LoadLen
  <2>5. ASSUME NEW p \in Procs, HandOver(p) PROVE Calm'
    BY <1>1, <1>2, <1>3, <2>5, CalmHandOver DEF HandOver
  <2>6. ASSUME NEW p \in Adders, ResetBatch(p) PROVE Calm'
    BY <1>1, <1>2, <1>3, <2>6, CalmReset DEF ResetBatch
  <2>7. CASE CloseReturns
    BY <1>1, <1>2, <1>3, <2>7, CalmCloseReturns DEF CloseReturns
  <2>8. ASSUME NEW i \in DOMAIN stores, StoreStep(i) PROVE Calm'
    BY <1>1, <1>3, <2>8, CalmStore, StoreStepIs
  <2>9. CASE UNCHANGED vars
    <3>1. calm /\ UNCHANGED <<arrays, added, pc, header, stores, rows>>
      BY <1>3, <2>9 DEF vars
    <3>2. QED
      BY <1>1, <3>1 DEF Calm, OneAtATime, Busy, Quiet, NoGrowth, HeadersCurrent, EachOnce, Handed,
         Owed, Cells, CloserLast, Pending, Disjoint, RowsOfStores, batch, current
  <2>10. Adders \subseteq Procs /\ Closer \in Procs
    BY DEF Procs
  <2>11. QED
    BY <2>1, <2>2, <2>3, <2>4, <2>5, <2>6, <2>7, <2>8, <2>9, <2>10 DEF Next, AddStep, CloseStep
<1>4. QED
  BY <1>2, <1>3 DEF CalmInv

(* Under Calm every array is where the books say. *)
LEMMA Accounted ==
    ASSUME CalmInv
    PROVE  NothingLost
<1> SUFFICES ASSUME calm, Quiet, Pending = {} \/ pc[Closer] = "closed"
             PROVE  1..added = ToSet(rows) \cup Dropped
                                \cup (IF pc[Closer] = "closed" THEN {} ELSE ToSet(batch))
  BY DEF NothingLost
<1>1. TypeInv /\ Calm /\ Covered /\ Pending = {}
  BY DEF CalmInv, Calm, CloserLast
<1>2. ASSUME NEW i \in DOMAIN stores
      PROVE  /\ Cells(i) \in Seq(1..added)
             /\ SubSeq(Cells(i), 1, stores[i].len) = Cells(i)
             /\ Cells(i) = arrays[stores[i].arr].cells /\ stores[i].len = Len(Cells(i))
  <2>1. stores[i].arr \in DOMAIN arrays
    BY <1>1, StoreFacts, ArrayFacts DEF TypeInv
  <2>2. Cells(i) \in Seq(1..added) /\ Len(Cells(i)) \in Nat
    BY <1>1, <2>1, LenProperties DEF Cells, TypeInv, CellsOK, GoodArray
  <2>3. stores[i].len = Len(Cells(i))
    BY <1>1 DEF Calm, EachOnce
  <2>4. QED
    BY <1>1, <2>2, <2>3, CommittedCells DEF Cells
<1>3. ToSet(rows) \subseteq 1..added /\ ToSet(batch) \subseteq 1..added
  <2>1. rows \in Seq(1..added) /\ batch \in Seq(1..added)
    BY <1>1, ArrayFacts DEF TypeInv, GoodArray
  <2>2. QED
    BY <2>1, ElementOfSeq, LenProperties DEF ToSet
<1>4. Dropped \subseteq 1..added
  <2>1. ASSUME NEW i \in DOMAIN stores PROVE ToSet(SubSeq(Cells(i), 1, stores[i].len)) \subseteq 1..added
    <3> DEFINE t == Cells(i)
    <3>1. t \in Seq(1..added) /\ SubSeq(t, 1, stores[i].len) = t
      BY <1>2
    <3> HIDE DEF t
    <3>2. ToSet(t) \subseteq 1..added
      BY <3>1, ElementOfSeq, LenProperties DEF ToSet
    <3>3. QED
      BY <3>1, <3>2 DEF t
  <2>2. QED
    BY <2>1 DEF Dropped
<1>5. ASSUME NEW x \in 1..added
      PROVE  x \in ToSet(rows) \cup Dropped
                     \cup (IF pc[Closer] = "closed" THEN {} ELSE ToSet(batch))
  <2>1. PICK n \in DOMAIN arrays : x \in ToSet(arrays[n].cells)
    BY <1>1 DEF Covered
  <2>2. n \in 1..(Len(arrays) - 1) \/ n = Len(arrays)
    BY <1>1, ArrayFacts, LastOrBefore
  <2>3. CASE n = Len(arrays)
    <3>1. x \in ToSet(batch)
      BY <2>1, <2>3 DEF batch, current
    <3>2. pc[Closer] # "closed"
      <4>1. batch # <<>>
        BY <3>1 DEF ToSet
      <4>2. QED
        BY <1>1, <4>1 DEF Calm, CloserLast
    <3>3. QED
      BY <3>1, <3>2
  <2>4. CASE n \in 1..(Len(arrays) - 1)
    <3>1. PICK i \in DOMAIN stores : stores[i].arr = n
      BY <1>1, <2>4 DEF Calm, EachOnce, Handed
    <3>2. x \in ToSet(Cells(i)) /\ x \in ToSet(SubSeq(Cells(i), 1, stores[i].len))
      BY <1>2, <2>1, <3>1 DEF Cells
    <3>3. stores[i].st \in Over
      BY <1>1 DEF Pending
    <3>4. CASE stores[i].st = "committed"
      BY <1>1, <3>2, <3>4 DEF Calm, RowsOfStores
    <3>5. CASE stores[i].st = "failed"
      BY <3>2, <3>5 DEF Dropped
    <3>6. CASE stores[i].st = "leaked"
      <4>1. Len(Cells(i)) = 0
        BY <1>1, <1>2, <3>6 DEF Calm, RowsOfStores
      <4>2. Cells(i) = <<>>
        BY <1>2, <4>1, EmptySeq
      <4>3. QED
        BY <3>2, <4>2 DEF ToSet
    <3>7. QED
      BY <3>3, <3>4, <3>5, <3>6 DEF Over
  <2>5. QED
    BY <2>2, <2>3, <2>4
<1>6. QED
  BY <1>3, <1>4, <1>5

(* As long as calls of Add and Close do not overlap, no record is inserted *)
(* twice, whatever the stores do and in whatever order they commit: the    *)
(* batch handed over is always the whole of an array of its own.           *)
THEOREM NoDuplicates == Spec => []NoDuplicateRows
<1>1. CalmInv => NoDuplicateRows
  BY DEF CalmInv, Calm, RowsOfStores, NoDuplicateRows
<1>2. QED
  BY <1>1, InitCalm, NextCalm, PTL DEF Spec

(* As long as calls of Add and Close do not overlap, every record added is *)
(* in the table, in a batch whose failure was reported, or in the batch    *)
(* still being filled, once the stores are over; after Close no record is  *)
(* left in the batch.                                                      *)
THEOREM NothingIsLost == Spec => []NothingLost
<1>1. CalmInv => NothingLost
  BY Accounted
<1>2. QED
  BY <1>1, InitCalm, NextCalm, PTL DEF Spec
=============================================================================
