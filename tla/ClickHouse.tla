---------------------------- MODULE ClickHouse ----------------------------
(***************************************************************************)
(* services/clickhouse.go: request goroutines Add one statistics record    *)
(* each to a shared batch; whoever finds the batch full hands it to a      *)
(* store goroutine and starts a new one.  Close stores what is left.       *)
(*                                                                         *)
(* Add appends and resets under mux but looks at the batch (its length,    *)
(* then the slice itself) without it.  A slice header is read word by      *)
(* word, in an order the compiler chooses, so a reader may pair the array  *)
(* of one batch with the length of another; arrays are therefore kept      *)
(* apart from headers.  Appending past the capacity moves to a new array.  *)
(***************************************************************************)
EXTENDS Integers, Sequences, FiniteSets, SequencesExt

CONSTANTS
    Adders,     \* request goroutines that call Add
    Closer,     \* the main goroutine, which calls Close
    BatchSize,  \* clickhouse-batch-size
    MaxRecords, \* bound: records added in a run
    Reliable,   \* the database answers without error
    Replicated, \* clickhouse-replicated: inserts go to proxy_stat_all
    Sharded     \* clickhouse-sharded: makeTable creates proxy_stat_all

ASSUME ClickHouseAssumption ==
    /\ IsFiniteSet(Adders)
    /\ Closer \notin Adders
    /\ BatchSize \in Nat \ {0}
    /\ MaxRecords \in Nat
    /\ {Reliable, Replicated, Sharded} \subseteq BOOLEAN

VARIABLES
    arrays,     \* backing arrays in order of allocation; the last is s.batch's
    added,      \* records are 1..added, numbered as Add appended them
    pc,         \* where each goroutine is
    header,     \* the words of s.batch a goroutine has read
    stores,     \* store goroutines in the order they were started
    storeMux,   \* the store that holds storeMux, or 0
    initDone,   \* init.Do has run
    tableOK,    \* the table INSERT names exists, perhaps since an earlier run
    rows,       \* rows of the table in commit order
    crashed,    \* a panic outside any recover ended the process
    calm        \* history: no two calls of Add or Close have overlapped, and
                \* Close waited for the stores

vars == <<arrays, added, pc, header, stores, storeMux, initDone, tableOK, rows, crashed, calm>>

Procs == Adders \cup {Closer}
NoHeader == [arr |-> 0, len |-> -1]
NewArray == [cells |-> <<>>, cap |-> BatchSize]

current == arrays[Len(arrays)]
batch == current.cells

Init ==
    /\ arrays = <<NewArray>>
    /\ added = 0
    /\ pc = [p \in Procs |-> "idle"]
    /\ header = [p \in Procs |-> NoHeader]
    /\ stores = <<>>
    /\ storeMux = 0
    /\ initDone = FALSE
    /\ tableOK \in BOOLEAN
    /\ rows = <<>>
    /\ crashed = FALSE
    /\ calm = TRUE

(* The process ends with Close, or with a panic. *)
Up == ~crashed /\ pc[Closer] # "closed"

Quiet == \A p \in Adders : pc[p] = "idle"

Goto(p, label) == pc' = [pc EXCEPT ![p] = label]

-----------------------------------------------------------------------------
(* Add *)

(* append under mux; growslice doubles a full array into a new one. *)
AppendRecord(p) ==
    /\ Up
    /\ pc[p] = "idle"
    /\ added < MaxRecords
    /\ added' = added + 1
    /\ arrays' = IF Len(batch) < current.cap
                 THEN [arrays EXCEPT ![Len(arrays)].cells = Append(@, added + 1)]
                 ELSE Append(arrays, [cells |-> Append(batch, added + 1),
                                      cap |-> 2 * current.cap])
    /\ Goto(p, "check")
    /\ calm' = (calm /\ Quiet /\ pc[Closer] = "idle")
    /\ UNCHANGED <<header, stores, storeMux, initDone, tableOK, rows, crashed>>

Full_OffByOne == Len(batch) > BatchSize

Full == Len(batch) >= BatchSize

(* len(s.batch) >= s.batchSize, without mux. *)
CheckFull(p) ==
    /\ Up
    /\ pc[p] = "check"
    /\ Goto(p, IF Full THEN "load" ELSE "idle")
    /\ UNCHANGED <<arrays, added, header, stores, storeMux, initDone, tableOK, rows, crashed, calm>>

LoadArray(p) ==
    /\ Up
    /\ pc[p] = "load" /\ header[p].arr = 0
    /\ header' = [header EXCEPT ![p].arr = Len(arrays)]
    /\ UNCHANGED <<arrays, added, pc, stores, storeMux, initDone, tableOK, rows, crashed, calm>>

LoadLen(p) ==
    /\ Up
    /\ pc[p] = "load" /\ header[p].len = -1
    /\ header' = [header EXCEPT ![p].len = Len(batch)]
    /\ UNCHANGED <<arrays, added, pc, stores, storeMux, initDone, tableOK, rows, crashed, calm>>

(* Leaves the last record out. *)
Task_Short(p) == [arr |-> header[p].arr, len |-> header[p].len - 1, by |-> p, st |-> "waiting"]

Task(p) == [arr |-> header[p].arr, len |-> header[p].len, by |-> p, st |-> "waiting"]

(* go store(s.batch) in Add, the call of store in Close. *)
HandOver(p) ==
    /\ Up
    /\ pc[p] = "load" /\ header[p].arr # 0 /\ header[p].len # -1
    /\ stores' = Append(stores, Task(p))
    /\ header' = [header EXCEPT ![p] = NoHeader]
    /\ Goto(p, IF p = Closer THEN "closing" ELSE "reset")
    /\ UNCHANGED <<arrays, added, storeMux, initDone, tableOK, rows, crashed, calm>>

FreshBatch_Kept == UNCHANGED arrays

FreshBatch == arrays' = Append(arrays, NewArray)

ResetBatch(p) ==
    /\ Up
    /\ p \in Adders /\ pc[p] = "reset"
    /\ FreshBatch
    /\ Goto(p, "idle")
    /\ UNCHANGED <<added, header, stores, storeMux, initDone, tableOK, rows, crashed, calm>>

-----------------------------------------------------------------------------
(* Close: store(s.batch) in the caller's goroutine, then the reset. *)

Over == {"leaked", "failed", "committed"}
Pending == {i \in DOMAIN stores : stores[i].st \notin Over}

Close ==
    /\ Up
    /\ pc[Closer] = "idle"
    /\ Goto(Closer, "load")
    /\ calm' = (calm /\ Quiet /\ Pending = {})
    /\ UNCHANGED <<arrays, added, header, stores, storeMux, initDone, tableOK, rows, crashed>>

CloseReturns ==
    /\ Up
    /\ pc[Closer] = "closing"
    /\ \E i \in DOMAIN stores : stores[i].by = Closer /\ stores[i].st \in Over
    /\ FreshBatch
    /\ Goto(Closer, "closed")
    /\ UNCHANGED <<added, header, stores, storeMux, initDone, tableOK, rows, crashed, calm>>

-----------------------------------------------------------------------------
(* store, run by store goroutine i *)

Becomes(i, st) == stores' = [stores EXCEPT ![i].st = st]

StoreMuxFree_Ignored == TRUE

StoreMuxFree == storeMux = 0

(* storeMux.Lock(), and the early return of an empty slice, which keeps    *)
(* the mutex: the deferred Unlock is only registered after it.             *)
StoreLock(i) ==
    /\ Up
    /\ stores[i].st = "waiting"
    /\ StoreMuxFree
    /\ storeMux' = i
    /\ Becomes(i, IF stores[i].len = 0 THEN "leaked" ELSE "locked")
    /\ UNCHANGED <<arrays, added, pc, header, initDone, tableOK, rows, crashed, calm>>

Unlock_OnlyOnCommit(st) == storeMux' = IF st = "committed" THEN 0 ELSE storeMux

(* The deferred Unlock. *)
Unlock(st) == storeMux' = 0

Finish(i, st) == Becomes(i, st) /\ Unlock(st)

(* db.Get fails. *)
StoreNoDB(i) ==
    /\ Up
    /\ stores[i].st = "locked"
    /\ ~Reliable
    /\ Finish(i, "failed")
    /\ UNCHANGED <<arrays, added, pc, header, initDone, tableOK, rows, crashed, calm>>

(* What CREATE TABLE IF NOT EXISTS leaves: INSERT names proxy_stat, or     *)
(* proxy_stat_all when replicated, which makeTable creates when sharded.   *)
Created == tableOK \/ (Replicated => Sharded)

(* init.Do(makeTable): tried once in the life of the process, and only the *)
(* store that tried it sees its error.  The table may be there for all     *)
(* that: of an earlier run, or because the call failed after it.           *)
StoreInit(i) ==
    /\ Up
    /\ stores[i].st = "locked"
    /\ \/ /\ initDone
          /\ Becomes(i, "inserting")
          /\ UNCHANGED <<storeMux, initDone, tableOK>>
       \/ /\ ~initDone
          /\ initDone' = TRUE
          /\ \/ /\ tableOK' = Created
                /\ Becomes(i, "inserting")
                /\ UNCHANGED storeMux
             \/ /\ ~Reliable
                /\ tableOK' \in {tableOK, Created}
                /\ Finish(i, "failed")
    /\ UNCHANGED <<arrays, added, pc, header, rows, crashed, calm>>

Cells(i) == arrays[stores[i].arr].cells

(* ping, begin, prepare, one exec per record, commit: all or nothing. An   *)
(* element of the slice that nobody wrote is a nil *StatRecord, and        *)
(* reading its fields panics.                                              *)
StoreCommit(i) ==
    /\ Up
    /\ stores[i].st = "inserting"
    /\ tableOK
    /\ \/ /\ stores[i].len <= Len(Cells(i))
          /\ rows' = rows \o SubSeq(Cells(i), 1, stores[i].len)
          /\ Finish(i, "committed")
          /\ UNCHANGED crashed
       \/ /\ stores[i].len > Len(Cells(i))
          /\ crashed' = TRUE
          /\ UNCHANGED <<rows, stores, storeMux>>
    /\ UNCHANGED <<arrays, added, pc, header, initDone, tableOK, calm>>

(* One of these calls fails: the batch is dropped with a warning. *)
StoreError(i) ==
    /\ Up
    /\ stores[i].st = "inserting"
    /\ ~Reliable \/ ~tableOK
    /\ Finish(i, "failed")
    /\ UNCHANGED <<arrays, added, pc, header, initDone, tableOK, rows, crashed, calm>>

-----------------------------------------------------------------------------

AddStep(p) ==
    \/ AppendRecord(p) \/ CheckFull(p)
    \/ LoadArray(p) \/ LoadLen(p) \/ HandOver(p) \/ ResetBatch(p)

CloseStep ==
    Close \/ LoadArray(Closer) \/ LoadLen(Closer) \/ HandOver(Closer) \/ CloseReturns

StoreStep(i) ==
    StoreLock(i) \/ StoreNoDB(i) \/ StoreInit(i) \/ StoreCommit(i) \/ StoreError(i)

Next ==
    \/ \E p \in Adders : AddStep(p)
    \/ CloseStep
    \/ \E i \in DOMAIN stores : StoreStep(i)

(* A goroutine that can run eventually does; nothing forces a request to   *)
(* come (AppendRecord) or the process to shut down (Close).  At most one   *)
(* store goroutine is started per record and one by Close.                 *)
MaxStores == MaxRecords + 1

Fairness ==
    /\ \A i \in 1..MaxStores : WF_vars(i \in DOMAIN stores /\ StoreStep(i))
    /\ \A p \in Adders :
          WF_vars(CheckFull(p) \/ LoadArray(p) \/ LoadLen(p) \/ HandOver(p) \/ ResetBatch(p))

Spec == Init /\ [][Next]_vars /\ Fairness

-----------------------------------------------------------------------------
(* Properties *)

(* Types, and the lock: storeMux is held by the one store that is inside   *)
(* the database section, or by one that returned without unlocking.        *)
TypeOK ==
    /\ \A n \in DOMAIN arrays : /\ arrays[n].cells \in Seq(1..added)
                                /\ Len(arrays[n].cells) <= arrays[n].cap
    /\ added \in 0..MaxRecords
    /\ pc \in [Procs -> {"idle", "check", "load", "reset", "closing", "closed"}]
    /\ header \in [Procs -> [arr : 0..Len(arrays), len : -1..MaxRecords]]
    /\ \A i \in DOMAIN stores :
          stores[i] \in [arr : 1..Len(arrays), len : 0..MaxRecords, by : Procs,
                         st : {"waiting", "locked", "inserting"} \cup Over]
    /\ \A i \in DOMAIN stores :
          stores[i].st \in {"locked", "inserting", "leaked"} <=> storeMux = i
    /\ storeMux \in 0..Len(stores)
    /\ rows \in Seq(1..added)
    /\ {initDone, tableOK, crashed, calm} \subseteq BOOLEAN

(* Adders between their append and the end of their Add. *)
Busy == {p \in Adders : pc[p] # "idle"}

(* However the adders race, the batch exceeds the size at which it is      *)
(* handed over only by what requests in the middle of Add put there.  (It  *)
(* says nothing of batches already handed over: each store that waits      *)
(* keeps its own, and nothing bounds how many wait.)                       *)
BatchBound == Len(batch) <= BatchSize - 1 + Cardinality(Busy)

(* No record is inserted twice, as long as calls of Add do not overlap. *)
NoDuplicateRows == calm => IsInjective(rows)

Dropped == UNION {ToSet(SubSeq(Cells(i), 1, stores[i].len)) :
                     i \in {j \in DOMAIN stores : stores[j].st = "failed"}}

(* As long as calls do not overlap, every record added is in the table, in *)
(* the batch, in a store under way, or in a batch for which store returned *)
(* an error (which Add's goroutine logs and Close discards); and nothing   *)
(* is left anywhere but in the table or such a batch once Close returned.  *)
NothingLost ==
    (calm /\ Quiet /\ ~crashed /\ (Pending = {} \/ pc[Closer] = "closed")) =>
        1..added = ToSet(rows) \cup Dropped
                     \cup (IF pc[Closer] = "closed" THEN {} ELSE ToSet(batch))

(* A batch that was handed to store is stored or reported as failed, and   *)
(* does not wait for ever (unless the process ends).                       *)
StoreResolved ==
    \A i \in 1..MaxStores : (i \in Pending) ~> (i \notin Pending \/ ~Up)

(* As long as calls of Add do not overlap, the stores catch up: one that   *)
(* fails, at any of its calls to the database, never blocks the others.    *)
StoresCatchUp == (Pending # {}) ~> (Pending = {} \/ ~Up \/ ~calm)
=============================================================================
