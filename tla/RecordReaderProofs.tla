------------------------- MODULE RecordReaderProofs -------------------------
(***************************************************************************)
(* Proofs about the concurrent record reader, for every number of workers, *)
(* rows, every batch size and every prefetch limit.                        *)
(***************************************************************************)
EXTENDS RecordReader, FiniteSetTheorems, TLAPS

\* A task asks for at least one row and never for one past the end.
LEMMA CountAtRange ==
  ASSUME NEW s \in Positions
  PROVE  /\ CountAt(s) \in 1 .. BatchSize
         /\ s + CountAt(s) \in 1 .. TotalRecords
BY ReaderAssumption DEF Positions, CountAt

-----------------------------------------------------------------------------
(* The type invariant, with what it rests on: a task asks for the whole    *)
(* batch at its start; a worker holds a task exactly while it downloads;   *)
(* no worker exists before the constructor's refill is over; and Next()    *)
(* looks for a batch only before the end of the result.                    *)

TaskInv ==
  /\ \A i \in DOMAIN taskQueue : taskQueue[i].count = CountAt(taskQueue[i].start)
  /\ \A w \in Workers :
       IF wpc[w] = "download"
       THEN held[w] \in Task /\ held[w].count = CountAt(held[w].start)
       ELSE held[w] = NoTask

StartInv ==
  \/ opc \in {"schedule", "refill", "start"} /\ \A w \in Workers : wpc[w] = "unborn"
  \/ opc # "start" /\ WorkersCreated

LookupInv ==
  opc \in {"lookup", "committed", "waiting"} => totalRead < TotalRecords /\ BatchConsumed

TypeInv == TypeOK /\ TaskInv /\ StartInv /\ LookupInv

LEMMA TypeInit == Init => TypeInv
<1> SUFFICES ASSUME Init PROVE TypeInv
  OBVIOUS
<1>1. TypeOK
  <2>1. taskQueue \in Seq(Task) /\ delivered \in Seq(Nat)
    BY DEF Init
  <2>2. batch \in Batch /\ batchIndex \in 0 .. batch.len
    BY ReaderAssumption DEF Init, Batch
  <2>3. maxPrefetched \in 0 .. TotalRecords /\ totalRead \in Nat
    BY ReaderAssumption DEF Init
  <2>4. cache \in [Positions -> Batch \cup {Absent, Failed}]
    BY DEF Init
  <2>5. held \in [Workers -> Task \cup {NoTask}] /\ wpc \in [Workers -> WorkerPoints]
    BY DEF Init, WorkerPoints
  <2>6. opc \in OwnerPoints
    BY DEF Init, OwnerPoints
  <2> QED
    BY <2>1, <2>2, <2>3, <2>4, <2>5, <2>6 DEF Init, TypeOK
<1>2. TaskInv /\ StartInv /\ LookupInv
  BY DEF Init, TaskInv, StartInv, LookupInv
<1> QED
  BY <1>1, <1>2 DEF TypeInv

LEMMA TypeStep == TypeInv /\ [Next]_vars => TypeInv'
<1> SUFFICES ASSUME TypeInv, [Next]_vars PROVE TypeInv'
  OBVIOUS
<1> USE ReaderAssumption DEF TypeInv, TypeOK, TaskInv, StartInv, LookupInv,
                             WorkersCreated, BatchConsumed, ownerVars, sharedVars
<1>1. CASE BeginSchedule
  BY <1>1 DEF BeginSchedule, OwnerPoints
<1>2. CASE PushTask
  <2> DEFINE task == [start |-> maxPrefetched, count |-> CountAt(maxPrefetched)]
  <2>a. maxPrefetched \in Positions
    BY <1>2 DEF PushTask, MoreToSchedule, Positions
  <2>b. CountAt(maxPrefetched) \in 1 .. BatchSize
        /\ maxPrefetched + CountAt(maxPrefetched) \in 1 .. TotalRecords
    BY <2>a, CountAtRange
  <2>1. task \in Task /\ maxPrefetched' \in 0 .. TotalRecords
    BY <1>2, <2>a, <2>b DEF PushTask, Task
  <2>2. taskQueue' = Append(taskQueue, task) /\ task.count = CountAt(task.start)
    BY <1>2 DEF PushTask
  <2> HIDE DEF task
  <2>3. taskQueue' \in Seq(Task)
        /\ \A i \in DOMAIN taskQueue' : taskQueue'[i].count = CountAt(taskQueue'[i].start)
    BY <2>1, <2>2
  <2> QED
    BY <1>2, <2>1, <2>3 DEF PushTask
<1>3. CASE EndSchedule
  BY <1>3 DEF EndSchedule, NotifyTaskCV, OwnerPoints, WorkerPoints
<1>4. CASE StartWorkers
  BY <1>4 DEF StartWorkers, OwnerPoints, WorkerPoints
<1>5. CASE NextBuffered \/ NextAtEnd \/ NextNeedsBatch
  <2>1. CASE NextBuffered
    BY <2>1 DEF NextBuffered, OwnerPoints
  <2>2. CASE NextAtEnd
    BY <2>2 DEF NextAtEnd, OwnerPoints
  <2>3. CASE NextNeedsBatch
    BY <2>3 DEF NextNeedsBatch, AllRead, OwnerPoints
  <2> QED
    BY <1>5, <2>1, <2>2, <2>3
<1>6. CASE TakeBatch
  <2>1. totalRead \in Positions
    BY <1>6 DEF TakeBatch, Positions
  <2>2. batch' \in Batch /\ batchIndex' \in 0 .. batch'.len
    BY <1>6, <2>1 DEF TakeBatch, nextBatchStartPos, Batch
  <2>3. cache' \in [Positions -> Batch \cup {Absent, Failed}]
    BY <1>6 DEF TakeBatch, EraseEntry
  <2> QED
    BY <1>6, <2>2, <2>3 DEF TakeBatch, OwnerPoints
<1>7. CASE TakeFailure
  BY <1>7 DEF TakeFailure, EraseEntry, nextBatchStartPos, OwnerPoints
<1>8. CASE MissBatch \/ WaitForBatch
  BY <1>8 DEF MissBatch, WaitForBatch, OwnerPoints
<1>9. CASE ServeRow
  BY <1>9 DEF ServeRow, Batch, OwnerPoints
<1>10. CASE ServeNothing
  BY <1>10 DEF ServeNothing, OwnerPoints
<1>11. CASE NotifyShutdown
  BY <1>11 DEF NotifyShutdown, NotifyTaskCV, OwnerPoints, WorkerPoints
<1>12. CASE FinishClose
  BY <1>12 DEF FinishClose, OwnerPoints
<1>13. CASE BeginNext \/ BeginClose
  BY <1>13 DEF BeginNext, BeginClose, OwnerPoints
<1>14. ASSUME NEW w \in Workers, LoopTest(w) \/ LeaveLoop(w) \/ FindNoTask(w) \/ Sleep(w)
       PROVE  TypeInv'
  BY <1>14 DEF LoopTest, LeaveLoop, FindNoTask, Sleep, WorkerAt, WorkerPoints
<1>15. ASSUME NEW w \in Workers, TakeTask(w)
       PROVE  TypeInv'
  BY <1>15 DEF TakeTask, TaskOrShutdown, WorkerAt, WorkerPoints
<1>16. ASSUME NEW w \in Workers, StoreResult(w)
       PROVE  TypeInv'
  <2>1. cache' \in [Positions -> Batch \cup {Absent, Failed}]
    BY <1>16 DEF StoreResult, Outcomes, WorkerAt, Task, Batch, Positions
  <2> QED
    BY <1>16, <2>1 DEF StoreResult, WorkerAt, WorkerPoints
<1>17. ASSUME NEW w \in Workers, NotifyConsumer(w)
       PROVE  TypeInv'
  BY <1>17 DEF NotifyConsumer, WorkerAt, WorkerPoints, OwnerPoints
<1>18. CASE SpuriousWakeup
  <2>1. CASE opc = "waiting" /\ opc' = "lookup" /\ UNCHANGED <<ownerVars, sharedVars, wpc, held>>
    BY <2>1 DEF OwnerPoints
  <2>2. ASSUME NEW w \in Workers, WorkerAt(w, "asleep", "acquire"),
               UNCHANGED <<ownerVars, sharedVars, opc, held>>
        PROVE  TypeInv'
    BY <2>2 DEF WorkerAt, WorkerPoints
  <2> QED
    BY <1>18, <2>1, <2>2 DEF SpuriousWakeup
<1>19. CASE Gone \/ UNCHANGED vars
  BY <1>19 DEF Gone, vars
<1> QED
  BY <1>1, <1>2, <1>3, <1>4, <1>5, <1>6, <1>7, <1>8, <1>9, <1>10, <1>11, <1>12, <1>13,
     <1>14, <1>15, <1>16, <1>17, <1>18, <1>19 DEF Next, OwnerStep, WorkerStep

\* The reader's variables keep their types (RecordReader, TypeOK).
THEOREM Typing == Spec => []TypeOK
<1>1. Spec => []TypeInv
  BY TypeInit, TypeStep, PTL DEF Spec
<1>2. TypeInv => TypeOK
  BY DEF TypeInv
<1> QED
  BY <1>1, <1>2, PTL

-----------------------------------------------------------------------------
(* The rows.  What is cached under a position are the rows from that       *)
(* position on, the current batch has been read up to the position         *)
(* mTotalRecordsRead, and so the next row is the one after the last.       *)

CacheHoldsItsRows ==
  \A s \in Positions : cache[s] \notin {Absent, Failed} =>
    /\ cache[s].from = s
    /\ cache[s].len <= CountAt(s)
    /\ ~MayTruncate => cache[s].len = CountAt(s)

ReadPosition ==
  /\ batch.from + batchIndex = totalRead
  /\ NextKey <= TotalRecords

RowsInv == CacheHoldsItsRows /\ ReadPosition /\ InOrder /\ CompleteAtEnd

LEMMA RowsInit == Init => RowsInv
BY ReaderAssumption
   DEF Init, RowsInv, CacheHoldsItsRows, ReadPosition, NextKey, InOrder, CompleteAtEnd

LEMMA RowsStep == TypeInv /\ RowsInv /\ [Next]_vars => RowsInv'
<1> SUFFICES ASSUME TypeInv, RowsInv, [Next]_vars PROVE RowsInv'
  OBVIOUS
<1> USE ReaderAssumption DEF RowsInv
<1>1. ASSUME UNCHANGED <<batch, batchIndex, totalRead, delivered, cache,
                         endOfStream, failed>>
      PROVE  RowsInv'
  BY <1>1 DEF CacheHoldsItsRows, ReadPosition, NextKey, InOrder, CompleteAtEnd
<1>2. CASE NextAtEnd
  <2>1. totalRead = TotalRecords
    BY <1>2 DEF NextAtEnd, AllRead, TypeInv, TypeOK, Batch, ReadPosition, NextKey
  <2> QED
    BY <1>2, <2>1 DEF NextAtEnd, CacheHoldsItsRows, ReadPosition, NextKey, InOrder,
                      CompleteAtEnd, sharedVars
<1>3. CASE TakeBatch
  <2>1. totalRead \in Positions
    BY <1>3 DEF TakeBatch, TypeInv, TypeOK, LookupInv, Positions
  <2>2. batch'.from = totalRead /\ batch'.len \in Nat /\ batch'.len <= CountAt(totalRead)
    BY <1>3, <2>1 DEF TakeBatch, nextBatchStartPos, CacheHoldsItsRows, TypeInv, TypeOK, Batch
  <2>a. CountAt(totalRead) \in 1 .. BatchSize /\ totalRead + CountAt(totalRead) \in 1 .. TotalRecords
    BY <2>1, CountAtRange
  <2>b. totalRead' = totalRead /\ batchIndex' = 0 /\ totalRead \in Nat
    BY <1>3 DEF TakeBatch, TypeInv, TypeOK
  <2>3. ReadPosition'
    BY <2>a, <2>b, <2>2 DEF ReadPosition, NextKey
  <2>4. CacheHoldsItsRows'
    BY <1>3 DEF TakeBatch, EraseEntry, CacheHoldsItsRows, TypeInv, TypeOK
  <2> QED
    BY <1>3, <2>3, <2>4 DEF TakeBatch, InOrder, CompleteAtEnd
<1>4. CASE TakeFailure
  <2>1. CacheHoldsItsRows'
    BY <1>4 DEF TakeFailure, EraseEntry, CacheHoldsItsRows, TypeInv, TypeOK
  <2> QED
    BY <1>4, <2>1 DEF TakeFailure, ReadPosition, NextKey, InOrder, CompleteAtEnd
<1>5. CASE ServeRow
  <2>1. ReadPosition' /\ totalRead < TotalRecords
    BY <1>5 DEF ServeRow, BatchConsumed, ReadPosition, NextKey, TypeInv, TypeOK, Batch
  <2>2. delivered' = Append(delivered, totalRead)
    BY <1>5 DEF ServeRow, ReadPosition
  <2>3. InOrder'
    BY <1>5, <2>2 DEF ServeRow, InOrder, TypeInv, TypeOK
  <2>4. CompleteAtEnd'
    BY <1>5, <2>1 DEF ServeRow, CompleteAtEnd, TypeInv, TypeOK
  <2> QED
    BY <1>5, <2>1, <2>3, <2>4 DEF ServeRow, sharedVars, CacheHoldsItsRows
<1>6. CASE ServeNothing
  BY <1>6 DEF ServeNothing, sharedVars, CacheHoldsItsRows, ReadPosition, NextKey,
              InOrder, CompleteAtEnd
<1>7. CASE FinishClose
  BY <1>7 DEF FinishClose, ownerVars, CacheHoldsItsRows, ReadPosition, NextKey,
              InOrder, CompleteAtEnd
<1>8. ASSUME NEW w \in Workers, StoreResult(w)
      PROVE  RowsInv'
  <2> DEFINE start == held[w].start
  <2>1. start \in Positions /\ held[w].count = CountAt(start)
    BY <1>8 DEF StoreResult, WorkerAt, TypeInv, TaskInv, Task
  <2>2. PICK result \in Outcomes(held[w]) : cache' = [cache EXCEPT ![start] = result]
    BY <1>8 DEF StoreResult
  <2>3. result # Failed =>
          /\ result.from = start
          /\ result.len <= CountAt(start)
          /\ ~MayTruncate => result.len = CountAt(start)
    BY <2>1, CountAtRange DEF Outcomes
  <2> HIDE DEF start
  <2>4. CacheHoldsItsRows'
    BY <2>1, <2>2, <2>3 DEF CacheHoldsItsRows, TypeInv, TypeOK
  <2> QED
    BY <1>8, <2>4 DEF StoreResult, ownerVars, ReadPosition, NextKey, InOrder, CompleteAtEnd
<1>9. CASE \/ BeginSchedule \/ PushTask \/ EndSchedule \/ StartWorkers
           \/ NextBuffered \/ NextNeedsBatch \/ MissBatch \/ WaitForBatch
           \/ NotifyShutdown \/ BeginNext \/ BeginClose
  BY <1>1, <1>9 DEF BeginSchedule, PushTask, EndSchedule, StartWorkers, NextBuffered,
     NextNeedsBatch, MissBatch, WaitForBatch, NotifyShutdown, BeginNext, BeginClose,
     ownerVars, sharedVars
<1>10. ASSUME NEW w \in Workers,
              LoopTest(w) \/ TakeTask(w) \/ LeaveLoop(w) \/ FindNoTask(w) \/ Sleep(w)
                \/ NotifyConsumer(w)
       PROVE  RowsInv'
  BY <1>1, <1>10 DEF LoopTest, TakeTask, LeaveLoop, FindNoTask, Sleep, NotifyConsumer,
     ownerVars, sharedVars
<1>11. CASE SpuriousWakeup \/ Gone \/ UNCHANGED vars
  BY <1>1, <1>11 DEF SpuriousWakeup, Gone, vars, ownerVars, sharedVars
<1> QED
  BY <1>2, <1>3, <1>4, <1>5, <1>6, <1>7, <1>8, <1>9, <1>10, <1>11
  DEF Next, OwnerStep, WorkerStep

\* fetchNextRow returns the rows of the result in order, each once, whatever
\* order the downloads end in and whatever the server serves (RecordReader,
\* InOrder).
THEOREM RowsInOrder == Spec => []InOrder
<1>1. Spec => [](TypeInv /\ RowsInv)
  BY TypeInit, TypeStep, RowsInit, RowsStep, PTL DEF Spec
<1>2. RowsInv => InOrder
  BY DEF RowsInv
<1> QED
  BY <1>1, <1>2, PTL

\* An end of stream that no error explains comes after the last row
\* (RecordReader, CompleteAtEnd).
THEOREM EndIsComplete == Spec => []CompleteAtEnd
<1>1. Spec => [](TypeInv /\ RowsInv)
  BY TypeInit, TypeStep, RowsInit, RowsStep, PTL DEF Spec
<1>2. RowsInv => CompleteAtEnd
  BY DEF RowsInv
<1> QED
  BY <1>1, <1>2, PTL

-----------------------------------------------------------------------------
(* The places of a batch.  The outstanding batches do not overlap, lie     *)
(* between the next batch to be taken and the next one to be scheduled,    *)
(* and each of them is in one place.                                       *)

Spread ==
  /\ NextKey <= maxPrefetched
  /\ \A s \in Outstanding :
       /\ s \in Positions
       /\ s >= NextKey
       /\ s + CountAt(s) <= maxPrefetched
       /\ \A t \in Outstanding : s < t => s + CountAt(s) <= t

PlacesInv == OnePlace /\ Spread

Downloading == {w \in Workers : wpc[w] = "download"}

LEMMA PlacesInit == Init => PlacesInv
BY ReaderAssumption
   DEF Init, PlacesInv, OnePlace, Spread, Outstanding, Queued, InFlight, Cached, NextKey

\* A step that leaves the queue, the cache, the downloads, the current batch
\* and the schedule alone leaves every batch where it is.
LEMMA PlacesUnchanged ==
  ASSUME UNCHANGED <<taskQueue, cache, held, batch, maxPrefetched>>, UNCHANGED Downloading
  PROVE  /\ UNCHANGED <<Queued, InFlight, Cached, Outstanding, NextKey>>
         /\ PlacesInv => PlacesInv'
<1>1. \A w \in Workers : wpc'[w] = "download" <=> wpc[w] = "download"
  BY DEF Downloading
<1>2. Queued' = Queued /\ Cached' = Cached /\ NextKey' = NextKey
  BY DEF Queued, Cached, NextKey
<1>3. InFlight' = InFlight
  BY <1>1 DEF InFlight
<1>4. Outstanding' = Outstanding
  BY <1>2, <1>3 DEF Outstanding
<1> QED
  BY <1>1, <1>2, <1>3, <1>4 DEF PlacesInv, OnePlace, Spread

\* scheduleMoreTasksIfNeeded adds a batch beyond every other one.
LEMMA PlacesPush ==
  ASSUME TypeInv, PlacesInv, PushTask
  PROVE  /\ PlacesInv'
         /\ Outstanding' = Outstanding \cup {maxPrefetched}
         /\ maxPrefetched \notin Outstanding
<1> DEFINE task == [start |-> maxPrefetched, count |-> CountAt(maxPrefetched)]
<1>1. maxPrefetched \in Positions
  BY ReaderAssumption DEF PushTask, MoreToSchedule, Positions, TypeInv, TypeOK
<1>2. CountAt(maxPrefetched) \in 1 .. BatchSize
  BY <1>1, CountAtRange
<1>3. \A s \in Outstanding : s < maxPrefetched
  <2> SUFFICES ASSUME NEW s \in Outstanding PROVE s < maxPrefetched
    OBVIOUS
  <2>1. s \in Positions /\ s + CountAt(s) <= maxPrefetched
    BY DEF PlacesInv, Spread
  <2>2. CountAt(s) \in 1 .. BatchSize
    BY <2>1, CountAtRange
  <2> QED
    BY <1>1, <2>1, <2>2, ReaderAssumption DEF Positions
<1>4. taskQueue' = Append(taskQueue, task) /\ task.start = maxPrefetched
  BY DEF PushTask
<1> HIDE DEF task
<1>5. taskQueue \in Seq(Task)
  BY DEF TypeInv, TypeOK
<1>6. Queued' = Queued \cup {maxPrefetched}
  BY <1>4, <1>5 DEF Queued
<1>7. InFlight' = InFlight /\ Cached' = Cached /\ NextKey' = NextKey
  BY DEF PushTask, ownerVars, InFlight, Cached, NextKey
<1>8. Outstanding' = Outstanding \cup {maxPrefetched}
  BY <1>6, <1>7 DEF Outstanding
<1>9. maxPrefetched \notin Outstanding
  BY <1>1, <1>3 DEF Positions
<1>10. OnePlace'
  <2>1. \A i, j \in DOMAIN taskQueue' : taskQueue'[i].start = taskQueue'[j].start => i = j
    <3>1. \A i \in DOMAIN taskQueue : taskQueue[i].start # maxPrefetched
      BY <1>9 DEF Outstanding, Queued
    <3> QED
      BY <1>4, <1>5, <3>1 DEF PlacesInv, OnePlace
  <2>2. \A s \in Outstanding' : s >= NextKey'
    BY <1>7, <1>8 DEF PlacesInv, Spread
  <2>3. /\ Queued' \cap InFlight' = {}
        /\ Cached' \cap (Queued' \cup InFlight') = {}
    BY <1>6, <1>7, <1>9 DEF PlacesInv, OnePlace, Outstanding
  <2> QED
    BY <2>1, <2>2, <2>3 DEF PushTask, PlacesInv, OnePlace
<1>11. Spread'
  <2>1. maxPrefetched' = maxPrefetched + CountAt(maxPrefetched)
    BY DEF PushTask
  <2>2. maxPrefetched' > maxPrefetched /\ NextKey <= maxPrefetched /\ NextKey \in Int
    BY <1>1, <1>2, <2>1 DEF PlacesInv, Spread, Positions, NextKey, TypeInv, TypeOK, Batch
  <2> SUFFICES ASSUME NEW s \in Outstanding'
               PROVE  /\ s \in Positions
                      /\ s >= NextKey
                      /\ s + CountAt(s) <= maxPrefetched'
                      /\ \A t \in Outstanding' : s < t => s + CountAt(s) <= t
    BY <1>1, <1>7, <2>1, <2>2 DEF Spread, Positions
  <2>3. CASE s = maxPrefetched
    BY <1>1, <1>3, <1>8, <2>1, <2>2, <2>3 DEF Positions
  <2>4. CASE s \in Outstanding
    <3>1. /\ s \in Positions /\ s >= NextKey /\ s + CountAt(s) <= maxPrefetched
          /\ \A t \in Outstanding : s < t => s + CountAt(s) <= t
      BY <2>4 DEF PlacesInv, Spread
    <3>2. CountAt(s) \in 1 .. BatchSize
      BY <3>1, CountAtRange
    <3> QED
      BY <1>1, <1>8, <2>1, <2>2, <3>1, <3>2 DEF Positions
  <2> QED
    BY <1>8, <2>3, <2>4
<1> QED
  BY <1>8, <1>9, <1>10, <1>11 DEF PlacesInv

\* A worker that takes a task moves its batch from the queue to the downloads.
LEMMA PlacesTake ==
  ASSUME TypeInv, PlacesInv, NEW w \in Workers, TakeTask(w)
  PROVE  /\ PlacesInv'
         /\ UNCHANGED <<Outstanding, NextKey, maxPrefetched>>
<1> DEFINE head == taskQueue[1].start
<1>1. /\ taskQueue \in Seq(Task) /\ taskQueue # <<>>
      /\ wpc \in [Workers -> WorkerPoints] /\ held \in [Workers -> Task \cup {NoTask}]
  BY DEF TakeTask, TaskOrShutdown, TypeInv, TypeOK
<1>2. /\ taskQueue' = Tail(taskQueue)
      /\ held' = [held EXCEPT ![w] = taskQueue[1]]
      /\ wpc' = [wpc EXCEPT ![w] = "download"]
      /\ wpc[w] = "acquire"
      /\ UNCHANGED <<cache, batch, maxPrefetched>>
  BY DEF TakeTask, WorkerAt, ownerVars
<1>3. \A i \in DOMAIN taskQueue' :
        i + 1 \in DOMAIN taskQueue /\ taskQueue'[i] = taskQueue[i + 1]
  BY <1>1, <1>2
<1>4. \A i \in DOMAIN taskQueue : i = 1 \/ (i - 1 \in DOMAIN taskQueue' /\ i = (i - 1) + 1)
  BY <1>1, <1>2
<1>5. \A i, j \in DOMAIN taskQueue : taskQueue[i].start = taskQueue[j].start => i = j
  BY DEF PlacesInv, OnePlace
<1>6. head \in Queued /\ Queued' = Queued \ {head}
  <2>1. 1 \in DOMAIN taskQueue
    BY <1>1
  <2>2. Queued' \subseteq Queued \ {head}
    <3> SUFFICES ASSUME NEW i \in DOMAIN taskQueue'
                 PROVE  taskQueue'[i].start \in Queued \ {head}
      BY DEF Queued
    <3>1. i + 1 \in DOMAIN taskQueue /\ taskQueue'[i] = taskQueue[i + 1] /\ i + 1 # 1
      BY <1>1, <1>2, <1>3
    <3> QED
      BY <1>5, <2>1, <3>1 DEF Queued
  <2>3. Queued \ {head} \subseteq Queued'
    <3> SUFFICES ASSUME NEW i \in DOMAIN taskQueue, taskQueue[i].start # head
                 PROVE  taskQueue[i].start \in Queued'
      BY DEF Queued
    <3>1. i # 1
      OBVIOUS
    <3>2. i - 1 \in DOMAIN taskQueue' /\ taskQueue'[i - 1] = taskQueue[i]
      BY <1>1, <1>2, <3>1
    <3> QED
      BY <3>2 DEF Queued
  <2> QED
    BY <2>1, <2>2, <2>3 DEF Queued
<1>7. InFlight' = InFlight \cup {head}
  BY <1>1, <1>2 DEF InFlight
<1>8. Cached' = Cached /\ NextKey' = NextKey
  BY <1>2 DEF Cached, NextKey
<1>9. Outstanding' = Outstanding
  BY <1>6, <1>7, <1>8 DEF Outstanding
<1>10. OnePlace'
  <2>1. \A i, j \in DOMAIN taskQueue' : taskQueue'[i].start = taskQueue'[j].start => i = j
    <3> SUFFICES ASSUME NEW i \in DOMAIN taskQueue', NEW j \in DOMAIN taskQueue',
                        taskQueue'[i].start = taskQueue'[j].start
                 PROVE  i = j
      OBVIOUS
    <3>1. i + 1 = j + 1
      BY <1>3, <1>5
    <3>2. i \in Int /\ j \in Int
      BY <1>1, <1>2
    <3> QED
      BY <3>1, <3>2
  <2>2. head \notin InFlight
    BY <1>6 DEF PlacesInv, OnePlace
  <2>3. \A u, v \in Workers :
          /\ wpc'[u] = "download" /\ wpc'[v] = "download"
          /\ held'[u].start = held'[v].start
          => u = v
    <3>1. \A v \in Workers : v # w /\ wpc'[v] = "download" =>
            held'[v] = held[v] /\ wpc[v] = "download" /\ held[v].start \in InFlight
      BY <1>1, <1>2 DEF InFlight
    <3>2. held'[w].start = head
      BY <1>1, <1>2
    <3> QED
      BY <2>2, <3>1, <3>2 DEF PlacesInv, OnePlace
  <2>4. /\ Queued' \cap InFlight' = {}
        /\ Cached' \cap (Queued' \cup InFlight') = {}
    BY <1>6, <1>7, <1>8 DEF PlacesInv, OnePlace
  <2> QED
    BY <1>8, <1>9, <2>1, <2>3, <2>4 DEF PlacesInv, OnePlace
<1>11. Spread'
  BY <1>2, <1>8, <1>9 DEF PlacesInv, Spread
<1> QED
  BY <1>2, <1>8, <1>9, <1>10, <1>11 DEF PlacesInv

\* A worker that stores its result moves its batch from the downloads to the
\* cache.
LEMMA PlacesStore ==
  ASSUME TypeInv, PlacesInv, NEW w \in Workers, StoreResult(w)
  PROVE  /\ PlacesInv'
         /\ UNCHANGED <<Outstanding, NextKey, maxPrefetched>>
<1> DEFINE start == held[w].start
<1>1. /\ wpc \in [Workers -> WorkerPoints] /\ held \in [Workers -> Task \cup {NoTask}]
      /\ cache \in [Positions -> Batch \cup {Absent, Failed}]
  BY DEF TypeInv, TypeOK
<1>2. /\ wpc[w] = "download"
      /\ wpc' = [wpc EXCEPT ![w] = "notify"]
      /\ held' = [held EXCEPT ![w] = NoTask]
      /\ UNCHANGED <<taskQueue, batch, maxPrefetched>>
  BY DEF StoreResult, WorkerAt, ownerVars
<1>3. start \in Positions /\ held[w].count \in 1 .. BatchSize
  BY <1>2 DEF TypeInv, TaskInv, Task
<1>4. PICK result \in Outcomes(held[w]) : cache' = [cache EXCEPT ![start] = result]
  BY DEF StoreResult
<1>5. result # Absent
  <2>1. held[w].start \in Nat /\ (0 .. held[w].count) \subseteq 0 .. BatchSize
        /\ held[w].count \in 0 .. BatchSize
    BY <1>3, ReaderAssumption DEF Positions
  <2>2. [from : {held[w].start}, len : IF MayTruncate THEN 0 .. held[w].count ELSE {held[w].count}]
          \subseteq Batch
    BY <2>1 DEF Batch
  <2> QED
    BY <2>2, ReaderAssumption DEF Outcomes
<1>6. Cached' = Cached \cup {start}
  BY <1>1, <1>3, <1>4, <1>5 DEF Cached
<1>7. InFlight' = InFlight \ {start} /\ start \in InFlight
  <2>1. \A v \in Workers : v # w /\ wpc[v] = "download" => held[v].start # start
    BY <1>2 DEF PlacesInv, OnePlace
  <2>2. \A v \in Workers :
          wpc'[v] = "download" <=> v # w /\ wpc[v] = "download"
    BY <1>1, <1>2
  <2>3. \A v \in Workers : v # w => held'[v] = held[v]
    BY <1>1, <1>2
  <2> QED
    BY <1>2, <2>1, <2>2, <2>3 DEF InFlight
<1>8. Queued' = Queued /\ NextKey' = NextKey
  BY <1>2 DEF Queued, NextKey
<1> HIDE DEF start
<1>9. Outstanding' = Outstanding
  BY <1>6, <1>7, <1>8 DEF Outstanding
<1>10. OnePlace'
  <2>1. \A v \in Workers : wpc'[v] = "download" => wpc[v] = "download" /\ held'[v] = held[v]
    BY <1>1, <1>2
  <2>2. /\ Queued' \cap InFlight' = {}
        /\ Cached' \cap (Queued' \cup InFlight') = {}
    BY <1>6, <1>7, <1>8 DEF PlacesInv, OnePlace
  <2> QED
    BY <1>2, <1>8, <1>9, <2>1, <2>2 DEF PlacesInv, OnePlace
<1>11. Spread'
  BY <1>2, <1>8, <1>9 DEF PlacesInv, Spread
<1> QED
  BY <1>2, <1>8, <1>9, <1>10, <1>11 DEF PlacesInv

\* Next() looks for the batch after the current one.
LEMMA LookupKey ==
  ASSUME TypeInv, RowsInv, opc \in {"lookup", "committed", "waiting"}
  PROVE  totalRead \in Positions /\ totalRead = NextKey
BY ReaderAssumption DEF TypeInv, TypeOK, LookupInv, BatchConsumed, RowsInv, ReadPosition,
   NextKey, Positions, Batch

\* Next() erases the entry it looked for, and the batches that are left lie
\* beyond it.
LEMMA PlacesErase ==
  ASSUME TypeInv, PlacesInv, cache' = EraseEntry,
         totalRead \in Positions, totalRead = NextKey, cache[totalRead] # Absent,
         UNCHANGED <<taskQueue, held, wpc, maxPrefetched>>,
         NextKey' \in Nat, NextKey' <= totalRead + CountAt(totalRead)
  PROVE  /\ PlacesInv'
         /\ Outstanding' = Outstanding \ {totalRead}
         /\ totalRead \in Outstanding
<1>1. Cached' = Cached \ {totalRead} /\ totalRead \in Cached
  BY DEF EraseEntry, nextBatchStartPos, Cached, TypeInv, TypeOK
<1>2. Queued' = Queued /\ InFlight' = InFlight
  BY DEF Queued, InFlight
<1>3. Outstanding' = Outstanding \ {totalRead} /\ totalRead \in Outstanding
  BY <1>1, <1>2 DEF Outstanding, PlacesInv, OnePlace
<1>4. \A s \in Outstanding' : s >= NextKey'
  <2> SUFFICES ASSUME NEW s \in Outstanding' PROVE s >= NextKey'
    OBVIOUS
  <2>1. s \in Outstanding /\ s \in Positions /\ s # totalRead /\ s >= totalRead
    BY <1>3 DEF PlacesInv, Spread
  <2>2. totalRead + CountAt(totalRead) <= s
    BY <1>3, <2>1 DEF PlacesInv, Spread, Positions
  <2>3. CountAt(totalRead) \in 1 .. BatchSize
    BY CountAtRange
  <2> QED
    BY <2>1, <2>2, <2>3 DEF Positions
<1>5. NextKey' <= maxPrefetched'
  <2>1. totalRead + CountAt(totalRead) <= maxPrefetched
    BY <1>3 DEF PlacesInv, Spread
  <2>2. CountAt(totalRead) \in 1 .. BatchSize /\ maxPrefetched \in Int
    BY CountAtRange DEF TypeInv, TypeOK
  <2> QED
    BY <2>1, <2>2 DEF Positions
<1>6. OnePlace'
  BY <1>1, <1>2, <1>4 DEF PlacesInv, OnePlace
<1>7. Spread'
  BY <1>3, <1>4, <1>5 DEF PlacesInv, Spread
<1> QED
  BY <1>3, <1>6, <1>7 DEF PlacesInv

\* Close() forgets every batch; its workers have none.
LEMMA PlacesClose ==
  ASSUME TypeInv, PlacesInv, FinishClose
  PROVE  PlacesInv' /\ Outstanding' = {}
<1>1. Queued' = {} /\ Cached' = {} /\ NextKey' = NextKey
  BY DEF FinishClose, ownerVars, Queued, Cached, NextKey
<1>2. InFlight' = {} /\ \A w \in Workers : wpc'[w] # "download"
  BY DEF FinishClose, WorkersJoined, InFlight
<1>3. Outstanding' = {}
  BY <1>1, <1>2 DEF Outstanding
<1> QED
  BY <1>1, <1>2, <1>3 DEF FinishClose, PlacesInv, OnePlace, Spread

\* The steps that move no batch.
Elsewhere ==
  \/ BeginSchedule \/ EndSchedule \/ StartWorkers
  \/ NextBuffered \/ NextAtEnd \/ NextNeedsBatch \/ MissBatch \/ WaitForBatch
  \/ ServeRow \/ ServeNothing \/ NotifyShutdown \/ BeginNext \/ BeginClose
  \/ \E w \in Workers : LoopTest(w) \/ LeaveLoop(w) \/ FindNoTask(w) \/ Sleep(w)
                          \/ NotifyConsumer(w)
  \/ SpuriousWakeup \/ Gone \/ UNCHANGED vars

LEMMA PlacesElsewhere ==
  ASSUME TypeInv, Elsewhere
  PROVE  UNCHANGED <<taskQueue, cache, held, batch, maxPrefetched>> /\ UNCHANGED Downloading
<1> USE DEF ownerVars, sharedVars, Downloading
<1>1. wpc \in [Workers -> WorkerPoints]
  BY DEF TypeInv, TypeOK
<1>2. CASE \/ BeginSchedule \/ NextBuffered \/ NextAtEnd \/ NextNeedsBatch \/ MissBatch
           \/ WaitForBatch \/ ServeRow \/ ServeNothing \/ BeginNext \/ BeginClose
           \/ Gone \/ UNCHANGED vars
  BY <1>2 DEF BeginSchedule, NextBuffered, NextAtEnd, NextNeedsBatch, MissBatch,
     WaitForBatch, ServeRow, ServeNothing, BeginNext, BeginClose, Gone, vars
<1>3. CASE EndSchedule \/ NotifyShutdown
  BY <1>1, <1>3 DEF EndSchedule, NotifyShutdown, NotifyTaskCV
<1>4. CASE StartWorkers
  <2>1. \A w \in Workers : wpc[w] = "unborn"
    BY <1>4 DEF StartWorkers, TypeInv, StartInv
  <2> QED
    BY <1>4, <2>1 DEF StartWorkers
<1>5. ASSUME NEW w \in Workers, LoopTest(w) \/ LeaveLoop(w) \/ FindNoTask(w) \/ Sleep(w)
                                  \/ NotifyConsumer(w)
      PROVE  UNCHANGED <<taskQueue, cache, held, batch, maxPrefetched>> /\ UNCHANGED Downloading
  BY <1>1, <1>5 DEF LoopTest, LeaveLoop, FindNoTask, Sleep, NotifyConsumer, WorkerAt
<1>6. CASE SpuriousWakeup
  BY <1>1, <1>6 DEF SpuriousWakeup, WorkerAt
<1> QED
  BY <1>2, <1>3, <1>4, <1>5, <1>6 DEF Elsewhere

\* Every step of the reader is one of these.
LEMMA StepCases ==
  ASSUME [Next]_vars
  PROVE  \/ PushTask \/ TakeBatch \/ TakeFailure \/ FinishClose
         \/ \E w \in Workers : TakeTask(w) \/ StoreResult(w)
         \/ Elsewhere
BY DEF Next, OwnerStep, WorkerStep, Elsewhere

LEMMA PlacesStep == TypeInv /\ RowsInv /\ PlacesInv /\ [Next]_vars => PlacesInv'
<1> SUFFICES ASSUME TypeInv, RowsInv, PlacesInv, [Next]_vars PROVE PlacesInv'
  OBVIOUS
<1>1. CASE PushTask
  BY <1>1, PlacesPush
<1>2. CASE TakeBatch
  <2>1. totalRead \in Positions /\ totalRead = NextKey
    BY <1>2, LookupKey DEF TakeBatch
  <2>2. /\ cache' = EraseEntry /\ cache[totalRead] # Absent
        /\ UNCHANGED <<taskQueue, held, wpc, maxPrefetched>>
        /\ batch' = cache[totalRead] /\ batch' \in Batch
    BY <1>2, <2>1 DEF TakeBatch, nextBatchStartPos, TypeInv, TypeOK
  <2>3. NextKey' \in Nat /\ NextKey' <= totalRead + CountAt(totalRead)
    <3>1. cache[totalRead] \notin {Absent, Failed}
      BY <1>2 DEF TakeBatch, nextBatchStartPos
    <3>2. batch'.from = totalRead /\ batch'.len \in Nat /\ batch'.len <= CountAt(totalRead)
      BY <2>1, <2>2, <3>1 DEF RowsInv, CacheHoldsItsRows, Batch
    <3>3. CountAt(totalRead) \in 1 .. BatchSize
      BY <2>1, CountAtRange
    <3> QED
      BY <2>1, <3>2, <3>3 DEF NextKey, Positions
  <2> QED
    BY <2>1, <2>2, <2>3, PlacesErase
<1>3. CASE TakeFailure
  <2>1. totalRead \in Positions /\ totalRead = NextKey
    BY <1>3, LookupKey DEF TakeFailure
  <2>2. /\ cache' = EraseEntry /\ cache[totalRead] # Absent
        /\ UNCHANGED <<taskQueue, held, wpc, maxPrefetched>> /\ NextKey' = NextKey
    BY <1>3, ReaderAssumption DEF TakeFailure, nextBatchStartPos, NextKey
  <2>3. CountAt(totalRead) \in 1 .. BatchSize
    BY <2>1, CountAtRange
  <2>4. NextKey' \in Nat /\ NextKey' <= totalRead + CountAt(totalRead)
    BY <2>1, <2>2, <2>3 DEF Positions
  <2> QED
    BY <2>1, <2>2, <2>4, PlacesErase
<1>4. CASE FinishClose
  BY <1>4, PlacesClose
<1>5. ASSUME NEW w \in Workers, TakeTask(w) \/ StoreResult(w)
      PROVE  PlacesInv'
  BY <1>5, PlacesTake, PlacesStore
<1>6. CASE Elsewhere
  BY <1>6, PlacesElsewhere, PlacesUnchanged
<1> QED
  BY <1>1, <1>2, <1>3, <1>4, <1>5, <1>6, StepCases

\* A batch is queued, downloaded by one worker or cached, one of the three,
\* and never again after it has been taken (RecordReader, OnePlace).
THEOREM BatchInOnePlace == Spec => []OnePlace
<1>1. Spec => [](TypeInv /\ RowsInv /\ PlacesInv)
  BY TypeInit, TypeStep, RowsInit, RowsStep, PlacesInit, PlacesStep, PTL DEF Spec
<1>2. PlacesInv => OnePlace
  BY DEF PlacesInv
<1> QED
  BY <1>1, <1>2, PTL

-----------------------------------------------------------------------------
(* The state of the stream above the reader: once it has failed it is over *)
(* and no call is under way; an error in the cache comes from a download   *)
(* that may fail; and a batch the server did not cut short has a row to    *)
(* serve when Next() comes to serve it.                                    *)

StreamOpen ==
  /\ failed => endOfStream
  /\ opc \in {"next", "lookup", "committed", "waiting"} => ~failed

FailureAllowed == \A s \in Positions : cache[s] = Failed => MayFail

RowToServe ==
  opc = "serve" \/ (opc \in {"schedule", "refill"} /\ WorkersCreated) =>
    MayTruncate \/ ~BatchConsumed

StreamInv == StreamOpen /\ FailureAllowed /\ RowToServe

LEMMA StreamInit == Init => StreamInv
BY ReaderAssumption
   DEF Init, StreamInv, StreamOpen, FailureAllowed, RowToServe, WorkersCreated

LEMMA StreamStep == TypeInv /\ RowsInv /\ StreamInv /\ [Next]_vars => StreamInv'
<1> SUFFICES ASSUME TypeInv, RowsInv, StreamInv, [Next]_vars PROVE StreamInv'
  OBVIOUS
<1> USE DEF StreamInv, StreamOpen, FailureAllowed, RowToServe, BatchConsumed,
            ownerVars, sharedVars
<1>1. CASE PushTask \/ FinishClose
  BY <1>1, ReaderAssumption DEF PushTask, FinishClose, WorkersCreated
<1>2. CASE TakeBatch
  <2>1. totalRead \in Positions
    BY <1>2, LookupKey DEF TakeBatch
  <2>2. CountAt(totalRead) \in 1 .. BatchSize
    BY <2>1, CountAtRange
  <2>3. ~MayTruncate => batch'.len = CountAt(totalRead) /\ batchIndex' = 0
    BY <1>2, <2>1 DEF TakeBatch, nextBatchStartPos, RowsInv, CacheHoldsItsRows
  <2>4. FailureAllowed'
    BY <1>2, ReaderAssumption DEF TakeBatch, EraseEntry, TypeInv, TypeOK
  <2> QED
    BY <1>2, <2>2, <2>3, <2>4 DEF TakeBatch
<1>3. CASE TakeFailure
  <2>1. FailureAllowed'
    BY <1>3, ReaderAssumption DEF TakeFailure, EraseEntry, TypeInv, TypeOK
  <2> QED
    BY <1>3, <2>1 DEF TakeFailure
<1>4. ASSUME NEW w \in Workers, TakeTask(w) \/ StoreResult(w)
      PROVE  StreamInv'
  <2>1. FailureAllowed'
    <3>1. CASE StoreResult(w)
      <4>1. PICK result \in Outcomes(held[w]) :
              cache' = [cache EXCEPT ![held[w].start] = result]
        BY <3>1 DEF StoreResult
      <4>2. result = Failed => MayFail
        <5>1. /\ held[w].start \in Nat /\ held[w].count \in 1 .. BatchSize
          BY <3>1, ReaderAssumption DEF StoreResult, WorkerAt, TypeInv, TaskInv, Task, Positions
        <5>2. [from : {held[w].start},
               len : IF MayTruncate THEN 0 .. held[w].count ELSE {held[w].count}] \subseteq Batch
          BY <5>1, ReaderAssumption DEF Batch
        <5> QED
          BY <5>2, ReaderAssumption DEF Outcomes
      <4> QED
        BY <4>1, <4>2 DEF TypeInv, TypeOK
    <3> QED
      BY <1>4, <3>1 DEF TakeTask
  <2>2. WorkersCreated
    BY <1>4 DEF TakeTask, StoreResult, WorkerAt, TypeInv, StartInv
  <2> QED
    BY <1>4, <2>1, <2>2 DEF TakeTask, StoreResult
<1>5. CASE Elsewhere
  <2> USE DEF TypeInv, StartInv, WorkersCreated
  <2>1. CASE BeginSchedule \/ NextBuffered \/ NextNeedsBatch \/ MissBatch \/ WaitForBatch
             \/ BeginClose
    BY <2>1 DEF BeginSchedule, NextBuffered, NextNeedsBatch, MissBatch, WaitForBatch, BeginClose
  <2>2. CASE NextAtEnd \/ ServeRow \/ ServeNothing \/ BeginNext
    BY <2>2 DEF NextAtEnd, ServeRow, ServeNothing, BeginNext
  <2>3. CASE EndSchedule \/ NotifyShutdown \/ StartWorkers
    BY <2>3 DEF EndSchedule, NotifyShutdown, StartWorkers, NotifyTaskCV, TypeOK
  <2>4. ASSUME NEW w \in Workers, LoopTest(w) \/ LeaveLoop(w) \/ FindNoTask(w) \/ Sleep(w)
                                    \/ NotifyConsumer(w)
        PROVE  StreamInv'
    BY <2>4 DEF LoopTest, LeaveLoop, FindNoTask, Sleep, NotifyConsumer, WorkerAt, TypeOK
  <2>5. CASE SpuriousWakeup
    BY <2>5 DEF SpuriousWakeup, WorkerAt, TypeOK
  <2>6. CASE Gone \/ UNCHANGED vars
    BY <2>6 DEF Gone, vars
  <2> QED
    BY <1>5, <2>1, <2>2, <2>3, <2>4, <2>5, <2>6 DEF Elsewhere
<1> QED
  BY <1>1, <1>2, <1>3, <1>4, <1>5, StepCases

-----------------------------------------------------------------------------
(* The batch Next() waits for.  The outstanding batches follow one another *)
(* without a gap from the next batch to be taken up to the next one to be  *)
(* scheduled, and after a refill there is one unless everything has been   *)
(* scheduled.  This ends when a batch has been taken that the server cut   *)
(* short: the batches left lie beyond all the rows it was asked for, so    *)
(* that the next key is not one of them, and Next() takes no other.        *)

Unbroken ==
  /\ NextKey = maxPrefetched \/ NextKey \in Outstanding
  /\ \A s \in Outstanding :
       s + CountAt(s) = maxPrefetched \/ s + CountAt(s) \in Outstanding
  /\ opc \notin {"schedule", "refill"} /\ NextKey = maxPrefetched =>
       maxPrefetched = TotalRecords

\* A batch without rows has been taken and is about to be served.
TookEmptyBatch ==
  batch.len = 0 /\ (opc = "serve" \/ (opc \in {"schedule", "refill"} /\ WorkersCreated))

Stopped == failed \/ opc = "closed" \/ TookShortBatch \/ TookEmptyBatch

Beyond ==
  batch.len > 0 =>
    \A s \in Outstanding \cup {maxPrefetched} : s >= batch.from + CountAt(batch.from)

AheadInv == (~Stopped => Unbroken) /\ Beyond

LEMMA AheadInit == Init => AheadInv
<1> SUFFICES ASSUME Init PROVE AheadInv
  OBVIOUS
<1>1. Outstanding = {} /\ NextKey = 0 /\ maxPrefetched = 0 /\ batch.len = 0
  BY DEF Init, Outstanding, Queued, InFlight, Cached, NextKey
<1> QED
  BY <1>1 DEF Init, AheadInv, Unbroken, Beyond

\* A step that moves no batch keeps the chain, when it does not restart the reader.
LEMMA AheadUnchanged ==
  ASSUME AheadInv, UNCHANGED <<Outstanding, NextKey, maxPrefetched, batch>>,
         Stopped => Stopped',
         opc \in {"schedule", "refill"} => opc' \in {"schedule", "refill"}
  PROVE  AheadInv'
BY DEF AheadInv, Unbroken, Beyond

LEMMA AheadTakeBatch ==
  ASSUME TypeInv, RowsInv, PlacesInv, StreamInv, AheadInv, TakeBatch
  PROVE  AheadInv'
<1> DEFINE next == totalRead + CountAt(totalRead)
<1>1. totalRead \in Positions /\ totalRead = NextKey
  BY LookupKey DEF TakeBatch
<1>2. CountAt(totalRead) \in 1 .. BatchSize /\ totalRead \in Nat
  BY <1>1, CountAtRange DEF Positions
<1>3. /\ cache' = EraseEntry /\ cache[totalRead] \notin {Absent, Failed}
      /\ UNCHANGED <<taskQueue, held, wpc, maxPrefetched, endOfStream, failed>>
      /\ opc = "lookup" /\ opc' = "schedule" /\ batch' = cache[totalRead]
  BY DEF TakeBatch, nextBatchStartPos
<1>4. batch'.from = totalRead /\ batch'.len \in 0 .. CountAt(totalRead)
  <2>1. batch' \in Batch
    BY <1>1, <1>3 DEF TypeInv, TypeOK
  <2>2. batch'.from = totalRead /\ batch'.len <= CountAt(totalRead)
    BY <1>1, <1>3 DEF RowsInv, CacheHoldsItsRows
  <2> QED
    BY <1>2, <2>1, <2>2 DEF Batch
<1>5. NextKey' = totalRead + batch'.len
  BY <1>4 DEF NextKey
<1>6. Outstanding' = Outstanding \ {totalRead} /\ totalRead \in Outstanding
  <2>1. NextKey' \in Nat /\ NextKey' <= totalRead + CountAt(totalRead)
    BY <1>2, <1>4, <1>5
  <2>2. cache[totalRead] # Absent
    BY <1>3
  <2> QED
    BY <1>1, <1>3, <2>1, <2>2, PlacesErase
<1>7. \A s \in Outstanding \cup {maxPrefetched} : s # totalRead => s >= next
  BY <1>1, <1>2, <1>6 DEF PlacesInv, Spread, Positions
<1>8. totalRead < maxPrefetched
  BY <1>2, <1>6 DEF PlacesInv, Spread, TypeInv, TypeOK
<1>9. Beyond'
  <2>1. /\ Outstanding' \cup {maxPrefetched'} \subseteq
             (Outstanding \cup {maxPrefetched}) \ {totalRead}
        /\ batch'.from = totalRead
    <3>1. maxPrefetched # totalRead
      BY <1>2, <1>8 DEF TypeInv, TypeOK
    <3> QED
      BY <1>3, <1>4, <1>6, <3>1
  <2> QED
    BY <1>7, <2>1 DEF Beyond
<1>10. CASE batch'.len = 0
  BY <1>3, <1>9, <1>10 DEF AheadInv, Stopped, TookEmptyBatch, WorkersCreated, TypeInv, StartInv
<1>11. CASE batch'.len \in 1 .. CountAt(totalRead) - 1
  BY <1>4, <1>9, <1>11 DEF AheadInv, Stopped, TookShortBatch
<1>12. CASE batch'.len = CountAt(totalRead)
  <2>1. ~TookShortBatch
    <3> SUFFICES ASSUME TookShortBatch PROVE FALSE
      OBVIOUS
    <3>1. batch.from \in Nat /\ batch.len \in Nat /\ batch.len > 0
          /\ batch.len < CountAt(batch.from) /\ CountAt(batch.from) \in Int
      BY ReaderAssumption DEF TookShortBatch, TypeInv, TypeOK, Batch, CountAt
    <3>2. totalRead >= batch.from + CountAt(batch.from)
      BY <1>6, <3>1 DEF AheadInv, Beyond
    <3> QED
      BY <1>1, <3>1, <3>2 DEF NextKey
  <2>2. Unbroken
    BY <1>3, <2>1 DEF AheadInv, Stopped, TookEmptyBatch, StreamInv, StreamOpen
  <2>3. \A s \in Outstanding : s + CountAt(s) # totalRead
    <3> SUFFICES ASSUME NEW s \in Outstanding PROVE s + CountAt(s) # totalRead
      OBVIOUS
    <3>1. s \in Positions /\ s >= totalRead
      BY <1>1 DEF PlacesInv, Spread
    <3>2. CountAt(s) \in 1 .. BatchSize
      BY <3>1, CountAtRange
    <3> QED
      BY <1>1, <3>1, <3>2 DEF Positions
  <2>4. NextKey' = next
    BY <1>5, <1>12
  <2> HIDE DEF next
  <2>5. Unbroken'
    BY <1>1, <1>3, <1>6, <2>2, <2>3, <2>4 DEF Unbroken, next
  <2> QED
    BY <1>9, <2>5 DEF AheadInv
<1> QED
  BY <1>4, <1>10, <1>11, <1>12, <1>2

LEMMA AheadStep ==
  TypeInv /\ RowsInv /\ PlacesInv /\ StreamInv /\ AheadInv /\ [Next]_vars => AheadInv'
<1> SUFFICES ASSUME TypeInv, RowsInv, PlacesInv, StreamInv, AheadInv, [Next]_vars PROVE AheadInv'
  OBVIOUS
<1>1. CASE PushTask
  <2>1. /\ Outstanding' = Outstanding \cup {maxPrefetched}
        /\ maxPrefetched' = maxPrefetched + CountAt(maxPrefetched)
        /\ NextKey' = NextKey /\ opc = "refill"
        /\ UNCHANGED <<opc, failed, batch, wpc>>
    BY <1>1, PlacesPush DEF PushTask, NextKey, ownerVars
  <2>2. Stopped' <=> Stopped
    BY <2>1 DEF Stopped, TookShortBatch, TookEmptyBatch, WorkersCreated
  <2>3. ~Stopped => Unbroken'
    BY <2>1 DEF AheadInv, Unbroken
  <2>4. Beyond'
    <3> SUFFICES ASSUME batch.len > 0
                 PROVE  maxPrefetched' >= batch.from + CountAt(batch.from)
      BY <2>1 DEF AheadInv, Beyond
    <3>1. /\ maxPrefetched \in Nat /\ CountAt(maxPrefetched) \in 1 .. BatchSize
          /\ batch.from \in Nat /\ CountAt(batch.from) \in Int
      BY <1>1, ReaderAssumption, CountAtRange
      DEF PushTask, MoreToSchedule, Positions, TypeInv, TypeOK, Batch, CountAt
    <3>2. maxPrefetched >= batch.from + CountAt(batch.from)
      BY DEF AheadInv, Beyond
    <3> QED
      BY <2>1, <3>1, <3>2
  <2> QED
    BY <2>2, <2>3, <2>4 DEF AheadInv
<1>2. CASE TakeBatch
  BY <1>2, AheadTakeBatch
<1>3. CASE TakeFailure
  <2>1. totalRead \in Positions /\ totalRead = NextKey
    BY <1>3, LookupKey DEF TakeFailure
  <2>2. /\ cache' = EraseEntry /\ cache[totalRead] # Absent /\ failed'
        /\ UNCHANGED <<taskQueue, held, wpc, maxPrefetched, batch>> /\ NextKey' = NextKey
    BY <1>3, ReaderAssumption DEF TakeFailure, nextBatchStartPos, NextKey
  <2>3. CountAt(totalRead) \in 1 .. BatchSize
    BY <2>1, CountAtRange
  <2>4. NextKey' \in Nat /\ NextKey' <= totalRead + CountAt(totalRead)
    BY <2>1, <2>2, <2>3 DEF Positions
  <2>5. Outstanding' = Outstanding \ {totalRead}
    BY <2>1, <2>2, <2>4, PlacesErase
  <2> QED
    BY <2>2, <2>5 DEF AheadInv, Stopped, Beyond
<1>4. CASE FinishClose
  <2>1. opc' = "closed" /\ UNCHANGED <<maxPrefetched, batch>>
    BY <1>4 DEF FinishClose, ownerVars
  <2>2. Outstanding' \subseteq Outstanding
    BY <1>4, PlacesClose
  <2> QED
    BY <2>1, <2>2 DEF AheadInv, Stopped, Beyond
<1>5. ASSUME NEW w \in Workers, TakeTask(w) \/ StoreResult(w)
      PROVE  AheadInv'
  <2>1. UNCHANGED <<Outstanding, NextKey, maxPrefetched>>
    BY <1>5, PlacesTake, PlacesStore
  <2>2. UNCHANGED <<opc, failed, batch>>
    BY <1>5 DEF TakeTask, StoreResult, ownerVars
  <2>3. WorkersCreated'
    BY <1>5 DEF TakeTask, StoreResult, WorkerAt, WorkersCreated, TypeInv, StartInv, TypeOK
  <2> QED
    BY <2>1, <2>2, <2>3, AheadUnchanged DEF Stopped, TookShortBatch, TookEmptyBatch
<1>6. CASE Elsewhere
  <2>1. UNCHANGED <<Outstanding, NextKey, maxPrefetched, taskQueue>>
    BY <1>6, PlacesElsewhere, PlacesUnchanged
  <2>2. CASE EndSchedule
    <3>1. ~failed /\ NextKey = maxPrefetched => maxPrefetched = TotalRecords
      <4> SUFFICES ASSUME ~failed, NextKey = maxPrefetched, maxPrefetched # TotalRecords
                   PROVE  FALSE
        OBVIOUS
      <4>1. Len(taskQueue) >= 1 /\ taskQueue \in Seq(Task)
        BY <2>2, ReaderAssumption DEF EndSchedule, MoreToSchedule, TypeInv, TypeOK
      <4>2. taskQueue[1].start \in Outstanding
        BY <4>1 DEF Outstanding, Queued
      <4>3. /\ taskQueue[1].start \in Positions
            /\ taskQueue[1].start >= NextKey
            /\ taskQueue[1].start + CountAt(taskQueue[1].start) <= maxPrefetched
        BY <4>2 DEF PlacesInv, Spread
      <4>4. CountAt(taskQueue[1].start) \in 1 .. BatchSize
        BY <4>3, CountAtRange
      <4> QED
        BY <4>3, <4>4 DEF Positions, TypeInv, TypeOK
    <3>2. /\ opc = "refill" /\ opc' = IF WorkersCreated THEN "serve" ELSE "start"
          /\ UNCHANGED <<failed, batch>>
      BY <2>2 DEF EndSchedule, ownerVars
    <3>3. Stopped => Stopped'
      BY <3>2 DEF Stopped, TookShortBatch, TookEmptyBatch
    <3> QED
      BY <2>1, <3>1, <3>2, <3>3 DEF AheadInv, Unbroken, Beyond, Stopped
  <2>3. CASE BeginSchedule
    <3>1. opc = "schedule" /\ opc' = "refill" /\ UNCHANGED <<failed, batch, wpc>>
      BY <2>3 DEF BeginSchedule, ownerVars
    <3> QED
      BY <2>1, <3>1, AheadUnchanged
      DEF Stopped, TookShortBatch, TookEmptyBatch, WorkersCreated
  <2>4. CASE ServeRow
    <3>1. opc = "serve" /\ opc' = "idle" /\ UNCHANGED <<failed, batch>> /\ batch.len # 0
      BY <2>4 DEF ServeRow, BatchConsumed, TypeInv, TypeOK, Batch
    <3> QED
      BY <2>1, <3>1, AheadUnchanged DEF Stopped, TookShortBatch, TookEmptyBatch
  <2>5. CASE ServeNothing
    <3>1. opc = "serve" /\ failed' /\ UNCHANGED batch
      BY <2>5 DEF ServeNothing
    <3> QED
      BY <2>1, <3>1, AheadUnchanged DEF Stopped
  <2>6. CASE \/ StartWorkers \/ NextBuffered \/ NextAtEnd \/ NextNeedsBatch \/ MissBatch
             \/ WaitForBatch \/ NotifyShutdown \/ BeginNext \/ BeginClose
    <3>1. /\ opc \notin {"schedule", "refill", "serve", "closed"}
          /\ UNCHANGED <<failed, batch>>
      BY <2>6 DEF StartWorkers, NextBuffered, NextAtEnd, NextNeedsBatch, MissBatch,
         WaitForBatch, NotifyShutdown, BeginNext, BeginClose, ownerVars
    <3> QED
      BY <2>1, <3>1, AheadUnchanged DEF Stopped, TookShortBatch, TookEmptyBatch
  <2>7. ASSUME NEW w \in Workers, LoopTest(w) \/ LeaveLoop(w) \/ FindNoTask(w) \/ Sleep(w)
                                    \/ NotifyConsumer(w)
        PROVE  AheadInv'
    <3>1. /\ UNCHANGED <<failed, batch>>
          /\ opc' = opc \/ (opc = "waiting" /\ opc' = "lookup")
      BY <2>7 DEF LoopTest, LeaveLoop, FindNoTask, Sleep, NotifyConsumer, ownerVars
    <3>2. wpc[w] # "unborn" /\ \E p \in WorkerPoints \ {"unborn"} : wpc' = [wpc EXCEPT ![w] = p]
      BY <2>7 DEF LoopTest, LeaveLoop, FindNoTask, Sleep, NotifyConsumer, WorkerAt, WorkerPoints
    <3>3. WorkersCreated'
      BY <3>2 DEF WorkersCreated, TypeInv, StartInv, TypeOK
    <3> QED
      BY <2>1, <3>1, <3>3, AheadUnchanged DEF Stopped, TookShortBatch, TookEmptyBatch
  <2>8. CASE SpuriousWakeup
    <3>1. /\ UNCHANGED <<failed, batch>>
          /\ opc' = opc \/ (opc = "waiting" /\ opc' = "lookup")
      BY <2>8 DEF SpuriousWakeup, ownerVars
    <3>2. WorkersCreated => WorkersCreated'
      BY <2>8 DEF SpuriousWakeup, WorkerAt, WorkersCreated, TypeInv, TypeOK
    <3> QED
      BY <2>1, <3>1, <3>2, AheadUnchanged DEF Stopped, TookShortBatch, TookEmptyBatch
  <2>9. CASE Gone \/ UNCHANGED vars
    <3>1. UNCHANGED <<opc, failed, batch, wpc>>
      BY <2>9 DEF Gone, vars, ownerVars
    <3> QED
      BY <2>1, <3>1, AheadUnchanged
      DEF Stopped, TookShortBatch, TookEmptyBatch, WorkersCreated
  <2> QED
    BY <1>6, <2>2, <2>3, <2>4, <2>5, <2>6, <2>7, <2>8, <2>9 DEF Elsewhere
<1> QED
  BY <1>1, <1>2, <1>3, <1>4, <1>5, <1>6, StepCases

\* The batch Next() waits for has been scheduled and is on its way, until a short
\* batch has been taken (RecordReader, AwaitedBatchScheduled).
THEOREM AwaitedBatchOnItsWay == Spec => []AwaitedBatchScheduled
<1>1. Spec => [](TypeInv /\ RowsInv /\ PlacesInv /\ StreamInv /\ AheadInv)
  BY TypeInit, TypeStep, RowsInit, RowsStep, PlacesInit, PlacesStep, StreamInit, StreamStep,
     AheadInit, AheadStep, PTL DEF Spec
<1>2. TypeInv /\ RowsInv /\ PlacesInv /\ StreamInv /\ AheadInv => AwaitedBatchScheduled
  <2> SUFFICES ASSUME TypeInv, RowsInv, StreamInv, AheadInv, ~TookShortBatch,
                      opc \in {"lookup", "committed", "waiting"}
               PROVE  totalRead \in Outstanding
    BY DEF AwaitedBatchScheduled
  <2>1. totalRead = NextKey /\ totalRead < TotalRecords
    BY LookupKey DEF TypeInv, LookupInv
  <2>2. Unbroken
    BY DEF AheadInv, Stopped, TookEmptyBatch, StreamInv, StreamOpen
  <2> QED
    BY <2>1, <2>2 DEF Unbroken, TypeInv, TypeOK
<1> QED
  BY <1>1, <1>2, PTL

-----------------------------------------------------------------------------
(* How far the reader runs ahead.  PrefetchLimit, "the maximum number of   *)
(* pending prefetch batches" (tunnel.h), bounds only the queue             *)
(* (tunnel.cpp, scheduleMoreTasksIfNeeded): the batches queued, in flight  *)
(* or cached, with the room a refill still has to fill, grow by            *)
(* PrefetchLimit - 1 with each batch taken.  A batch starts at a multiple  *)
(* of BatchSize, so that taking one with a row moves the count of batches  *)
(* below the next key by one.                                              *)

\* The batches taken so far; one without rows leaves the next key where it was.
BatchesTaken ==
  (NextKey + BatchSize - 1) \div BatchSize
    + (IF batch.len = 0 /\ WorkersCreated THEN 1 ELSE 0)

Aligned(p) == \E k \in Nat : p = k * BatchSize

AlignedInv ==
  /\ Aligned(maxPrefetched) \/ maxPrefetched = TotalRecords
  /\ \A s \in Outstanding : Aligned(s)

\* What the refill that is due, or under way, may still add.
Room ==
  IF opc = "schedule" THEN PrefetchLimit
  ELSE IF opc = "refill" THEN PrefetchLimit - Len(taskQueue)
  ELSE 0

BatchesBelow(key) == (key + BatchSize - 1) \div BatchSize

\* BatchesTaken, without counting the batch the reader is constructed with.
Taken ==
  BatchesBelow(NextKey)
    + (IF batch.len = 0 /\ WorkersCreated /\ (TookEmptyBatch \/ failed) THEN 1 ELSE 0)

RoomInv ==
  /\ Len(taskQueue) <= PrefetchLimit
  /\ Cardinality(Outstanding) + Room <= PrefetchLimit + Taken * (PrefetchLimit - 1)

LEMMA CeilingOfProduct ==
  ASSUME NEW k \in Nat, NEW n \in Nat, NEW b \in Nat \ {0}
  PROVE  /\ (k * b + b - 1) \div b = k
         /\ n \in 1 .. b => (k * b + n + b - 1) \div b = k + 1
<1>1. (k * b + b - 1) \div b = k
  <2>1. \A r \in Nat : r < b => (k * b + r) \div b = k
    OBVIOUS
  <2> QED
    BY <2>1
<1>2. ASSUME n \in 1 .. b
      PROVE  (k * b + n + b - 1) \div b = k + 1
  <2>1. k * b + n + b - 1 = (k + 1) * b + (n - 1)
    OBVIOUS
  <2>2. \A r \in Nat : r < b => ((k + 1) * b + r) \div b = k + 1
    OBVIOUS
  <2> QED
    BY <1>2, <2>1, <2>2
<1> QED
  BY <1>1, <1>2

\* The counts the bound is made of are numbers.
LEMMA AheadNumbers ==
  ASSUME TypeInv, PlacesInv
  PROVE  /\ IsFiniteSet(Outstanding) /\ Cardinality(Outstanding) \in Nat
         /\ NextKey \in Nat /\ BatchesBelow(NextKey) \in Nat /\ Taken \in Nat
<1>1. IsFiniteSet(Outstanding)
  <2>1. TotalRecords - 1 \in Int /\ IsFiniteSet(0 .. (TotalRecords - 1))
    BY ReaderAssumption, FS_Interval
  <2>2. Outstanding \subseteq 0 .. (TotalRecords - 1)
    BY DEF PlacesInv, Spread, Positions
  <2> QED
    BY <2>1, <2>2, FS_Subset
<1>2. NextKey \in Nat
  BY ReaderAssumption DEF TypeInv, TypeOK, Batch, NextKey
<1>3. BatchesBelow(NextKey) \in Nat
  <2> DEFINE n == NextKey + BatchSize - 1
  <2>1. n \in Nat /\ BatchSize \in Nat \ {0}
    BY <1>2, ReaderAssumption
  <2>2. n \div BatchSize \in Nat
    BY <2>1
  <2> QED
    BY <2>2 DEF BatchesBelow
<1> QED
  BY <1>1, <1>2, <1>3, FS_CardinalityType DEF Taken

LEMMA AlignedInit == Init => AlignedInv
<1> SUFFICES ASSUME Init PROVE AlignedInv
  OBVIOUS
<1>1. Outstanding = {} /\ maxPrefetched = 0
  BY DEF Init, Outstanding, Queued, InFlight, Cached
<1>2. 0 = 0 * BatchSize
  BY ReaderAssumption
<1> QED
  BY <1>1, <1>2 DEF AlignedInv, Aligned

\* Next() takes the batch at the next key out of the outstanding ones.
LEMMA OutstandingTaken ==
  ASSUME TypeInv, RowsInv, PlacesInv, TakeBatch \/ TakeFailure
  PROVE  /\ Outstanding' = Outstanding \ {totalRead}
         /\ totalRead \in Outstanding /\ totalRead = NextKey
<1>1. totalRead \in Positions /\ totalRead = NextKey
  BY LookupKey DEF TakeBatch, TakeFailure
<1>2. /\ cache' = EraseEntry /\ cache[totalRead] # Absent
      /\ UNCHANGED <<taskQueue, held, wpc>>
  BY ReaderAssumption DEF TakeBatch, TakeFailure, nextBatchStartPos
<1>3. Cached' = Cached \ {totalRead} /\ totalRead \in Cached
  BY <1>1, <1>2 DEF EraseEntry, nextBatchStartPos, Cached, TypeInv, TypeOK
<1>4. Queued' = Queued /\ InFlight' = InFlight
  BY <1>2 DEF Queued, InFlight
<1> QED
  BY <1>1, <1>3, <1>4 DEF Outstanding, PlacesInv, OnePlace

LEMMA AlignedStep ==
  TypeInv /\ RowsInv /\ PlacesInv /\ AlignedInv /\ [Next]_vars => AlignedInv'
<1> SUFFICES ASSUME TypeInv, RowsInv, PlacesInv, AlignedInv, [Next]_vars PROVE AlignedInv'
  OBVIOUS
<1>1. CASE PushTask
  <2>1. /\ maxPrefetched \in Nat /\ maxPrefetched < TotalRecords
        /\ maxPrefetched' = maxPrefetched + CountAt(maxPrefetched)
    BY <1>1 DEF PushTask, MoreToSchedule, TypeInv, TypeOK
  <2>2. PICK k \in Nat : maxPrefetched = k * BatchSize
    BY <2>1, ReaderAssumption DEF AlignedInv, Aligned
  <2>3. \/ maxPrefetched' = TotalRecords
        \/ maxPrefetched' = maxPrefetched + BatchSize
    BY <2>1, ReaderAssumption DEF CountAt
  <2>4. k * BatchSize + BatchSize = (k + 1) * BatchSize /\ k + 1 \in Nat
    BY <2>2, ReaderAssumption
  <2>5. Aligned(maxPrefetched') \/ maxPrefetched' = TotalRecords
    BY <2>2, <2>3, <2>4 DEF Aligned
  <2>6. Aligned(maxPrefetched)
    BY <2>2 DEF Aligned
  <2> QED
    BY <1>1, <2>5, <2>6, PlacesPush DEF AlignedInv, Aligned
<1>2. CASE ~PushTask
  <2>1. Outstanding' \subseteq Outstanding
    <3>1. CASE TakeBatch \/ TakeFailure
      BY <3>1, OutstandingTaken
    <3>2. CASE FinishClose
      BY <3>2, PlacesClose
    <3>3. ASSUME NEW w \in Workers, TakeTask(w) \/ StoreResult(w)
          PROVE  Outstanding' = Outstanding
      BY <3>3, PlacesTake, PlacesStore
    <3>4. CASE Elsewhere
      BY <3>4, PlacesElsewhere, PlacesUnchanged
    <3> QED
      BY <1>2, <3>1, <3>2, <3>3, <3>4, StepCases
  <2>2. UNCHANGED maxPrefetched
    <3>1. CASE TakeBatch \/ TakeFailure \/ FinishClose
      BY <3>1 DEF TakeBatch, TakeFailure, FinishClose
    <3>2. ASSUME NEW w \in Workers, TakeTask(w) \/ StoreResult(w)
          PROVE  UNCHANGED maxPrefetched
      BY <3>2, PlacesTake, PlacesStore
    <3>3. CASE Elsewhere
      BY <3>3, PlacesElsewhere
    <3> QED
      BY <1>2, <3>1, <3>2, <3>3, StepCases
  <2> QED
    BY <2>1, <2>2 DEF AlignedInv, Aligned
<1> QED
  BY <1>1, <1>2

LEMMA RoomInit == Init => RoomInv
<1> SUFFICES ASSUME Init PROVE RoomInv
  OBVIOUS
<1>1. Outstanding = {} /\ Cardinality(Outstanding) = 0
  BY FS_EmptySet DEF Init, Outstanding, Queued, InFlight, Cached
<1>2. Len(taskQueue) = 0 /\ Room = PrefetchLimit
  BY DEF Init, Room
<1>3. Taken = 0
  <2>1. (BatchSize - 1) \div BatchSize = 0
    <3>1. 0 * BatchSize + BatchSize - 1 = BatchSize - 1
      BY ReaderAssumption
    <3> QED
      BY <3>1, CeilingOfProduct, ReaderAssumption
  <2>2. NextKey = 0 /\ ~failed /\ ~TookEmptyBatch
    BY ReaderAssumption DEF Init, NextKey, TookEmptyBatch, WorkersCreated
  <2>3. BatchesBelow(NextKey) = 0
    BY <2>1, <2>2, ReaderAssumption DEF BatchesBelow
  <2> QED
    BY <2>2, <2>3 DEF Taken
<1> QED
  BY <1>1, <1>2, <1>3, ReaderAssumption DEF RoomInv

\* The bound moves up with the batches taken.
LEMMA BoundGrows ==
  ASSUME NEW l \in Nat \ {0}, NEW a \in Nat, NEW b \in Nat, b = a \/ b = a + 1
  PROVE  /\ l + a * (l - 1) \in Nat
         /\ l + b * (l - 1) >= l + a * (l - 1)
         /\ b = a + 1 => l + b * (l - 1) = l + a * (l - 1) + (l - 1)
<1>1. l - 1 \in Nat /\ a * (l - 1) \in Nat
  OBVIOUS
<1>2. (a + 1) * (l - 1) = a * (l - 1) + (l - 1)
  OBVIOUS
<1> QED
  BY <1>1, <1>2

\* A step that takes no batch keeps the bound, when it adds neither a batch nor
\* room for one.
LEMMA RoomKept ==
  ASSUME TypeInv, PlacesInv, RoomInv,
         Taken' = Taken \/ Taken' = Taken + 1,
         Len(taskQueue') <= PrefetchLimit,
         Cardinality(Outstanding') \in Nat,
         Cardinality(Outstanding') + Room' <= Cardinality(Outstanding) + Room,
         Room \in Int, Room' \in Int
  PROVE  RoomInv'
<1>1. Taken \in Nat /\ Taken' \in Nat /\ Cardinality(Outstanding) \in Nat
  BY AheadNumbers
<1>2. /\ PrefetchLimit + Taken * (PrefetchLimit - 1) \in Nat
      /\ PrefetchLimit + Taken' * (PrefetchLimit - 1)
           >= PrefetchLimit + Taken * (PrefetchLimit - 1)
  BY <1>1, BoundGrows, ReaderAssumption
<1>3. PrefetchLimit + Taken' * (PrefetchLimit - 1) \in Nat
  BY <1>1, BoundGrows, ReaderAssumption
<1> HIDE DEF Taken, Room
<1> DEFINE bound == PrefetchLimit + Taken * (PrefetchLimit - 1)
           bound1 == PrefetchLimit + Taken' * (PrefetchLimit - 1)
<1>4. Cardinality(Outstanding) + Room <= bound
  BY DEF RoomInv
<1>5. bound \in Nat /\ bound1 \in Nat /\ bound1 >= bound
  BY <1>2, <1>3
<1> HIDE DEF bound, bound1
<1>6. Cardinality(Outstanding') + Room' <= bound1
  BY <1>1, <1>4, <1>5
<1> QED
  BY <1>6 DEF RoomInv, bound1

\* The threads are created once.
LEMMA CreatedForGood ==
  ASSUME TypeInv, [Next]_vars, WorkersCreated
  PROVE  WorkersCreated'
<1> USE DEF TypeInv, TypeOK, WorkersCreated
<1>1. CASE \/ PushTask \/ TakeBatch \/ TakeFailure \/ FinishClose
  BY <1>1 DEF PushTask, TakeBatch, TakeFailure, FinishClose
<1>2. ASSUME NEW w \in Workers, TakeTask(w) \/ StoreResult(w)
      PROVE  WorkersCreated'
  BY <1>2 DEF TakeTask, StoreResult, WorkerAt
<1>3. CASE \/ BeginSchedule \/ NextBuffered \/ NextAtEnd \/ NextNeedsBatch \/ MissBatch
           \/ WaitForBatch \/ ServeRow \/ ServeNothing \/ BeginNext \/ BeginClose
           \/ Gone \/ UNCHANGED vars
  BY <1>3 DEF BeginSchedule, NextBuffered, NextAtEnd, NextNeedsBatch, MissBatch,
     WaitForBatch, ServeRow, ServeNothing, BeginNext, BeginClose, Gone, vars
<1>4. CASE EndSchedule \/ StartWorkers \/ NotifyShutdown
  BY <1>4 DEF EndSchedule, StartWorkers, NotifyShutdown, NotifyTaskCV
<1>5. ASSUME NEW w \in Workers, LoopTest(w) \/ LeaveLoop(w) \/ FindNoTask(w) \/ Sleep(w)
                                  \/ NotifyConsumer(w)
      PROVE  WorkersCreated'
  BY <1>5 DEF LoopTest, LeaveLoop, FindNoTask, Sleep, NotifyConsumer, WorkerAt
<1>6. CASE SpuriousWakeup
  BY <1>6 DEF SpuriousWakeup, WorkerAt
<1> QED
  BY <1>1, <1>2, <1>3, <1>4, <1>5, <1>6, StepCases DEF Elsewhere

\* A batch without rows stays counted.
LEMMA TakenKept ==
  ASSUME TypeInv, PlacesInv, [Next]_vars, UNCHANGED batch,
         TookEmptyBatch \/ failed => TookEmptyBatch' \/ failed'
  PROVE  Taken' = Taken \/ Taken' = Taken + 1
<1>1. NextKey' = NextKey
  BY DEF NextKey
<1>2. BatchesBelow(NextKey') = BatchesBelow(NextKey) /\ BatchesBelow(NextKey) \in Nat
  BY <1>1, AheadNumbers
<1>3. WorkersCreated => WorkersCreated'
  BY CreatedForGood
<1> QED
  BY <1>2, <1>3 DEF Taken

LEMMA RoomTakeBatch ==
  ASSUME TypeInv, RowsInv, PlacesInv, StreamInv, AlignedInv, RoomInv, TakeBatch
  PROVE  RoomInv'
<1>1. /\ Outstanding' = Outstanding \ {totalRead}
      /\ totalRead \in Outstanding /\ totalRead = NextKey
  BY OutstandingTaken
<1>2. Cardinality(Outstanding') = Cardinality(Outstanding) - 1
      /\ Cardinality(Outstanding) \in Nat
  BY <1>1, AheadNumbers, FS_RemoveElement
<1>3. PICK k \in Nat : totalRead = k * BatchSize
  BY <1>1 DEF AlignedInv, Aligned
<1>4. /\ batch' = cache[totalRead] /\ cache[totalRead] \notin {Absent, Failed}
      /\ opc = "lookup" /\ opc' = "schedule"
      /\ UNCHANGED <<taskQueue, wpc>>
  BY DEF TakeBatch, nextBatchStartPos
<1>5. totalRead \in Positions
  BY LookupKey, <1>4
<1>6. batch'.from = totalRead /\ batch'.len \in 0 .. BatchSize
  BY <1>4, <1>5 DEF RowsInv, CacheHoldsItsRows, TypeInv, TypeOK, Batch
<1>7. Taken = k
  <2>1. ~TookEmptyBatch /\ ~failed
    BY <1>4 DEF TookEmptyBatch, StreamInv, StreamOpen
  <2>2. BatchesBelow(NextKey) = k
    BY <1>1, <1>3, CeilingOfProduct, ReaderAssumption DEF BatchesBelow
  <2> QED
    BY <2>1, <2>2 DEF Taken
<1>8. Taken' = k + 1
  <2>1. NextKey' = k * BatchSize + batch'.len
    BY <1>3, <1>6 DEF NextKey
  <2>2. CASE batch'.len = 0
    <3>1. k * BatchSize + 0 = k * BatchSize
      BY ReaderAssumption
    <3>2. BatchesBelow(NextKey') = k
      BY <2>1, <2>2, <3>1, CeilingOfProduct, ReaderAssumption DEF BatchesBelow
    <3>3. TookEmptyBatch' /\ WorkersCreated'
      BY <1>4, <2>2 DEF TookEmptyBatch, TypeInv, StartInv, WorkersCreated
    <3> QED
      BY <2>2, <3>2, <3>3 DEF Taken
  <2>3. CASE batch'.len # 0
    <3>1. batch'.len \in 1 .. BatchSize /\ batch'.len \in Nat
      BY <1>6, <2>3, ReaderAssumption
    <3>2. (k * BatchSize + batch'.len + BatchSize - 1) \div BatchSize = k + 1
      BY <3>1, CeilingOfProduct, ReaderAssumption
    <3>3. BatchesBelow(NextKey') = k + 1
      BY <2>1, <3>2 DEF BatchesBelow
    <3> QED
      BY <2>3, <3>3 DEF Taken
  <2> QED
    BY <2>2, <2>3
<1>9. Room = 0 /\ Room' = PrefetchLimit
  BY <1>4 DEF Room
<1>10. Len(taskQueue') <= PrefetchLimit
  BY <1>4 DEF RoomInv
<1>11. Cardinality(Outstanding) + 0 <= PrefetchLimit + k * (PrefetchLimit - 1)
  BY <1>7, <1>9 DEF RoomInv
<1>12. PrefetchLimit + (k + 1) * (PrefetchLimit - 1)
         = PrefetchLimit + k * (PrefetchLimit - 1) + (PrefetchLimit - 1)
  BY BoundGrows, ReaderAssumption
<1>13. PrefetchLimit + k * (PrefetchLimit - 1) \in Nat
  BY BoundGrows, ReaderAssumption
<1> DEFINE bound == PrefetchLimit + k * (PrefetchLimit - 1)
<1> HIDE DEF bound
<1>14. Cardinality(Outstanding') + PrefetchLimit <= bound + (PrefetchLimit - 1)
  BY <1>2, <1>11, <1>13, ReaderAssumption DEF bound
<1>15. Cardinality(Outstanding') + Room' <= PrefetchLimit + Taken' * (PrefetchLimit - 1)
  BY <1>8, <1>9, <1>12, <1>14 DEF bound
<1> QED
  BY <1>10, <1>15 DEF RoomInv

LEMMA RoomStep ==
  /\ TypeInv /\ RowsInv /\ PlacesInv /\ StreamInv /\ AlignedInv /\ RoomInv
  /\ [Next]_vars
  => RoomInv'
<1> SUFFICES ASSUME TypeInv, RowsInv, PlacesInv, StreamInv, AlignedInv, RoomInv, [Next]_vars
             PROVE  RoomInv'
  OBVIOUS
<1>1. /\ Cardinality(Outstanding) \in Nat /\ IsFiniteSet(Outstanding)
      /\ taskQueue \in Seq(Task) /\ Len(taskQueue) \in Nat /\ Len(taskQueue) <= PrefetchLimit
      /\ PrefetchLimit \in Nat
  BY AheadNumbers, ReaderAssumption DEF TypeInv, TypeOK, RoomInv
<1>2. Room \in Int
  BY <1>1 DEF Room
<1>3. CASE PushTask
  <2>1. /\ Outstanding' = Outstanding \cup {maxPrefetched} /\ maxPrefetched \notin Outstanding
    BY <1>3, PlacesPush
  <2>2. Cardinality(Outstanding') = Cardinality(Outstanding) + 1
    BY <1>1, <2>1, FS_AddElement
  <2>3. opc = "refill" /\ UNCHANGED <<opc, failed, batch, wpc>>
    BY <1>3 DEF PushTask, ownerVars
  <2>4. Len(taskQueue') = Len(taskQueue) + 1 /\ Len(taskQueue) < PrefetchLimit
    BY <1>1, <1>3 DEF PushTask, MoreToSchedule
  <2>5. Room' = Room - 1 /\ Room' \in Int
    BY <1>1, <2>3, <2>4 DEF Room
  <2>6. Taken' = Taken \/ Taken' = Taken + 1
    BY <2>3, TakenKept DEF TookEmptyBatch, WorkersCreated
  <2>7. Cardinality(Outstanding') \in Nat
        /\ Cardinality(Outstanding') + Room' <= Cardinality(Outstanding) + Room
    BY <1>1, <1>2, <2>2, <2>5
  <2>8. Len(taskQueue') <= PrefetchLimit
    BY <1>1, <2>4
  <2> QED
    BY <1>2, <2>5, <2>6, <2>7, <2>8, RoomKept
<1>4. CASE TakeBatch
  BY <1>4, RoomTakeBatch
<1>5. CASE TakeFailure
  <2>1. Outstanding' = Outstanding \ {totalRead} /\ totalRead \in Outstanding
    BY <1>5, OutstandingTaken
  <2>2. Cardinality(Outstanding') = Cardinality(Outstanding) - 1 /\ Cardinality(Outstanding') \in Nat
    BY <1>1, <2>1, FS_RemoveElement, FS_CardinalityType
  <2>3. opc = "lookup" /\ opc' = "idle" /\ failed' /\ UNCHANGED <<batch, taskQueue>>
    BY <1>5 DEF TakeFailure
  <2>4. Room = 0 /\ Room' = 0
    BY <2>3 DEF Room
  <2>5. Taken' = Taken \/ Taken' = Taken + 1
    BY <2>3, TakenKept
  <2>6. Cardinality(Outstanding') + Room' <= Cardinality(Outstanding) + Room
    BY <1>1, <2>2, <2>4
  <2>7. Len(taskQueue') <= PrefetchLimit /\ Room' \in Int
    BY <1>1, <2>3, <2>4
  <2> QED
    BY <1>2, <2>2, <2>5, <2>6, <2>7, RoomKept
<1>6. CASE FinishClose
  <2>1. Outstanding' = {} /\ Cardinality(Outstanding') = 0
    BY <1>6, PlacesClose, FS_EmptySet
  <2>2. /\ opc = "join" /\ opc' = "closed" /\ UNCHANGED <<batch, failed>> /\ taskQueue' = <<>>
    BY <1>6 DEF FinishClose, ownerVars
  <2>3. Room = 0 /\ Room' = 0 /\ Len(taskQueue') <= PrefetchLimit
    BY <1>1, <2>2 DEF Room
  <2>4. Taken' = Taken \/ Taken' = Taken + 1
    BY <2>2, TakenKept DEF TookEmptyBatch
  <2>5. Cardinality(Outstanding') + Room' <= Cardinality(Outstanding) + Room
        /\ Cardinality(Outstanding') \in Nat /\ Room' \in Int
    BY <1>1, <2>1, <2>3
  <2> QED
    BY <1>2, <2>3, <2>4, <2>5, RoomKept
<1>7. ASSUME NEW w \in Workers, TakeTask(w) \/ StoreResult(w)
      PROVE  RoomInv'
  <2>1. Outstanding' = Outstanding
    BY <1>7, PlacesTake, PlacesStore
  <2>2. UNCHANGED <<opc, failed, batch>>
    BY <1>7 DEF TakeTask, StoreResult, ownerVars
  <2>3. WorkersCreated'
    BY <1>7 DEF TakeTask, StoreResult, WorkerAt, WorkersCreated, TypeInv, StartInv, TypeOK
  <2>4. Taken' = Taken \/ Taken' = Taken + 1
    BY <2>2, <2>3, TakenKept DEF TookEmptyBatch
  <2>5. Len(taskQueue') <= PrefetchLimit /\ (opc = "refill" => taskQueue' = taskQueue)
    <3>1. CASE TakeTask(w)
      <4>1. taskQueue' = Tail(taskQueue) /\ taskQueue # <<>> /\ opc # "refill"
        BY <3>1 DEF TakeTask, TaskOrShutdown, TaskMutexFree
      <4>2. Len(taskQueue') = Len(taskQueue) - 1
        BY <1>1, <4>1
      <4>3. Len(taskQueue') <= PrefetchLimit
        BY <1>1, <4>2
      <4> QED
        BY <4>1, <4>3
    <3>2. CASE StoreResult(w)
      BY <1>1, <3>2 DEF StoreResult
    <3> QED
      BY <1>7, <3>1, <3>2
  <2>6. Room' = Room
    BY <2>2, <2>5 DEF Room
  <2>7. Cardinality(Outstanding') \in Nat /\ Room' \in Int
        /\ Cardinality(Outstanding') + Room' <= Cardinality(Outstanding) + Room
    BY <1>1, <1>2, <2>1, <2>6
  <2> QED
    BY <1>2, <2>4, <2>5, <2>7, RoomKept
<1>8. CASE Elsewhere
  <2>1. UNCHANGED <<Outstanding, batch, taskQueue>>
    BY <1>8, PlacesElsewhere, PlacesUnchanged
  <2>2. Room' \in Int /\ Room' <= Room /\ (TookEmptyBatch \/ failed => TookEmptyBatch' \/ failed')
    <3>1. CASE EndSchedule
      <4>1. opc = "refill" /\ opc' = (IF WorkersCreated THEN "serve" ELSE "start")
            /\ (WorkersCreated => WorkersCreated') /\ UNCHANGED <<failed, batch>>
        BY <3>1 DEF EndSchedule, NotifyTaskCV, WorkersCreated, ownerVars
      <4> QED
        BY <1>1, <4>1 DEF Room, TookEmptyBatch
    <3>2. CASE BeginSchedule
      <4>1. opc = "schedule" /\ opc' = "refill" /\ UNCHANGED <<failed, batch, wpc, taskQueue>>
        BY <3>2 DEF BeginSchedule, ownerVars, sharedVars
      <4> QED
        BY <1>1, <4>1 DEF Room, TookEmptyBatch, WorkersCreated
    <3>3. CASE ServeRow
      <4>1. opc = "serve" /\ opc' = "idle" /\ UNCHANGED <<failed, batch>> /\ batch.len # 0
        BY <3>3 DEF ServeRow, BatchConsumed, TypeInv, TypeOK, Batch
      <4> QED
        BY <4>1 DEF Room, TookEmptyBatch
    <3>4. CASE ServeNothing
      BY <3>4 DEF ServeNothing, Room
    <3>5. CASE \/ StartWorkers \/ NextBuffered \/ NextAtEnd \/ NextNeedsBatch \/ MissBatch
               \/ WaitForBatch \/ NotifyShutdown \/ BeginNext \/ BeginClose
      <4>1. /\ opc \notin {"schedule", "refill", "serve"}
            /\ opc' \notin {"schedule", "refill"}
            /\ UNCHANGED failed
        BY <3>5 DEF StartWorkers, NextBuffered, NextAtEnd, NextNeedsBatch, MissBatch,
           WaitForBatch, NotifyShutdown, BeginNext, BeginClose, ownerVars
      <4> QED
        BY <4>1 DEF Room, TookEmptyBatch
    <3>6. ASSUME NEW w \in Workers, LoopTest(w) \/ LeaveLoop(w) \/ FindNoTask(w) \/ Sleep(w)
                                      \/ NotifyConsumer(w)
          PROVE  Room' \in Int /\ Room' <= Room
                 /\ (TookEmptyBatch \/ failed => TookEmptyBatch' \/ failed')
      <4>1. UNCHANGED failed /\ (opc' = opc \/ (opc = "waiting" /\ opc' = "lookup"))
        BY <3>6 DEF LoopTest, LeaveLoop, FindNoTask, Sleep, NotifyConsumer, ownerVars
      <4>2. wpc[w] # "unborn" /\ \E p \in WorkerPoints \ {"unborn"} : wpc' = [wpc EXCEPT ![w] = p]
        BY <3>6 DEF LoopTest, LeaveLoop, FindNoTask, Sleep, NotifyConsumer, WorkerAt, WorkerPoints
      <4>3. WorkersCreated'
        BY <4>2 DEF WorkersCreated, TypeInv, StartInv, TypeOK
      <4> QED
        BY <1>1, <2>1, <4>1, <4>3 DEF Room, TookEmptyBatch
    <3>7. CASE SpuriousWakeup
      <4>1. UNCHANGED failed /\ (opc' = opc \/ (opc = "waiting" /\ opc' = "lookup"))
        BY <3>7 DEF SpuriousWakeup, ownerVars
      <4>2. WorkersCreated => WorkersCreated'
        BY <3>7 DEF SpuriousWakeup, WorkerAt, WorkersCreated, TypeInv, TypeOK
      <4> QED
        BY <1>1, <2>1, <4>1, <4>2 DEF Room, TookEmptyBatch
    <3>8. CASE Gone \/ UNCHANGED vars
      <4>1. UNCHANGED <<opc, failed, batch, wpc, taskQueue>>
        BY <3>8 DEF Gone, vars, ownerVars, sharedVars
      <4> QED
        BY <1>1, <4>1 DEF Room, TookEmptyBatch, WorkersCreated
    <3> QED
      BY <1>8, <3>1, <3>2, <3>3, <3>4, <3>5, <3>6, <3>7, <3>8 DEF Elsewhere
  <2>3. Taken' = Taken \/ Taken' = Taken + 1
    BY <2>1, <2>2, TakenKept
  <2>4. Cardinality(Outstanding') \in Nat
        /\ Cardinality(Outstanding') + Room' <= Cardinality(Outstanding) + Room
    BY <1>1, <1>2, <2>1, <2>2
  <2> QED
    BY <1>1, <1>2, <2>1, <2>2, <2>3, <2>4, RoomKept
<1> QED
  BY <1>3, <1>4, <1>5, <1>6, <1>7, <1>8, StepCases

\* How much memory the reader may need: each batch the application takes lets the
\* reader hold PrefetchLimit - 1 more, and nothing else does, whatever the number of
\* workers and the order of the downloads (tunnel.cpp, scheduleMoreTasksIfNeeded and
\* Next).
THEOREM ReadAheadIsBounded ==
  Spec => [](Cardinality(Outstanding) <= PrefetchLimit + BatchesTaken * (PrefetchLimit - 1))
<1>1. Spec => [](TypeInv /\ RowsInv /\ PlacesInv /\ StreamInv /\ AlignedInv /\ RoomInv)
  BY TypeInit, TypeStep, RowsInit, RowsStep, PlacesInit, PlacesStep, StreamInit, StreamStep,
     AlignedInit, AlignedStep, RoomInit, RoomStep, PTL DEF Spec
<1>2. TypeInv /\ RowsInv /\ PlacesInv /\ StreamInv /\ AlignedInv /\ RoomInv =>
        Cardinality(Outstanding) <= PrefetchLimit + BatchesTaken * (PrefetchLimit - 1)
  <2> SUFFICES ASSUME TypeInv, PlacesInv, RoomInv
               PROVE  Cardinality(Outstanding)
                        <= PrefetchLimit + BatchesTaken * (PrefetchLimit - 1)
    OBVIOUS
  <2>1. Cardinality(Outstanding) \in Nat /\ Taken \in Nat /\ BatchesBelow(NextKey) \in Nat
    BY AheadNumbers
  <2>2. Room \in Int /\ Room >= 0
    BY ReaderAssumption DEF Room, RoomInv, TypeInv, TypeOK
  <2>3. BatchesTaken = Taken \/ BatchesTaken = Taken + 1
    <3>1. BatchesTaken = BatchesBelow(NextKey)
                           + (IF batch.len = 0 /\ WorkersCreated THEN 1 ELSE 0)
      BY DEF BatchesTaken, BatchesBelow
    <3> QED
      BY <2>1, <3>1 DEF Taken
  <2>4. PrefetchLimit + Taken * (PrefetchLimit - 1) \in Nat
        /\ PrefetchLimit + BatchesTaken * (PrefetchLimit - 1)
             >= PrefetchLimit + Taken * (PrefetchLimit - 1)
    BY <2>1, <2>3, BoundGrows, ReaderAssumption
  <2>5. PrefetchLimit + BatchesTaken * (PrefetchLimit - 1) \in Nat
    BY <2>1, <2>3, BoundGrows, ReaderAssumption
  <2> HIDE DEF Taken, Room, BatchesTaken
  <2>6. Cardinality(Outstanding) + Room <= PrefetchLimit + Taken * (PrefetchLimit - 1)
    BY DEF RoomInv
  <2> QED
    BY <2>1, <2>2, <2>4, <2>5, <2>6
<1> QED
  BY <1>1, <1>2, PTL

-----------------------------------------------------------------------------
(* The wakeups of mTaskCV.  While the owner refills the queue no worker is *)
(* between its test of the queue and its wait, because it would hold       *)
(* mTaskMutex; so notify_all() reaches every worker that saw it empty.     *)

SleepInv ==
  /\ NoSleeperWithWork
  /\ opc = "refill" => \A w \in Workers : wpc[w] # "committed"

LEMMA SleepInit == Init => SleepInv
BY DEF Init, SleepInv, NoSleeperWithWork

LEMMA SleepStep == TypeInv /\ SleepInv /\ [Next]_vars => SleepInv'
<1> SUFFICES ASSUME TypeInv, SleepInv, [Next]_vars PROVE SleepInv'
  OBVIOUS
<1> USE DEF SleepInv, NoSleeperWithWork, sharedVars
<1>0. wpc \in [Workers -> WorkerPoints] /\ taskQueue \in Seq(Task)
  BY DEF TypeInv, TypeOK
<1>1. CASE BeginSchedule
  BY <1>1 DEF BeginSchedule, TaskMutexFree
<1>2. CASE PushTask
  BY <1>2 DEF PushTask
<1>3. CASE EndSchedule
  BY <1>0, <1>3 DEF EndSchedule, NotifyTaskCV
<1>4. CASE StartWorkers \/ FinishClose
  BY <1>4 DEF StartWorkers, FinishClose
<1>5. CASE \/ NextBuffered \/ NextAtEnd \/ NextNeedsBatch \/ MissBatch \/ WaitForBatch
           \/ ServeRow \/ ServeNothing \/ BeginNext \/ BeginClose
  BY <1>5 DEF NextBuffered, NextAtEnd, NextNeedsBatch, MissBatch, WaitForBatch, ServeRow,
     ServeNothing, BeginNext, BeginClose
<1>6. CASE TakeBatch \/ TakeFailure
  BY <1>6 DEF TakeBatch, TakeFailure
<1>7. CASE NotifyShutdown
  BY <1>0, <1>7 DEF NotifyShutdown, NotifyTaskCV
<1>8. ASSUME NEW w \in Workers, TakeTask(w)
      PROVE  SleepInv'
  BY <1>0, <1>8 DEF TakeTask, TaskOrShutdown, TaskMutexFree, WorkerAt
<1>9. ASSUME NEW w \in Workers, FindNoTask(w)
      PROVE  SleepInv'
  BY <1>0, <1>9 DEF FindNoTask, TaskOrShutdown, TaskMutexFree, WorkerAt
<1>10. ASSUME NEW w \in Workers, LoopTest(w) \/ LeaveLoop(w) \/ Sleep(w) \/ StoreResult(w)
       PROVE  SleepInv'
  BY <1>0, <1>10 DEF LoopTest, LeaveLoop, Sleep, StoreResult, WorkerAt
<1>11. ASSUME NEW w \in Workers, NotifyConsumer(w)
       PROVE  SleepInv'
  BY <1>0, <1>11 DEF NotifyConsumer, WorkerAt
<1>12. CASE SpuriousWakeup
  BY <1>0, <1>12 DEF SpuriousWakeup, WorkerAt
<1>13. CASE Gone \/ UNCHANGED vars
  BY <1>13 DEF Gone, vars
<1> QED
  BY <1>1, <1>2, <1>3, <1>4, <1>5, <1>6, <1>7, <1>8, <1>9, <1>10, <1>11, <1>12, <1>13
  DEF Next, OwnerStep, WorkerStep

\* No worker sleeps, or is about to, while there is something to download
\* (RecordReader, NoSleeperWithWork).
THEOREM NoLostTaskWakeup == Spec => []NoSleeperWithWork
<1>1. Spec => [](TypeInv /\ SleepInv)
  BY TypeInit, TypeStep, SleepInit, SleepStep, PTL DEF Spec
<1>2. SleepInv => NoSleeperWithWork
  BY DEF SleepInv
<1> QED
  BY <1>1, <1>2, PTL

-----------------------------------------------------------------------------
(* The reader implements the row cursor.                                   *)

\* The refinement mapping of RecordReader, by name.
Pending == opc \in InNext \/ (opc \in {"schedule", "refill"} /\ WorkersCreated)

LEMMA CursorUnchanged ==
  ASSUME UNCHANGED <<delivered, failed, endOfStream>>, UNCHANGED Pending,
         opc \in {"notify", "join", "closed"} <=> opc' \in {"notify", "join", "closed"}
  PROVE  UNCHANGED Cursor!cursorVars
<1>1. CursorStatus' = CursorStatus
  BY DEF CursorStatus
<1> QED
  BY <1>1 DEF Cursor!cursorVars, Pending

LEMMA CursorStep ==
  TypeInv /\ RowsInv /\ StreamInv /\ [Next]_vars => [Cursor!CursorNext]_(Cursor!cursorVars)
<1> SUFFICES ASSUME TypeInv, RowsInv, StreamInv, [Next]_vars
             PROVE  Cursor!CursorNext \/ UNCHANGED Cursor!cursorVars
  OBVIOUS
<1> USE DEF StreamInv, StreamOpen, TypeInv, StartInv
<1>0. wpc \in [Workers -> WorkerPoints] /\ Workers # {}
  BY ReaderAssumption DEF TypeOK
<1>1. CASE BeginNext
  BY <1>1 DEF BeginNext, ownerVars, Cursor!CursorNext, Cursor!Request, CursorStatus, InNext
<1>2. CASE NextAtEnd
  <2>1. Len(delivered) = TotalRecords
    BY <1>2, ReaderAssumption
    DEF NextAtEnd, AllRead, RowsInv, ReadPosition, InOrder, NextKey, TypeOK, Batch
  <2> QED
    BY <1>2, <2>1 DEF NextAtEnd, Cursor!CursorNext, Cursor!Exhaust, CursorStatus, InNext
<1>3. CASE TakeFailure
  <2>1. MayFail
    BY <1>3, LookupKey DEF TakeFailure, nextBatchStartPos, FailureAllowed
  <2> QED
    BY <1>3, <2>1 DEF TakeFailure, Cursor!CursorNext, Cursor!Fail, CursorStatus, InNext
<1>4. CASE ServeRow
  <2>1. Len(delivered) = totalRead /\ batch.from + batchIndex = totalRead
        /\ totalRead < TotalRecords
    BY <1>4, ReaderAssumption
    DEF ServeRow, BatchConsumed, RowsInv, ReadPosition, InOrder, NextKey, TypeOK, Batch
  <2> QED
    BY <1>4, <2>1 DEF ServeRow, Cursor!CursorNext, Cursor!ServeRow, CursorStatus, InNext
<1>5. CASE ServeNothing
  <2>1. MayTruncate
    BY <1>5 DEF ServeNothing, RowToServe
  <2> QED
    BY <1>5, <2>1 DEF ServeNothing, Cursor!CursorNext, Cursor!Fail, CursorStatus, InNext
<1>6. CASE BeginClose
  BY <1>6 DEF BeginClose, ownerVars, Cursor!CursorNext, Cursor!Drop, CursorStatus, InNext
<1>7. CASE BeginSchedule \/ PushTask \/ NextBuffered \/ NextNeedsBatch \/ MissBatch
           \/ WaitForBatch \/ FinishClose \/ TakeBatch
  <2>1. UNCHANGED <<delivered, failed, endOfStream>> /\ UNCHANGED WorkersCreated
    BY <1>7 DEF BeginSchedule, PushTask, NextBuffered, NextNeedsBatch, MissBatch,
       WaitForBatch, FinishClose, TakeBatch, ownerVars, WorkersCreated
  <2> QED
    BY <1>7, <2>1, CursorUnchanged DEF BeginSchedule, PushTask, NextBuffered,
       NextNeedsBatch, MissBatch, WaitForBatch, FinishClose, TakeBatch, Pending, InNext
<1>8. CASE EndSchedule \/ StartWorkers \/ NotifyShutdown
  <2>1. UNCHANGED <<delivered, failed, endOfStream>>
    BY <1>8 DEF EndSchedule, StartWorkers, NotifyShutdown, ownerVars
  <2>2. CASE EndSchedule
    <3>1. WorkersCreated' = WorkersCreated
      BY <1>0, <2>2 DEF EndSchedule, NotifyTaskCV, WorkersCreated
    <3> QED
      BY <2>1, <2>2, <3>1, CursorUnchanged DEF EndSchedule, Pending, InNext
  <2>3. CASE StartWorkers
    BY <2>1, <2>3, CursorUnchanged DEF StartWorkers, Pending, InNext
  <2>4. CASE NotifyShutdown
    BY <2>1, <2>4, CursorUnchanged DEF NotifyShutdown, Pending, InNext
  <2> QED
    BY <1>8, <2>2, <2>3, <2>4
<1>9. ASSUME NEW w \in Workers, WorkerStep(w)
      PROVE  UNCHANGED Cursor!cursorVars
  <2>1. UNCHANGED <<delivered, failed, endOfStream>>
    BY <1>9 DEF WorkerStep, LoopTest, TakeTask, LeaveLoop, FindNoTask, Sleep, StoreResult,
       NotifyConsumer, ownerVars
  <2>2. \/ opc' = opc
        \/ opc = "waiting" /\ opc' = "lookup"
    BY <1>9 DEF WorkerStep, LoopTest, TakeTask, LeaveLoop, FindNoTask, Sleep, StoreResult,
       NotifyConsumer
  <2>3. WorkersCreated /\ WorkersCreated'
    BY <1>0, <1>9 DEF WorkerStep, LoopTest, TakeTask, LeaveLoop, FindNoTask, Sleep,
       StoreResult, NotifyConsumer, WorkerAt, WorkersCreated
  <2> QED
    BY <2>1, <2>2, <2>3, CursorUnchanged DEF Pending, InNext
<1>10. CASE SpuriousWakeup
  <2>1. UNCHANGED <<delivered, failed, endOfStream>>
    BY <1>10 DEF SpuriousWakeup, ownerVars
  <2>2. \/ opc' = opc /\ WorkersCreated /\ WorkersCreated'
        \/ opc = "waiting" /\ opc' = "lookup"
    BY <1>0, <1>10 DEF SpuriousWakeup, WorkerAt, WorkersCreated
  <2> QED
    BY <2>1, <2>2, CursorUnchanged DEF Pending, InNext
<1>11. CASE Gone \/ UNCHANGED vars
  BY <1>11, CursorUnchanged DEF Gone, vars, ownerVars, Pending, WorkersCreated
<1> QED
  BY <1>1, <1>2, <1>3, <1>4, <1>5, <1>6, <1>7, <1>8, <1>9, <1>10, <1>11 DEF Next, OwnerStep

\* The concurrent reader, whatever its workers do and whatever the server
\* serves, behaves as a row cursor (RecordReader, ImplementsCursorSafe).
THEOREM ReaderImplementsCursor == Spec => ImplementsCursorSafe
<1>1. Init => Cursor!CursorInit
  BY ReaderAssumption DEF Init, Cursor!CursorInit, CursorStatus, InNext, WorkersCreated
<1>2. Spec => [](TypeInv /\ RowsInv /\ StreamInv)
  BY TypeInit, TypeStep, RowsInit, RowsStep, StreamInit, StreamStep, PTL DEF Spec
<1> QED
  BY <1>1, <1>2, CursorStep, PTL DEF Spec, ImplementsCursorSafe, Cursor!CursorSafe

=============================================================================
