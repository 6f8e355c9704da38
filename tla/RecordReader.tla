---------------------------- MODULE RecordReader ----------------------------
(***************************************************************************)
(* ConcurrentBufferedRecordReader (tunnel.h, tunnel.cpp), the concurrent   *)
(* prefetching reader under every SELECT, with the one caller it has:      *)
(* ResultStreamImpl::fetchNextRow (client.cpp).                            *)
(*                                                                         *)
(* The owner is the application thread: it constructs the reader, calls    *)
(* Next() row by row and destroys it, which runs Close().  Workers         *)
(* download batches of rows.  Each program counter names the point a       *)
(* thread has reached; the two condition variables are the threads whose   *)
(* counter is "asleep" (mTaskCV) or "waiting" (mCacheCV), and the two      *)
(* mutexes are held exactly at the points TaskMutexFree and CacheMutexFree *)
(* name.  A condition variable releases its mutex and starts to wait in    *)
(* one step, but the predicate is evaluated before that step: "committed"  *)
(* is the point between the two.                                           *)
(*                                                                         *)
(* Close() has one caller, the destructor, so nothing runs inside Next()   *)
(* when mIsClosed or mShutdown is set: the tests of the two flags in       *)
(* Next() are never true in the driver and are not modelled.               *)
(***************************************************************************)
EXTENDS Integers, Sequences, FiniteSets

CONSTANTS Workers,        \* the worker threads (fetchResultThreadNum of them)
          TotalRecords,   \* mTotalRecordCount
          BatchSize,      \* mBatchSize (fetchResultSplitSize)
          PrefetchLimit,  \* mPrefetchLimit, already clamped to at least 1
          MayFail,        \* whether a download may end in an error
          MayTruncate,    \* whether the server may serve fewer rows than asked
          Absent,         \* no entry in mPrefetchCache
          Failed,         \* an entry that holds a download error
          NoTask          \* a worker that holds no task

Positions == 0 .. (TotalRecords - 1)
Task  == [start : Positions, count : 1 .. BatchSize]
Batch == [from : Nat, len : 0 .. BatchSize]

ASSUME ReaderAssumption ==
  /\ Workers # {}
  /\ TotalRecords \in Nat
  /\ BatchSize \in Nat \ {0}
  /\ PrefetchLimit \in Nat \ {0}
  /\ MayFail \in BOOLEAN /\ MayTruncate \in BOOLEAN
  /\ Absent # Failed /\ {Absent, Failed} \cap Batch = {}
  /\ NoTask \notin Task

VARIABLES
  taskQueue,       \* mDownloadTasks
  maxPrefetched,   \* mMaxPrefetchedPosition
  cache,           \* mPrefetchCache, Absent where the map has no key
  batch,           \* mCurrentBatch: len rows of the result, from row "from" on
  batchIndex,      \* mCurrentBatchIndex
  totalRead,       \* mTotalRecordsRead
  shutdown,        \* mShutdown
  endOfStream,     \* m_end_of_stream of the ResultStreamImpl above the reader
  opc,             \* where the owner is
  wpc,             \* where each worker is
  held,            \* the task each worker is downloading
  delivered,       \* history: the rows returned to the caller of fetchNextRow
  failed           \* history: a call of fetchNextRow returned an error

ownerVars  == <<batch, batchIndex, totalRead, endOfStream, delivered, failed>>
sharedVars == <<taskQueue, maxPrefetched, cache, shutdown>>
vars       == <<ownerVars, sharedVars, opc, wpc, held>>

OwnerPoints ==
  {"schedule", "refill", "start", "idle", "next", "lookup", "committed",
   "waiting", "serve", "notify", "join", "closed"}

\* The points of the owner inside a call of Next().
InNext == {"next", "lookup", "committed", "waiting", "serve"}

WorkerPoints ==
  {"unborn", "top", "acquire", "committed", "asleep", "download", "notify",
   "exited"}

\* Fault: every task asks for a full batch.
FullCountAt(start) == BatchSize

\* The rows a batch that starts at a position asks the server for.
CountAt(start) ==
  IF TotalRecords - start < BatchSize THEN TotalRecords - start ELSE BatchSize

\* The answers of the server to a task.  The deserializer checks the number of
\* rows against the stream's own count, nobody against the task's.
Outcomes(task) ==
  [from : {task.start}, len : IF MayTruncate THEN 0 .. task.count ELSE {task.count}]
    \cup (IF MayFail THEN {Failed} ELSE {})

TaskMutexFree == opc # "refill" /\ \A w \in Workers : wpc[w] # "committed"

\* Fault: the cache is written under a mutex that Next() does not take.
NoCacheMutex == TRUE

CacheMutexFree == opc # "committed"

WorkersCreated == \A w \in Workers : wpc[w] # "unborn"

\* Fault: notify_one() where notify_all() is needed.
NotifyOneTaskCV ==
  IF \E w \in Workers : wpc[w] = "asleep"
  THEN \E w \in Workers : wpc[w] = "asleep" /\ wpc' = [wpc EXCEPT ![w] = "acquire"]
  ELSE UNCHANGED wpc

\* notify_all() on mTaskCV: every waiting worker goes for the mutex.
NotifyTaskCV ==
  wpc' = [w \in Workers |-> IF wpc[w] = "asleep" THEN "acquire" ELSE wpc[w]]

-----------------------------------------------------------------------------
(* The constructor starts with the first refill; no thread exists yet.     *)

Init ==
  /\ taskQueue = <<>>
  /\ maxPrefetched = 0
  /\ cache = [s \in Positions |-> Absent]
  /\ batch = [from |-> 0, len |-> 0]
  /\ batchIndex = 0
  /\ totalRead = 0
  /\ shutdown = FALSE
  /\ endOfStream = FALSE
  /\ opc = "schedule"
  /\ wpc = [w \in Workers |-> "unborn"]
  /\ held = [w \in Workers |-> NoTask]
  /\ delivered = <<>>
  /\ failed = FALSE

-----------------------------------------------------------------------------
(* scheduleMoreTasksIfNeeded, under mTaskMutex.                            *)

BeginSchedule ==
  /\ opc = "schedule"
  /\ TaskMutexFree
  /\ opc' = "refill"
  /\ UNCHANGED <<ownerVars, sharedVars, wpc, held>>

\* Fault: a last batch that is not full is forgotten.
FullBatchToSchedule ==
  Len(taskQueue) < PrefetchLimit /\ maxPrefetched + BatchSize <= TotalRecords

MoreToSchedule ==
  Len(taskQueue) < PrefetchLimit /\ maxPrefetched < TotalRecords

PushTask ==
  /\ opc = "refill"
  /\ MoreToSchedule
  /\ taskQueue' = Append(taskQueue,
                    [start |-> maxPrefetched, count |-> CountAt(maxPrefetched)])
  /\ maxPrefetched' = maxPrefetched + CountAt(maxPrefetched)
  /\ UNCHANGED <<ownerVars, cache, shutdown, opc, wpc, held>>

EndSchedule ==
  /\ opc = "refill"
  /\ ~MoreToSchedule
  /\ IF taskQueue # <<>> THEN NotifyTaskCV ELSE UNCHANGED wpc
  /\ opc' = IF WorkersCreated THEN "serve" ELSE "start"
  /\ UNCHANGED <<ownerVars, sharedVars, held>>

StartWorkers ==
  /\ opc = "start"
  /\ wpc' = [w \in Workers |-> "top"]
  /\ opc' = "idle"
  /\ UNCHANGED <<ownerVars, sharedVars, held>>

-----------------------------------------------------------------------------
(* Next(), called by fetchNextRow while the stream has not ended.          *)

BeginNext ==
  /\ opc = "idle"
  /\ ~endOfStream
  /\ opc' = "next"
  /\ UNCHANGED <<ownerVars, sharedVars, wpc, held>>

BatchConsumed == batchIndex >= batch.len

\* Fault: the end is where the last batch has been scheduled.
AllScheduled == maxPrefetched >= TotalRecords

AllRead == totalRead >= TotalRecords

NextBuffered ==
  /\ opc = "next"
  /\ ~BatchConsumed
  /\ opc' = "serve"
  /\ UNCHANGED <<ownerVars, sharedVars, wpc, held>>

NextAtEnd ==
  /\ opc = "next"
  /\ BatchConsumed
  /\ AllRead
  /\ endOfStream' = TRUE
  /\ opc' = "idle"
  /\ UNCHANGED <<batch, batchIndex, totalRead, delivered, failed, sharedVars,
                 wpc, held>>

NextNeedsBatch ==
  /\ opc = "next"
  /\ BatchConsumed
  /\ ~AllRead
  /\ opc' = "lookup"
  /\ UNCHANGED <<ownerVars, sharedVars, wpc, held>>

\* Fault: Next() takes whatever has been downloaded first.
AnyCachedPos ==
  IF \E s \in Positions : cache[s] # Absent
  THEN CHOOSE s \in Positions : cache[s] # Absent
  ELSE totalRead

nextBatchStartPos == totalRead

\* Fault: the entry stays in the map.
KeepEntry == cache

EraseEntry == [cache EXCEPT ![nextBatchStartPos] = Absent]

\* The wait predicate is true: a batch becomes the current one.
TakeBatch ==
  /\ opc = "lookup"
  /\ CacheMutexFree
  /\ cache[nextBatchStartPos] \notin {Absent, Failed}
  /\ batch' = cache[nextBatchStartPos]
  /\ batchIndex' = 0
  /\ cache' = EraseEntry
  /\ opc' = "schedule"
  /\ UNCHANGED <<totalRead, endOfStream, delivered, failed, taskQueue,
                 maxPrefetched, shutdown, wpc, held>>

\* The wait predicate is true: the entry is an error, erased and returned, and
\* fetchNextRow ends the stream.
TakeFailure ==
  /\ opc = "lookup"
  /\ CacheMutexFree
  /\ cache[nextBatchStartPos] = Failed
  /\ cache' = EraseEntry
  /\ endOfStream' = TRUE
  /\ failed' = TRUE
  /\ opc' = "idle"
  /\ UNCHANGED <<batch, batchIndex, totalRead, delivered, taskQueue,
                 maxPrefetched, shutdown, wpc, held>>

\* The wait predicate is false; mCacheMutex is still held.
MissBatch ==
  /\ opc = "lookup"
  /\ CacheMutexFree
  /\ cache[nextBatchStartPos] = Absent
  /\ opc' = "committed"
  /\ UNCHANGED <<ownerVars, sharedVars, wpc, held>>

WaitForBatch ==
  /\ opc = "committed"
  /\ opc' = "waiting"
  /\ UNCHANGED <<ownerVars, sharedVars, wpc, held>>

ServeRow ==
  /\ opc = "serve"
  /\ ~BatchConsumed
  /\ delivered' = Append(delivered, batch.from + batchIndex)
  /\ batchIndex' = batchIndex + 1
  /\ totalRead' = totalRead + 1
  /\ opc' = "idle"
  /\ UNCHANGED <<batch, endOfStream, failed, sharedVars, wpc, held>>

\* Fault: an empty batch is taken for the end of the result.
ServeNothingAsEnd ==
  /\ opc = "serve"
  /\ BatchConsumed
  /\ endOfStream' = TRUE
  /\ opc' = "idle"
  /\ UNCHANGED <<batch, batchIndex, totalRead, delivered, failed, sharedVars, wpc,
                 held>>

\* "An empty record batch was processed."
ServeNothing ==
  /\ opc = "serve"
  /\ BatchConsumed
  /\ endOfStream' = TRUE
  /\ failed' = TRUE
  /\ opc' = "idle"
  /\ UNCHANGED <<batch, batchIndex, totalRead, delivered, sharedVars, wpc, held>>

-----------------------------------------------------------------------------
(* The destructor: Close() without mTaskMutex, then the joins.             *)

BeginClose ==
  /\ opc = "idle"
  /\ shutdown' = TRUE
  /\ opc' = "notify"
  /\ UNCHANGED <<ownerVars, taskQueue, maxPrefetched, cache, wpc, held>>

NotifyShutdown ==
  /\ opc = "notify"
  /\ NotifyTaskCV
  /\ opc' = "join"
  /\ UNCHANGED <<ownerVars, sharedVars, held>>

WorkersJoined == \A w \in Workers : wpc[w] = "exited"

FinishClose ==
  /\ opc = "join"
  /\ WorkersJoined
  /\ cache' = [s \in Positions |-> Absent]
  /\ taskQueue' = <<>>
  /\ opc' = "closed"
  /\ UNCHANGED <<ownerVars, maxPrefetched, shutdown, wpc, held>>

\* The reader is gone.
Gone == opc = "closed" /\ UNCHANGED vars

-----------------------------------------------------------------------------
(* workerThreadFunc.                                                       *)

WorkerAt(w, from, to) ==
  /\ wpc[w] = from
  /\ wpc' = [wpc EXCEPT ![w] = to]

LoopTest(w) ==
  /\ WorkerAt(w, "top", IF shutdown THEN "exited" ELSE "acquire")
  /\ UNCHANGED <<ownerVars, sharedVars, opc, held>>

\* Fault: the wait predicate does not look at mShutdown.
TaskQueued == taskQueue # <<>>

\* The wait predicate of mTaskCV.
TaskOrShutdown == taskQueue # <<>> \/ shutdown

TakeTask(w) ==
  /\ TaskMutexFree
  /\ TaskOrShutdown
  /\ ~shutdown
  /\ WorkerAt(w, "acquire", "download")
  /\ held' = [held EXCEPT ![w] = Head(taskQueue)]
  /\ taskQueue' = Tail(taskQueue)
  /\ UNCHANGED <<ownerVars, maxPrefetched, cache, shutdown, opc>>

LeaveLoop(w) ==
  /\ TaskMutexFree
  /\ TaskOrShutdown
  /\ shutdown
  /\ WorkerAt(w, "acquire", "exited")
  /\ UNCHANGED <<ownerVars, sharedVars, opc, held>>

\* The wait predicate is false; mTaskMutex is still held.
FindNoTask(w) ==
  /\ TaskMutexFree
  /\ ~TaskOrShutdown
  /\ WorkerAt(w, "acquire", "committed")
  /\ UNCHANGED <<ownerVars, sharedVars, opc, held>>

Sleep(w) ==
  /\ WorkerAt(w, "committed", "asleep")
  /\ UNCHANGED <<ownerVars, sharedVars, opc, held>>

\* The download, and its result stored under mCacheMutex.
StoreResult(w) ==
  /\ CacheMutexFree
  /\ WorkerAt(w, "download", "notify")
  /\ \E result \in Outcomes(held[w]) :
       cache' = [cache EXCEPT ![held[w].start] = result]
  /\ held' = [held EXCEPT ![w] = NoTask]
  /\ UNCHANGED <<ownerVars, taskQueue, maxPrefetched, shutdown, opc>>

\* notify_one() on mCacheCV, whose only possible waiter is the owner.
NotifyConsumer(w) ==
  /\ WorkerAt(w, "notify", "top")
  /\ opc' = IF opc = "waiting" THEN "lookup" ELSE opc
  /\ UNCHANGED <<ownerVars, sharedVars, held>>

-----------------------------------------------------------------------------
(* A condition variable may wake a thread that nobody notified.            *)

SpuriousWakeup ==
  \/ /\ opc = "waiting"
     /\ opc' = "lookup"
     /\ UNCHANGED <<ownerVars, sharedVars, wpc, held>>
  \/ \E w \in Workers :
       /\ WorkerAt(w, "asleep", "acquire")
       /\ UNCHANGED <<ownerVars, sharedVars, opc, held>>

-----------------------------------------------------------------------------
\* The steps the owner takes by itself, once it is in a call.
OwnerStep ==
  \/ BeginSchedule \/ PushTask \/ EndSchedule \/ StartWorkers
  \/ NextBuffered \/ NextAtEnd \/ NextNeedsBatch
  \/ TakeBatch \/ TakeFailure \/ MissBatch \/ WaitForBatch
  \/ ServeRow \/ ServeNothing
  \/ NotifyShutdown \/ FinishClose

WorkerStep(w) ==
  \/ LoopTest(w) \/ TakeTask(w) \/ LeaveLoop(w) \/ FindNoTask(w) \/ Sleep(w)
  \/ StoreResult(w) \/ NotifyConsumer(w)

Next ==
  \/ OwnerStep
  \/ BeginNext \/ BeginClose
  \/ \E w \in Workers : WorkerStep(w)
  \/ SpuriousWakeup
  \/ Gone

Spec == Init /\ [][Next]_vars

(***************************************************************************)
(* Every thread that can run again and again does run: the scheduler is    *)
(* fair, a mutex starves nobody and a download ends (the HTTP client has   *)
(* timeouts).  The application need not call, and nobody needs a spurious  *)
(* wakeup.                                                                 *)
(***************************************************************************)
Fairness ==
  /\ SF_vars(OwnerStep)
  /\ \A w \in Workers : SF_vars(WorkerStep(w))

FairSpec == Spec /\ Fairness

-----------------------------------------------------------------------------
(* Where a scheduled batch can be, by its start position.                  *)

Queued   == {taskQueue[i].start : i \in DOMAIN taskQueue}
InFlight == {held[w].start : w \in {v \in Workers : wpc[v] = "download"}}
Cached   == {s \in Positions : cache[s] # Absent}

Outstanding == Queued \cup InFlight \cup Cached

\* The key under which Next() will look for the batch after the current one.
NextKey == batch.from + batch.len

\* The current batch has fewer rows than its task asked for, but not none.
TookShortBatch == batch.len \in 1 .. CountAt(batch.from) - 1

TypeOK ==
  /\ taskQueue \in Seq(Task)
  /\ maxPrefetched \in 0 .. TotalRecords
  /\ cache \in [Positions -> Batch \cup {Absent, Failed}]
  /\ batch \in Batch
  /\ batchIndex \in 0 .. batch.len
  /\ totalRead \in Nat
  /\ shutdown \in BOOLEAN
  /\ endOfStream \in BOOLEAN
  /\ opc \in OwnerPoints
  /\ wpc \in [Workers -> WorkerPoints]
  /\ held \in [Workers -> Task \cup {NoTask}]
  /\ delivered \in Seq(Nat)
  /\ failed \in BOOLEAN

(***************************************************************************)
(* The rows fetchNextRow has returned are the first rows of the result,    *)
(* each once and in order, whatever order the workers finish in            *)
(* (tunnel.cpp, Next and workerThreadFunc).                                *)
(***************************************************************************)
InOrder ==
  /\ Len(delivered) = totalRead
  /\ \A i \in 1 .. totalRead : delivered[i] = i - 1

(***************************************************************************)
(* The end of the stream is reported without an error only when every row  *)
(* has been returned, even when the server serves short batches            *)
(* (tunnel.cpp, Next: the test of mTotalRecordsRead).                      *)
(***************************************************************************)
CompleteAtEnd == endOfStream /\ ~failed => totalRead = TotalRecords

(***************************************************************************)
(* A scheduled batch is in one place only - queued, being downloaded by    *)
(* one worker, or cached - and never again once it has been taken: no      *)
(* batch is downloaded twice and no cache entry is overwritten.            *)
(***************************************************************************)
OnePlace ==
  /\ \A i, j \in DOMAIN taskQueue :
       taskQueue[i].start = taskQueue[j].start => i = j
  /\ \A v, w \in Workers :
       /\ wpc[v] = "download" /\ wpc[w] = "download"
       /\ held[v].start = held[w].start
       => v = w
  /\ Queued \cap InFlight = {}
  /\ Cached \cap (Queued \cup InFlight) = {}
  /\ \A s \in Outstanding : s >= NextKey

(***************************************************************************)
(* The batch Next() waits for is queued, being downloaded or cached: the   *)
(* wait of Next() on mCacheCV is for something that has been asked for.    *)
(* Once a short batch has been taken this is over for good.                *)
(***************************************************************************)
AwaitedBatchScheduled ==
  opc \in {"lookup", "committed", "waiting"} /\ ~TookShortBatch =>
    totalRead \in Outstanding

(***************************************************************************)
(* A worker sleeps, or is about to, only when there is nothing to          *)
(* download: the wakeup of scheduleMoreTasksIfNeeded is never lost.        *)
(***************************************************************************)
NoSleeperWithWork ==
  taskQueue # <<>> /\ opc # "refill" =>
    \A w \in Workers : wpc[w] \notin {"committed", "asleep"}

(***************************************************************************)
(* A call of Next() returns, with a row, the end or an error, unless a     *)
(* short batch has been taken.                                             *)
(***************************************************************************)
NextReturns == (opc \in InNext) ~> (opc = "idle" \/ TookShortBatch)

(***************************************************************************)
(* A worker that is not in its wait when Close() sets mShutdown exits.     *)
(***************************************************************************)
BusyWorkerExits ==
  \A w \in Workers :
    (shutdown /\ wpc[w] \notin {"committed", "asleep"}) ~> (wpc[w] = "exited")

(***************************************************************************)
(* tunnel.cpp, Close: "Wake up all waiting threads so they can exit        *)
(* gracefully", and then Close() joins them.                               *)
(***************************************************************************)
CloseReturns == (opc = "notify") ~> (opc = "closed")

(***************************************************************************)
(* The reader is a row cursor: the refinement mapping.                     *)
(***************************************************************************)
CursorStatus ==
  CASE opc \in {"notify", "join", "closed"} -> "closed"
    [] OTHER -> IF failed THEN "failed" ELSE IF endOfStream THEN "exhausted" ELSE "open"

Cursor == INSTANCE RowCursor WITH
  total   <- TotalRecords,
  MayFail <- MayFail \/ MayTruncate,
  pending <- opc \in InNext \/ (opc \in {"schedule", "refill"} /\ WorkersCreated),
  status  <- CursorStatus

(***************************************************************************)
(* Every step of the reader is one of the row cursor: a server that serves *)
(* short batches can stop the reader, never make it skip or repeat a row   *)
(* (models.h, ResultStream::fetchNextRow).                                 *)
(***************************************************************************)
ImplementsCursorSafe == Cursor!CursorSafe
=============================================================================
