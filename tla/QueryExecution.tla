--------------------------- MODULE QueryExecution ---------------------------
(***************************************************************************)
(* One call of MaxComputeClient::executeQuery and the life of the result   *)
(* stream it returns (client.cpp), against the server.                     *)
(*                                                                         *)
(* The client is one thread and sends one request at a time.  The server   *)
(* goes on between two requests.  A request may fail before the server     *)
(* has acted on it or after: for a request that reads it is all the same,  *)
(* for one that submits it is not.  The reader of the rows is module       *)
(* RecordReader, here by its answers and by its one way of giving none; a  *)
(* static result is complete when it is handed out and its fetches are in  *)
(* module Statement.                                                       *)
(***************************************************************************)
EXTENDS Integers, Sequences

CONSTANTS MaxPolls,       \* MAX_RETRY of waitForSuccess
          RowCounts,      \* how many rows a query may have
          IntRange,       \* the values of an int: half of them are negative
          CountRange,     \* the values of mRecordCount, a uint64_t
          NoInstance      \* the client knows no instance

ASSUME QueryAssumption ==
  /\ MaxPolls \in Nat \ {0}
  /\ RowCounts \subseteq Nat
  /\ IntRange \in Nat \ {0} /\ CountRange \in Nat /\ CountRange >= IntRange
  /\ NoInstance \notin Nat

Config == [interactive : BOOLEAN,      \* interactiveMode
           quota : BOOLEAN,            \* quotaName is set
           settings : BOOLEAN,         \* the query or the connection has settings
           tunnelEndpoint : BOOLEAN,   \* tunnelEndpoint is set
           tabular : BOOLEAN,          \* the query is one that has rows
           rows : RowCounts,           \* how many, on the server
           counted : BOOLEAN]          \* the session's answer says how many

Hints == {"default schema", "settings", "quota", "json format"}

InstanceStatus == {"Running", "Success", "Terminated", "Failed", "Unknown"}

Instance == {i \in [kind : {"explain", "query"}, hints : SUBSET Hints,
                    status : InstanceStatus, passed : BOOLEAN] :
               i.passed => i.status = "Terminated"}

VARIABLES
  config,        \* what the call is made with, and meets; it does not change
  instances,     \* the server's instances, in the order it accepted them; passed:
                 \* terminated and no task has failed
  pc,            \* where the client is
  goal,          \* what waitForSuccess is called for
  hints,         \* options->hints of original_request, shared with the explain one
  instance,      \* the id in the client's hands
  known,         \* Instance::status as the client knows it
  polls,         \* iterations of the polling loop
  endOfStream,   \* m_end_of_stream
  initialized,   \* m_stream_initialized
  delivered,     \* history: the rows returned by fetchNextRow
  failed         \* history: a call of fetchNextRow returned an error

requestVars == <<hints, instance, known, polls>>
streamVars  == <<endOfStream, initialized, delivered, failed>>
vars == <<config, instances, pc, goal, requestVars, streamVars>>

\* The points inside a call of executeQuery or fetchNextRow.
Busy == {"settings", "quota", "explain", "schema", "submit", "wait", "poll", "task",
         "raw", "endpoint", "session", "read", "starved"}

Points == Busy \cup {"refused", "static", "ready", "dropped"}

Init ==
  /\ config \in Config
  /\ instances = <<>>
  /\ pc = "settings"
  /\ goal = "explain"
  /\ hints = {}
  /\ instance = NoInstance
  /\ known = "Unknown"
  /\ polls = 0
  /\ endOfStream = FALSE /\ initialized = FALSE
  /\ delivered = <<>> /\ failed = FALSE

-----------------------------------------------------------------------------
(* The server works by itself.                                             *)

Progress(i) ==
  /\ instances[i].status = "Running"
  /\ \E s \in InstanceStatus \ {"Running"}, p \in BOOLEAN :
       /\ p => s = "Terminated"
       /\ instances' = [instances EXCEPT ![i].status = s, ![i].passed = p]
  /\ UNCHANGED <<config, pc, goal, requestVars, streamVars>>

-----------------------------------------------------------------------------
(* How a call ends in an error.                                            *)

\* Fault: the stream can still be asked.
StillOpen == FALSE

EndedByError == TRUE

Fail ==
  /\ \/ /\ goal = "fetch"
        /\ endOfStream' = EndedByError
        /\ failed' = TRUE
        /\ pc' = "ready"
     \/ /\ goal # "fetch"
        /\ pc' = "refused"
        /\ UNCHANGED <<endOfStream, failed>>
  /\ UNCHANGED <<config, instances, goal, requestVars, initialized, delivered>>

\* Fault: one poll too many.
OnePollMore == polls <= MaxPolls

PollsLeft == polls < MaxPolls

\* A request that was not sent, not answered or not understood.
RequestFails ==
  /\ pc \in {"quota", "explain", "schema", "submit", "poll", "task", "raw", "endpoint",
            "session", "read"}
  /\ pc = "quota" => config.interactive
  /\ pc = "poll" => PollsLeft
  /\ pc = "endpoint" => ~config.tunnelEndpoint
  /\ Fail

-----------------------------------------------------------------------------
(* executeQuery.                                                           *)

\* Settings of the query or of the connection start a second set of hints.
ParseSettings ==
  /\ pc = "settings"
  /\ hints' = IF config.settings THEN {"settings"} ELSE {"default schema"}
  /\ pc' = "quota"
  /\ UNCHANGED <<config, instances, goal, instance, known, polls, streamVars>>

\* An interactive query asks for a session of its own; another one may carry the
\* quota as a hint.
ChooseQuota ==
  /\ pc = "quota"
  /\ hints' = hints \cup (IF config.quota /\ ~config.interactive THEN {"quota"} ELSE {})
  /\ pc' = "explain"
  /\ UNCHANGED <<config, instances, goal, instance, known, polls, streamVars>>

\* submitQuery: the server accepts an instance and says whether it has already
\* terminated, or the answer is lost, or does not name the instance.  A Location
\* header, when there is one, is taken to name it.
Accept(kind, with) ==
  \E s \in {"Running", "Terminated"}, p \in BOOLEAN :
    /\ p => s = "Terminated"
    /\ instances' = Append(instances,
                      [kind |-> kind, hints |-> with, status |-> s, passed |-> p])
    /\ known' = s

\* Fault: a submission that got no answer is sent again.
Resubmit == pc

AfterLostAnswer == "refused"

LoseAnswer(kind, with) ==
  /\ Accept(kind, with)
  /\ pc' = AfterLostAnswer
  /\ UNCHANGED <<config, goal, hints, instance, polls, streamVars>>

\* Fault: the hints are moved into the explain request.
MovedHints == {}

\* getSchemaJson copies the request, not the hints it points to.
SharedHints == hints \cup {"json format"}

Explain ==
  /\ pc = "explain"
  /\ Accept("explain", hints \cup {"json format"})
  /\ instance' = Len(instances')
  /\ hints' = SharedHints
  /\ pc' = "wait"
  /\ UNCHANGED <<config, goal, polls, streamVars>>

ExplainLost == pc = "explain" /\ LoseAnswer("explain", hints \cup {"json format"})

\* The schema of the rows, or the word that there is nothing to explain.
ReadSchema ==
  /\ pc = "schema"
  /\ pc' = "submit"
  /\ UNCHANGED <<config, instances, goal, requestVars, streamVars>>

\* The query itself; the stream of a query that has rows is handed out at once.
SubmitQuery ==
  /\ pc = "submit"
  /\ Accept("query", hints)
  /\ instance' = Len(instances')
  /\ goal' = IF config.tabular THEN "fetch" ELSE "query"
  /\ pc' = IF config.tabular THEN "ready" ELSE "wait"
  /\ UNCHANGED <<config, hints, polls, streamVars>>

QueryLost == pc = "submit" /\ LoseAnswer("query", hints)

-----------------------------------------------------------------------------
(* waitForSuccess.                                                         *)

BeginWait ==
  /\ pc = "wait"
  /\ polls' = 0
  /\ pc' = IF known = "Terminated" THEN "task" ELSE "poll"
  /\ UNCHANGED <<config, instances, goal, hints, instance, known, streamVars>>

Status == instances[instance].status

\* Fault: the iterations are not counted.
Uncounted == polls

PollCounted == polls + 1

\* A status that says neither the end nor a failure; "Success" is one of them.
PollAgain ==
  /\ pc = "poll"
  /\ PollsLeft
  /\ Status \in {"Running", "Success"}
  /\ known' = Status
  /\ polls' = PollCounted
  /\ UNCHANGED <<config, instances, pc, goal, hints, instance, streamVars>>

PollTerminated ==
  /\ pc = "poll"
  /\ PollsLeft
  /\ Status = "Terminated"
  /\ known' = Status
  /\ pc' = "task"
  /\ UNCHANGED <<config, instances, goal, hints, instance, polls, streamVars>>

PollFailed == pc = "poll" /\ PollsLeft /\ Status \in {"Failed", "Unknown"} /\ Fail

GiveUp == pc = "poll" /\ ~PollsLeft /\ Fail

\* Fault: the status of the instance is enough.
TerminatedIsEnough == TRUE

TasksPassed == instances[instance].passed

\* getTaskStatus; what comes next is the caller's.
TaskPassed ==
  /\ pc = "task"
  /\ TasksPassed
  /\ pc' = CASE goal = "explain" -> "schema"
             [] goal = "query"   -> "raw"
             [] goal = "fetch"   -> "endpoint"
  /\ UNCHANGED <<config, instances, goal, requestVars, streamVars>>

TaskFailed == pc = "task" /\ ~TasksPassed /\ Fail

-----------------------------------------------------------------------------
(* The end of executeQuery for a query without rows.                       *)

ReadRawResult ==
  /\ pc = "raw"
  /\ pc' = "static"
  /\ UNCHANGED <<config, instances, goal, requestVars, streamVars>>

-----------------------------------------------------------------------------
(* fetchNextRow, while the stream has not ended; after that it answers     *)
(* that it has, and changes nothing.                                       *)

BeginFetch ==
  /\ pc = "ready"
  /\ ~endOfStream
  /\ pc' = IF initialized THEN "read" ELSE "wait"
  /\ UNCHANGED <<config, instances, goal, requestVars, streamVars>>

\* DownloadSession: the endpoint is configured or asked for ...
FindEndpoint ==
  /\ pc = "endpoint"
  /\ pc' = "session"
  /\ UNCHANGED <<config, instances, goal, requestVars, streamVars>>

\* FromJson reads the RecordCount as an int, 0 when it is missing, and keeps it as a
\* uint64_t.  The status of the session, which may still be INITIATING, is not looked
\* at; nor does anything compare the count with the rows the server has.
AsCount(n) ==
  LET low == n % IntRange
  IN  IF 2 * low < IntRange THEN low ELSE CountRange - IntRange + low

recordCount == IF config.counted THEN AsCount(config.rows) ELSE 0

\* ... and a session is opened on it; the reader is built on the session.
OpenSession ==
  /\ pc = "session"
  /\ initialized' = TRUE
  /\ pc' = "read"
  /\ UNCHANGED <<config, instances, goal, requestVars, endOfStream, delivered, failed>>

ReadRow ==
  /\ pc = "read"
  /\ Len(delivered) < recordCount /\ Len(delivered) < config.rows
  /\ delivered' = Append(delivered, Len(delivered))
  /\ pc' = "ready"
  /\ UNCHANGED <<config, instances, goal, requestVars, endOfStream, initialized, failed>>

ReadEnd ==
  /\ pc = "read"
  /\ Len(delivered) = recordCount
  /\ endOfStream' = TRUE
  /\ pc' = "ready"
  /\ UNCHANGED <<config, instances, goal, requestVars, initialized, delivered, failed>>

\* The batch before has been cut short by the server: Next() waits for a batch that
\* nobody asked for, and the call does not return (RecordReader, TookShortBatch).
ReadStarves ==
  /\ pc = "read"
  /\ Len(delivered) \in 1 .. recordCount - 1
  /\ pc' = "starved"
  /\ UNCHANGED <<config, instances, goal, requestVars, streamVars>>

\* The statement replaces or drops the stream.
DropStream ==
  /\ pc = "ready"
  /\ pc' = "dropped"
  /\ UNCHANGED <<config, instances, goal, requestVars, streamVars>>

\* Nothing is left to do, or nothing can be done.
Done == pc \in {"refused", "static", "dropped", "starved"} /\ UNCHANGED vars

-----------------------------------------------------------------------------
ExecuteStep ==
  \/ ParseSettings \/ ChooseQuota \/ Explain \/ ExplainLost \/ ReadSchema
  \/ SubmitQuery \/ QueryLost \/ ReadRawResult

WaitStep ==
  \/ BeginWait \/ PollAgain \/ PollTerminated \/ PollFailed \/ GiveUp
  \/ TaskPassed \/ TaskFailed

FetchStep == FindEndpoint \/ OpenSession \/ ReadRow \/ ReadEnd \/ ReadStarves

ClientStep == ExecuteStep \/ WaitStep \/ FetchStep

Next ==
  \/ ClientStep \/ RequestFails
  \/ BeginFetch \/ DropStream
  \/ \E i \in DOMAIN instances : Progress(i)
  \/ Done

Spec == Init /\ [][Next]_vars

(***************************************************************************)
(* Every request is answered or times out (connectTimeout, readTimeout),   *)
(* so the client's thread goes on, and need not fail to do so - but for a  *)
(* wait of the reader that nobody ends, which is a step of this thread     *)
(* too, and its last.  Neither the server's work nor the application's     *)
(* next call is promised.                                                  *)
(***************************************************************************)
FairSpec == Spec /\ WF_vars(ClientStep)

-----------------------------------------------------------------------------
TypeOK ==
  /\ config \in Config
  /\ instances \in Seq(Instance)
  /\ pc \in Points
  /\ goal \in {"explain", "query", "fetch"}
  /\ hints \subseteq Hints
  /\ instance \in (DOMAIN instances) \cup {NoInstance}
  /\ known \in InstanceStatus
  /\ polls \in 0 .. MaxPolls
  /\ endOfStream \in BOOLEAN /\ initialized \in BOOLEAN /\ failed \in BOOLEAN
  /\ delivered \in Seq(Nat)

(***************************************************************************)
(* A download session is opened, and a raw result handed out, only for the *)
(* instance of the query itself, after it has terminated and none of its   *)
(* tasks has failed (client.cpp, waitForSuccess and its callers).          *)
(***************************************************************************)
Succeeded(i) == instances[i].status = "Terminated" /\ instances[i].passed

ResultOnlyOfSuccess ==
  pc \in {"endpoint", "session", "read", "static"} \/ initialized =>
    /\ instance # NoInstance
    /\ instances[instance].kind = "query"
    /\ Succeeded(instance)

(***************************************************************************)
(* Whatever is lost, the server runs the query at most once, and only      *)
(* after it has explained it (client.cpp, executeQuery): a statement that  *)
(* changes data is not run twice.                                          *)
(***************************************************************************)
RunsOnce ==
  \A i \in DOMAIN instances : instances[i].kind = "query" =>
    /\ \A j \in DOMAIN instances : instances[j].kind = "query" => j = i
    /\ \E k \in DOMAIN instances : instances[k].kind = "explain" /\ Succeeded(k)

(***************************************************************************)
(* The schema the application is told was worked out under the settings    *)
(* the query runs with (client.cpp, getSchemaJson: the two requests share  *)
(* their hints).                                                           *)
(***************************************************************************)
ExplainedAsRun ==
  \A i, j \in DOMAIN instances : instances[i].hints = instances[j].hints

(***************************************************************************)
(* executeQuery and fetchNextRow return, even when the server never        *)
(* finishes the query (client.cpp, waitForSuccess); the one exception is a *)
(* fetch after a batch that the server cut short, and nothing but a fetch  *)
(* is exposed to it: the loop of the wait is never the reason.             *)
(***************************************************************************)
CallsReturn == (pc \in Busy) ~> (pc \notin Busy \/ pc = "starved")

(***************************************************************************)
(* The stream of a query with rows is a row cursor, also through its lazy  *)
(* initialisation, over the rows the session was understood to have        *)
(* (models.h, ResultStream; client.cpp, ResultStreamImpl): what a step of  *)
(* initialising it leaves behind makes no fetch repeat or skip a row, or   *)
(* go on after an error.                                                   *)
(***************************************************************************)
CursorStatus ==
  IF pc = "dropped" THEN "closed"
  ELSE IF failed THEN "failed"
  ELSE IF endOfStream THEN "exhausted" ELSE "open"

Cursor == INSTANCE RowCursor WITH
  MayFail <- TRUE,
  total   <- recordCount,
  pending <- goal = "fetch" /\ pc \in Busy,
  status  <- CursorStatus

ImplementsCursorSafe == Cursor!CursorSafe

(***************************************************************************)
(* README.md: the connection's Schema is the "default schema" of its       *)
(* queries: every request the server accepts names it.                     *)
(***************************************************************************)
DefaultSchemaSent ==
  \A i \in DOMAIN instances : "default schema" \in instances[i].hints
=============================================================================
