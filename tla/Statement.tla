------------------------------ MODULE Statement ------------------------------
(***************************************************************************)
(* One ODBC statement handle (StmtHandle, handles.cpp) under any sequence  *)
(* of legal calls: prepare, execute, catalog functions, fetch, bind, free  *)
(* and allocate again, with the connection opened and closed around it.    *)
(*                                                                         *)
(* A call runs to its end before the next one begins, so a call is one     *)
(* step.  The result stream answers a fetch as module RowCursor says: the  *)
(* next row, the end or an error.  A row is known by the result it belongs *)
(* to and its index there.  A stream that has outlived its connection is   *)
(* undefined behaviour on its first fetch (ResultStreamImpl keeps a        *)
(* reference to the client): what can still be observed is an answer a     *)
(* live stream could give, so it has no action of its own.                 *)
(***************************************************************************)
EXTENDS Integers, Sequences

CONSTANTS MaxExecutions,   \* bound: results opened over the life of the model
          MaxRows,         \* bound: rows of a result
          MaxColumns,      \* bound: columns of a result
          NoStream,        \* m_result_stream is null
          NoRow            \* m_current_row has no value

Stream == [id : 1 .. MaxExecutions, tunnel : BOOLEAN, rows : 0 .. MaxRows,
           columns : 1 .. MaxColumns, pos : 0 .. MaxRows, ended : BOOLEAN,
           failed : BOOLEAN]
Row    == [id : 1 .. MaxExecutions, index : Nat]

ASSUME StatementAssumption ==
  /\ MaxExecutions \in Nat /\ MaxRows \in Nat /\ MaxColumns \in Nat \ {0}
  /\ NoStream \notin Stream /\ NoRow \notin Row

VARIABLES
  alive,         \* the handle is allocated
  connected,     \* the parent ConnHandle has an SDK client
  prepared,      \* m_prepared_sql is not empty
  stream,        \* m_result_stream: pos rows taken; ended is m_end_of_stream of
                 \* a tunnel stream; id and failed are history
  currentRow,    \* m_current_row
  endOfStream,   \* m_end_of_stream of the handle
  fetchedRows,   \* m_fetched_rows
  bindings,      \* m_bindings: for each column, whether it has a buffer
  answer,        \* the last call and its return code
  executions,    \* history: results opened so far
  before,        \* history: fetchedRows when the current result was opened
  lost,          \* history: rows of the current result that failed to convert
  endedBy,       \* history: the result whose end set endOfStream, 0 for none
  closed         \* history: SQL_CLOSE was called after that end

rowVars == <<currentRow, endOfStream, fetchedRows, bindings>>
history == <<executions, before, lost, endedBy, closed>>
vars == <<alive, connected, prepared, stream, rowVars, answer, history>>

Return(call, code) == answer' = [call |-> call, code |-> code]

Init ==
  /\ alive = TRUE
  /\ connected \in BOOLEAN
  /\ prepared = FALSE
  /\ stream = NoStream
  /\ currentRow = NoRow
  /\ endOfStream = FALSE
  /\ fetchedRows = 0
  /\ bindings = <<>>
  /\ answer = [call |-> "SQLAllocHandle", code |-> "SUCCESS"]
  /\ executions = 0 /\ before = 0 /\ lost = 0 /\ endedBy = 0 /\ closed = FALSE

-----------------------------------------------------------------------------
(* The connection and the life of the handle.                              *)

Connect ==
  /\ ~connected
  /\ connected' = TRUE
  /\ UNCHANGED <<alive, prepared, stream, rowVars, answer, history>>

\* ConnHandle::disconnect drops the client and leaves the statements alone.
Disconnect ==
  /\ connected
  /\ connected' = FALSE
  /\ UNCHANGED <<alive, prepared, stream, rowVars, answer, history>>

\* SQLFreeHandle, or SQLFreeStmt with SQL_DROP: the object is destroyed.
FreeHandle ==
  /\ alive
  /\ alive' = FALSE
  /\ prepared' = FALSE
  /\ stream' = NoStream
  /\ currentRow' = NoRow
  /\ endOfStream' = FALSE
  /\ fetchedRows' = 0
  /\ bindings' = <<>>
  /\ before' = 0 /\ lost' = 0 /\ endedBy' = 0 /\ closed' = FALSE
  /\ Return("SQLFreeHandle", "SUCCESS")
  /\ UNCHANGED <<connected, executions>>

AllocHandle ==
  /\ ~alive
  /\ alive' = TRUE
  /\ Return("SQLAllocHandle", "SUCCESS")
  /\ UNCHANGED <<connected, prepared, stream, rowVars, history>>

\* The other options of SQLFreeStmt change nothing in the handle.
FreeStmt(option) ==
  /\ alive
  /\ closed' = (closed \/ (endOfStream /\ option = "SQL_CLOSE"))
  /\ Return("SQLFreeStmt", "SUCCESS")
  /\ UNCHANGED <<alive, connected, prepared, stream, rowVars, executions, before,
                 lost, endedBy>>

-----------------------------------------------------------------------------
(* Calls that open a result.  They replace m_result_stream and nothing     *)
(* else: the row, the end flag, the counter and the bindings stay.         *)

OpenResult(isTunnel) ==
  /\ executions < MaxExecutions
  /\ executions' = executions + 1
  /\ \E n \in 0 .. MaxRows, c \in 1 .. MaxColumns :
       stream' = [id |-> executions', tunnel |-> isTunnel, rows |-> n,
                  columns |-> c, pos |-> 0, ended |-> FALSE, failed |-> FALSE]
  /\ before' = fetchedRows
  /\ lost' = 0
  /\ UNCHANGED <<rowVars, endedBy, closed>>

KeepResult == UNCHANGED <<stream, rowVars, history>>

DropResult == stream' = NoStream /\ UNCHANGED <<rowVars, history>>

\* executeQuery, with the client of the connection: a tunnel stream for a SELECT,
\* a static one for other statements.
Query(call) ==
  /\ connected
  /\ \/ \E isTunnel \in BOOLEAN : OpenResult(isTunnel) /\ Return(call, "SUCCESS")
     \/ KeepResult /\ Return(call, "ERROR")

Prepare ==
  /\ alive
  /\ prepared' \in BOOLEAN
  /\ Return("SQLPrepare", "SUCCESS")
  /\ UNCHANGED <<alive, connected, stream, rowVars, history>>

Execute ==
  /\ alive
  /\ \/ prepared /\ Query("SQLExecute")
     \/ ~(prepared /\ connected) /\ KeepResult /\ Return("SQLExecute", "ERROR")
  /\ UNCHANGED <<alive, connected, prepared>>

ExecuteDirect ==
  /\ alive
  /\ \/ Query("SQLExecDirect")
     \/ ~connected /\ KeepResult /\ Return("SQLExecDirect", "ERROR")
  /\ UNCHANGED <<alive, connected, prepared>>

\* A text that is empty or blank, through SQLExecDirect.
ExecuteDirectEmpty ==
  /\ alive
  /\ connected
  /\ DropResult
  /\ Return("SQLExecDirect of an empty text", "SUCCESS")
  /\ UNCHANGED <<alive, connected, prepared>>

\* An empty text through SQLExecDirectW, which returns before the handle sees it.
ExecuteDirectEmptyW ==
  /\ alive
  /\ KeepResult
  /\ Return("SQLExecDirectW of an empty text", "SUCCESS")
  /\ UNCHANGED <<alive, connected, prepared>>

Tables ==
  /\ alive
  /\ \/ connected /\ OpenResult(FALSE) /\ Return("SQLTables", "SUCCESS")
     \/ KeepResult /\ Return("SQLTables", "ERROR")
  /\ UNCHANGED <<alive, connected, prepared>>

\* columns() drops the old result before anything can fail.
Columns ==
  /\ alive
  /\ \/ connected /\ OpenResult(FALSE) /\ Return("SQLColumns", "SUCCESS")
     \/ DropResult /\ Return("SQLColumns", "ERROR")
  /\ UNCHANGED <<alive, connected, prepared>>

-----------------------------------------------------------------------------
(* Column bindings.                                                        *)

Resized(n) == [c \in 1 .. n |-> c \in DOMAIN bindings /\ bindings[c]]

\* A null buffer unbinds the column.  A number past both the vector and the
\* columns of the result indexes out of bounds, and is not a call made here.
BindCol(c, hasBuffer) ==
  /\ alive
  /\ stream # NoStream
  /\ c \in 1 .. stream.columns \cup DOMAIN bindings
  /\ LET room == IF c \in DOMAIN bindings THEN bindings ELSE Resized(stream.columns)
     IN  bindings' = [room EXCEPT ![c] = hasBuffer]
  /\ Return("SQLBindCol", "SUCCESS")
  /\ UNCHANGED <<alive, connected, prepared, stream, currentRow, endOfStream,
                 fetchedRows, history>>

BindRefused ==
  /\ alive
  /\ stream = NoStream
  /\ Return("SQLBindCol", "ERROR")
  /\ UNCHANGED <<alive, connected, prepared, stream, rowVars, history>>

-----------------------------------------------------------------------------
(* SQLFetch.                                                               *)

\* Fault: the last row is taken for the end.
EndOneEarly == stream.ended \/ stream.pos + 1 >= stream.rows

\* Fault: the index of a static stream is not compared with its rows.
EndIfFlagged == stream.ended

\* Fault: the end is answered like a row.
EndAsSuccess == "SUCCESS"

EndAnswer == "NO_DATA"

\* fetchNextRow has nothing more to give.
StreamAtEnd == stream.ended \/ stream.pos = stream.rows

FetchRefused ==
  /\ alive
  /\ stream = NoStream
  /\ Return("SQLFetch", "ERROR")
  /\ UNCHANGED <<alive, connected, prepared, stream, rowVars, history>>

FetchAfterEnd ==
  /\ alive
  /\ stream # NoStream
  /\ endOfStream
  /\ Return("SQLFetch", EndAnswer)
  /\ UNCHANGED <<alive, connected, prepared, stream, rowVars, history>>

\* The stream is asked.
Asked == alive /\ stream # NoStream /\ ~endOfStream

FetchEnd ==
  /\ Asked
  /\ StreamAtEnd
  /\ stream' = [stream EXCEPT !.ended = stream.tunnel]
  /\ currentRow' = NoRow
  /\ endOfStream' = TRUE
  /\ endedBy' = stream.id
  /\ Return("SQLFetch", EndAnswer)
  /\ UNCHANGED <<alive, connected, prepared, fetchedRows, bindings, executions,
                 before, lost, closed>>

\* Fault: the stream stays open after an error.
FailedOpen == [stream EXCEPT !.failed = TRUE]

FailedStream == [stream EXCEPT !.ended = TRUE, !.failed = TRUE]

\* A tunnel stream fails while it waits for the query, opens its download session
\* (both before the first row) or downloads rows.
FetchFails ==
  /\ Asked
  /\ stream.tunnel /\ ~stream.ended
  /\ stream.pos < stream.rows \/ stream.rows = 0
  /\ stream' = FailedStream
  /\ Return("SQLFetch", "ERROR")
  /\ UNCHANGED <<alive, connected, prepared, rowVars, history>>

MovedStream == [stream EXCEPT !.pos = @ + 1]

\* Fault: the index moves before the row is taken.
RowAfterNext == [id |-> stream.id, index |-> stream.pos + 1]

NextRow == [id |-> stream.id, index |-> stream.pos]

\* A row is taken from the stream; the bindings get the size of the row.
TakeRow ==
  /\ Asked
  /\ ~StreamAtEnd
  /\ stream' = MovedStream
  /\ currentRow' = NextRow
  /\ bindings' = Resized(stream.columns)
  /\ UNCHANGED <<alive, connected, prepared, endOfStream, executions, before,
                 endedBy, closed>>

\* Every bound column is converted.
FetchConverted ==
  /\ TakeRow
  /\ fetchedRows' = fetchedRows + 1
  /\ Return("SQLFetch", "SUCCESS")
  /\ UNCHANGED lost

\* Fault: a row is counted before it is converted.
CountedAnyway == fetchedRows + 1

NotCounted == fetchedRows

\* A bound column is not: SQL_ERROR also for a string that is only truncated, and
\* the row is gone.
FetchNotConverted ==
  /\ TakeRow
  /\ \E c \in DOMAIN bindings' : bindings'[c]
  /\ fetchedRows' = NotCounted
  /\ lost' = lost + 1
  /\ Return("SQLFetch", "ERROR")

Fetch ==
  \/ FetchRefused \/ FetchAfterEnd \/ FetchEnd \/ FetchFails
  \/ FetchConverted \/ FetchNotConverted

-----------------------------------------------------------------------------
(* SQLGetData converts a column of m_current_row, whose row it is.         *)

GetData ==
  /\ alive
  /\ \/ stream # NoStream /\ currentRow # NoRow /\ Return("SQLGetData", "SUCCESS")
     \/ Return("SQLGetData", "ERROR")
  /\ UNCHANGED <<alive, connected, prepared, stream, rowVars, history>>

-----------------------------------------------------------------------------
Next ==
  \/ Connect \/ Disconnect \/ FreeHandle \/ AllocHandle
  \/ \E option \in {"SQL_CLOSE", "SQL_UNBIND", "SQL_RESET_PARAMS"} : FreeStmt(option)
  \/ Prepare \/ Execute
  \/ ExecuteDirect \/ ExecuteDirectEmpty \/ ExecuteDirectEmptyW
  \/ Tables \/ Columns
  \/ \E c \in 1 .. MaxColumns, hasBuffer \in BOOLEAN : BindCol(c, hasBuffer)
  \/ BindRefused
  \/ Fetch
  \/ GetData

Spec == Init /\ [][Next]_vars

\* The application calls SQLFetch in a loop, as docs/usage.md shows.
FairSpec == Spec /\ WF_vars(Fetch)

-----------------------------------------------------------------------------
Calls ==
  {"SQLAllocHandle", "SQLFreeHandle", "SQLFreeStmt", "SQLPrepare", "SQLExecute",
   "SQLExecDirect", "SQLExecDirect of an empty text",
   "SQLExecDirectW of an empty text", "SQLTables", "SQLColumns", "SQLBindCol",
   "SQLFetch", "SQLGetData"}

Answers == [call : Calls, code : {"SUCCESS", "ERROR", "NO_DATA"}]

TypeOK ==
  /\ alive \in BOOLEAN
  /\ connected \in BOOLEAN
  /\ prepared \in BOOLEAN
  /\ stream \in Stream \cup {NoStream}
  /\ stream # NoStream => stream.pos <= stream.rows
  /\ currentRow \in Row \cup {NoRow}
  /\ endOfStream \in BOOLEAN
  /\ fetchedRows \in Nat
  /\ bindings \in Seq(BOOLEAN)
  /\ answer \in Answers
  /\ executions \in 0 .. MaxExecutions
  /\ before \in Nat /\ lost \in Nat
  /\ endedBy \in 0 .. MaxExecutions
  /\ closed \in BOOLEAN

(***************************************************************************)
(* Once a row of the open result has been fetched, the row SQLGetData      *)
(* reads is the last one taken from it, also when its conversion failed,   *)
(* when a later fetch failed or when other calls failed in between         *)
(* (handles.cpp, fetch and getData).                                       *)
(***************************************************************************)
CurrentRowIsLastTaken ==
  stream # NoStream /\ stream.pos > 0 /\ currentRow # NoRow =>
    currentRow = [id |-> stream.id, index |-> stream.pos - 1]

(***************************************************************************)
(* The end that a result sets on its handle is true: every row has been    *)
(* taken, or a fetch of this result has returned an error                  *)
(* (handles.cpp, fetch; client.cpp, fetchNextRow).                         *)
(***************************************************************************)
EndIsTrue ==
  endOfStream /\ stream # NoStream /\ endedBy = stream.id =>
    stream.pos = stream.rows \/ stream.failed

(***************************************************************************)
(* Each row taken from the open result was either returned and counted by  *)
(* SQLRowCount, on top of what earlier results left in the counter, or     *)
(* reported as an error (handles.cpp, fetch and getRowCount).              *)
(***************************************************************************)
RowsAccountedFor ==
  stream # NoStream => stream.pos = (fetchedRows - before) + lost

(***************************************************************************)
(* After a fetch has failed in the stream no row of that result is ever    *)
(* returned: the rows the application has seen have no hole (client.cpp,   *)
(* fetchNextRow: m_end_of_stream).                                         *)
(***************************************************************************)
NoRowAfterError ==
  [][stream # NoStream /\ stream.failed /\ stream' # NoStream /\ stream'.id = stream.id
       => stream'.pos = stream.pos]_vars

(***************************************************************************)
(* An application that keeps fetching sees something other than            *)
(* SQL_SUCCESS before the result is replaced or dropped, whatever other    *)
(* calls it makes in between: the loop of docs/usage.md ends.              *)
(***************************************************************************)
Open(id) == stream # NoStream /\ stream.id = id

FetchLoopEnds ==
  \A id \in 1 .. MaxExecutions :
    Open(id) ~> ~Open(id) \/ (answer.call = "SQLFetch" /\ answer.code # "SUCCESS")

(***************************************************************************)
(* SQLFreeStmt ignores SQL_CLOSE "as we don't maintain cursor state"       *)
(* (entry_points.cpp): after SQL_CLOSE of the result that ended, a fetch   *)
(* of the next result says that there is no data only when this is true of *)
(* that result.                                                            *)
(***************************************************************************)
CloseLeavesNoCursorState ==
  answer = [call |-> "SQLFetch", code |-> "NO_DATA"] /\ closed =>
    stream.pos = stream.rows \/ stream.failed
=============================================================================
