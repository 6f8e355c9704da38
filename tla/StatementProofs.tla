--------------------------- MODULE StatementProofs ---------------------------
(***************************************************************************)
(* The statement handle for every number of results, rows and columns.     *)
(***************************************************************************)
EXTENDS Statement, TLAPS

-----------------------------------------------------------------------------
(* Typing.                                                                 *)

\* The vector of bindings after it has been given the size of a row.
LEMMA ResizedType ==
  ASSUME TypeOK, NEW n \in Nat
  PROVE  Resized(n) \in Seq(BOOLEAN) /\ DOMAIN Resized(n) = 1 .. n
<1>1. \A c \in 1 .. n : (c \in DOMAIN bindings /\ bindings[c]) \in BOOLEAN
  OBVIOUS
<1>2. Resized(n) \in [1 .. n -> BOOLEAN]
  BY <1>1, Zenon DEF Resized
<1>. QED  BY <1>2

\* A result that has just been opened is a stream.
LEMMA OpenType ==
  ASSUME TypeOK, NEW isTunnel \in BOOLEAN, OpenResult(isTunnel)
  PROVE  /\ stream' \in Stream
         /\ stream'.pos = 0 /\ ~stream'.ended /\ ~stream'.failed
         /\ stream'.id = executions'
         /\ executions' = executions + 1 /\ executions' \in 1 .. MaxExecutions
         /\ before' = fetchedRows /\ lost' = 0
         /\ UNCHANGED <<rowVars, endedBy, closed>>
<1>1. executions' = executions + 1 /\ executions' \in 1 .. MaxExecutions
  BY StatementAssumption DEF OpenResult, TypeOK
<1>2. PICK n \in 0 .. MaxRows, c \in 1 .. MaxColumns :
        stream' = [id |-> executions', tunnel |-> isTunnel, rows |-> n,
                   columns |-> c, pos |-> 0, ended |-> FALSE, failed |-> FALSE]
  BY DEF OpenResult
<1>3. 0 \in 0 .. MaxRows
  BY StatementAssumption
<1>4. stream' \in Stream
  BY <1>1, <1>2, <1>3 DEF Stream
<1>. QED  BY <1>1, <1>2, <1>4 DEF OpenResult

\* A row that is taken moves a stream that is open by one.
LEMMA TakeType ==
  ASSUME TypeOK, TakeRow
  PROVE  /\ stream \in Stream /\ stream.pos < stream.rows /\ ~stream.ended
         /\ stream' \in Stream /\ stream' = [stream EXCEPT !.pos = stream.pos + 1]
         /\ stream'.pos = stream.pos + 1
         /\ stream'.rows = stream.rows /\ stream'.id = stream.id
         /\ stream'.ended = stream.ended /\ stream'.failed = stream.failed
         /\ stream'.tunnel = stream.tunnel
         /\ currentRow' \in Row
         /\ currentRow' = [id |-> stream.id, index |-> stream.pos]
         /\ bindings' \in Seq(BOOLEAN)
<1>1. stream \in Stream /\ stream.pos < stream.rows /\ ~stream.ended
  BY DEF TypeOK, TakeRow, Asked, StreamAtEnd, Stream
<1>2. stream' = [stream EXCEPT !.pos = stream.pos + 1]
  BY DEF TakeRow, MovedStream
<1>3. stream.pos + 1 \in 0 .. MaxRows
  BY <1>1, StatementAssumption DEF Stream
<1>4. stream' \in Stream
  BY <1>1, <1>2, <1>3 DEF Stream
<1>5. currentRow' = [id |-> stream.id, index |-> stream.pos] /\ currentRow' \in Row
  BY <1>1 DEF TakeRow, NextRow, Row, Stream
<1>6. bindings' \in Seq(BOOLEAN)
  <2>1. stream.columns \in Nat
    BY <1>1, StatementAssumption DEF Stream
  <2>. QED  BY <2>1, ResizedType DEF TakeRow
<1>. QED  BY <1>1, <1>2, <1>4, <1>5, <1>6 DEF Stream

\* What the calls that open or drop a result leave in the stream.
LEMMA ResultType ==
  ASSUME TypeOK, Execute \/ ExecuteDirect \/ Tables \/ Columns
  PROVE  /\ \/ UNCHANGED <<stream, history>>
            \/ stream' = NoStream /\ UNCHANGED history
            \/ \E isTunnel \in BOOLEAN : OpenResult(isTunnel)
         /\ UNCHANGED <<alive, connected, prepared, rowVars>>
<1>1. CASE Execute
  BY <1>1 DEF Execute, Query, OpenResult, KeepResult, rowVars, history
<1>2. CASE ExecuteDirect
  BY <1>2 DEF ExecuteDirect, Query, OpenResult, KeepResult, rowVars,
              history
<1>3. CASE Tables
  BY <1>3 DEF Tables, OpenResult, KeepResult, rowVars, history
<1>4. CASE Columns
  BY <1>4 DEF Columns, OpenResult, DropResult, rowVars, history
<1>. QED  BY <1>1, <1>2, <1>3, <1>4

\* The calls that touch no result: the stream and what has been fetched stay.
Quiet ==
  /\ UNCHANGED <<stream, currentRow, endOfStream, fetchedRows, executions, before,
                 lost, endedBy>>
  /\ bindings' \in Seq(BOOLEAN)
  /\ closed' \in BOOLEAN
  /\ alive' \in BOOLEAN /\ connected' \in BOOLEAN /\ prepared' \in BOOLEAN

LEMMA BindQuiet ==
  ASSUME TypeOK, NEW c \in 1 .. MaxColumns, NEW hasBuffer \in BOOLEAN,
         BindCol(c, hasBuffer)
  PROVE  Quiet
<1> DEFINE room == IF c \in DOMAIN bindings THEN bindings ELSE Resized(stream.columns)
<1>1. stream \in Stream /\ stream.columns \in Nat
  BY StatementAssumption DEF TypeOK, BindCol, Stream
<1>2. room \in Seq(BOOLEAN) /\ c \in DOMAIN room
  BY <1>1, ResizedType DEF BindCol, TypeOK
<1>3. bindings' = [room EXCEPT ![c] = hasBuffer]
  BY DEF BindCol
<1> HIDE DEF room
<1>4. bindings' \in Seq(BOOLEAN)
  BY <1>2, <1>3
<1>. QED  BY <1>4 DEF BindCol, Quiet, TypeOK, history

LEMMA QuietSteps ==
  ASSUME TypeOK,
         \/ Connect \/ Disconnect \/ AllocHandle
         \/ \E option \in {"SQL_CLOSE", "SQL_UNBIND", "SQL_RESET_PARAMS"} : FreeStmt(option)
         \/ Prepare \/ ExecuteDirectEmptyW \/ BindRefused
         \/ FetchRefused \/ FetchAfterEnd \/ GetData \/ UNCHANGED vars
  PROVE  Quiet
<1> USE DEF Quiet, TypeOK, rowVars, history
<1>1. CASE Connect \/ Disconnect
  BY <1>1 DEF Connect, Disconnect
<1>2. CASE AllocHandle
  BY <1>2 DEF AllocHandle
<1>3. ASSUME NEW option \in {"SQL_CLOSE", "SQL_UNBIND", "SQL_RESET_PARAMS"},
             FreeStmt(option)
      PROVE  Quiet
  <2>1. closed' \in BOOLEAN
    BY <1>3, Zenon DEF FreeStmt
  <2>. QED  BY <1>3, <2>1 DEF FreeStmt
<1>4. CASE Prepare \/ ExecuteDirectEmptyW
  BY <1>4 DEF Prepare, ExecuteDirectEmptyW, KeepResult
<1>5. CASE BindRefused \/ FetchRefused \/ FetchAfterEnd \/ GetData
  BY <1>5 DEF BindRefused, FetchRefused, FetchAfterEnd, GetData
<1>6. CASE UNCHANGED vars
  BY <1>6 DEF vars
<1>. QED  BY <1>1, <1>2, <1>3, <1>4, <1>5, <1>6

\* The steps of the handle, by what they do to its result.
LEMMA Steps ==
  ASSUME TypeOK, [Next]_vars
  PROVE  \/ Quiet
         \/ FreeHandle
         \/ Execute \/ ExecuteDirect \/ Tables \/ Columns
         \/ ExecuteDirectEmpty
         \/ FetchEnd \/ FetchFails \/ FetchConverted \/ FetchNotConverted
  BY QuietSteps, BindQuiet DEF Next, Fetch

\* Every call gives an answer.
LEMMA AnswerStep == TypeOK /\ [Next]_vars => answer' \in Answers
<1> SUFFICES ASSUME TypeOK, [Next]_vars
             PROVE  answer' \in Answers
  OBVIOUS
<1>1. ASSUME NEW call \in Calls, NEW code \in {"SUCCESS", "ERROR", "NO_DATA"},
             Return(call, code)
      PROVE  answer' \in Answers
  BY <1>1, Zenon DEF Return, Answers
<1>2. \/ \E call \in Calls, code \in {"SUCCESS", "ERROR", "NO_DATA"} : Return(call, code)
      \/ answer' = answer
  BY DEF Calls, Next, Connect, Disconnect, FreeHandle, AllocHandle, FreeStmt, Prepare,
         Execute, ExecuteDirect, ExecuteDirectEmpty, ExecuteDirectEmptyW, Query,
         Tables, Columns, BindCol, BindRefused, Fetch, FetchRefused, FetchAfterEnd,
         FetchEnd, EndAnswer, FetchFails, FetchConverted, FetchNotConverted, GetData,
         vars
<1>. QED  BY <1>1, <1>2 DEF TypeOK

LEMMA TypeInit == Init => TypeOK
<1> SUFFICES ASSUME Init
             PROVE  TypeOK
  OBVIOUS
<1>1. <<>> \in Seq(BOOLEAN) /\ 0 \in 0 .. MaxExecutions
  BY StatementAssumption
<1>2. answer \in Answers
  <2>1. "SQLAllocHandle" \in Calls
    BY DEF Calls
  <2>. QED  BY <2>1, Zenon DEF Init, Answers
<1>. QED  BY <1>1, <1>2 DEF Init, TypeOK

LEMMA TypeStep == TypeOK /\ [Next]_vars => TypeOK'
<1> SUFFICES ASSUME TypeOK, [Next]_vars
             PROVE  TypeOK'
  OBVIOUS
<1> answer' \in Answers
  BY AnswerStep
<1>1. CASE Quiet
  BY <1>1 DEF Quiet, TypeOK
<1>2. CASE FreeHandle
  <2>1. <<>> \in Seq(BOOLEAN)
    OBVIOUS
  <2>2. 0 \in 0 .. MaxExecutions
    BY StatementAssumption
  <2>. QED  BY <1>2, <2>1, <2>2 DEF FreeHandle, TypeOK
<1>3. CASE Execute \/ ExecuteDirect \/ Tables \/ Columns
  <2>1. CASE UNCHANGED <<stream, history>>
    BY <1>3, <2>1, ResultType DEF TypeOK, rowVars, history
  <2>2. CASE stream' = NoStream /\ UNCHANGED history
    BY <1>3, <2>2, ResultType DEF TypeOK, rowVars, history
  <2>3. ASSUME NEW isTunnel \in BOOLEAN, OpenResult(isTunnel)
        PROVE  TypeOK'
    <3>1. stream' \in Stream /\ stream'.pos = 0 /\ stream'.pos <= stream'.rows
      BY <2>3, OpenType DEF Stream
    <3>. QED  BY <1>3, <2>3, <3>1, OpenType, ResultType DEF TypeOK, rowVars
  <2>. QED  BY <1>3, <2>1, <2>2, <2>3, ResultType
<1>4. CASE ExecuteDirectEmpty
  BY <1>4 DEF ExecuteDirectEmpty, DropResult, TypeOK, rowVars, history
<1>5. CASE FetchEnd
  <2>1. stream # NoStream /\ stream \in Stream /\ stream' \in Stream
        /\ stream'.pos = stream.pos /\ stream'.rows = stream.rows
    BY <1>5 DEF FetchEnd, Asked, TypeOK, Stream
  <2>2. stream.id \in 0 .. MaxExecutions
    BY <2>1 DEF Stream
  <2>. QED  BY <1>5, <2>1, <2>2 DEF FetchEnd, TypeOK
<1>6. CASE FetchFails
  <2>1. stream # NoStream /\ stream \in Stream /\ stream' \in Stream
        /\ stream'.pos = stream.pos /\ stream'.rows = stream.rows
    BY <1>6 DEF FetchFails, FailedStream, Asked, TypeOK, Stream
  <2>. QED  BY <1>6, <2>1 DEF FetchFails, TypeOK, rowVars, history
<1>7. CASE FetchConverted
  <2>1. TakeRow
    BY <1>7 DEF FetchConverted
  <2>2. stream'.pos <= stream'.rows
    BY <2>1, TakeType DEF Stream
  <2>3. stream' \in Stream /\ currentRow' \in Row /\ bindings' \in Seq(BOOLEAN)
    BY <2>1, TakeType
  <2>. QED  BY <1>7, <2>2, <2>3 DEF FetchConverted, TakeRow, TypeOK
<1>8. CASE FetchNotConverted
  <2>1. TakeRow
    BY <1>8 DEF FetchNotConverted
  <2>2. stream'.pos <= stream'.rows
    BY <2>1, TakeType DEF Stream
  <2>3. stream' \in Stream /\ currentRow' \in Row /\ bindings' \in Seq(BOOLEAN)
    BY <2>1, TakeType
  <2>. QED  BY <1>8, <2>2, <2>3
            DEF FetchNotConverted, NotCounted, TakeRow, TypeOK
<1>. QED  BY <1>1, <1>2, <1>3, <1>4, <1>5, <1>6, <1>7, <1>8, Steps

(***************************************************************************)
(* Every variable of the handle keeps its type, and the position in a      *)
(* result never passes its rows (handles.cpp, StmtHandle).                 *)
(***************************************************************************)
THEOREM HandleTyping == Spec => []TypeOK
<1>1. Init => TypeOK
  BY TypeInit
<1>2. TypeOK /\ [Next]_vars => TypeOK'
  BY TypeStep
<1>. QED  BY <1>1, <1>2, PTL DEF Spec

-----------------------------------------------------------------------------
(***************************************************************************)
(* The inductive invariant.  The properties lean on three facts that no    *)
(* run states: a stream says that it has ended only when its rows are out  *)
(* or it has failed, only a tunnel stream fails and then it has ended, and *)
(* no result has a number that is still to be given out.                   *)
(***************************************************************************)
StreamFlags ==
  stream # NoStream =>
    /\ stream.ended => stream.failed \/ stream.pos = stream.rows
    /\ stream.failed => stream.ended /\ stream.tunnel

Numbered ==
  /\ endedBy <= executions
  /\ stream # NoStream => stream.id <= executions

IInv ==
  /\ TypeOK
  /\ StreamFlags
  /\ Numbered
  /\ CurrentRowIsLastTaken
  /\ EndIsTrue
  /\ RowsAccountedFor

LEMMA InvInit == Init => IInv
<1> SUFFICES ASSUME Init
             PROVE  IInv
  OBVIOUS
<1>1. TypeOK
  BY TypeInit
<1>. QED  BY <1>1 DEF Init, IInv, StreamFlags, Numbered, CurrentRowIsLastTaken,
                     EndIsTrue, RowsAccountedFor

\* A result that is dropped takes every claim about it along.
LEMMA DropStep ==
  ASSUME IInv, TypeOK', stream' = NoStream, endedBy' <= executions'
  PROVE  IInv'
  BY DEF IInv, StreamFlags, Numbered, CurrentRowIsLastTaken, EndIsTrue,
         RowsAccountedFor

\* A result that is opened starts with no row, not even for what an earlier one
\* has left in the handle.
LEMMA OpenStep ==
  ASSUME IInv, TypeOK', NEW isTunnel \in BOOLEAN, OpenResult(isTunnel)
  PROVE  IInv'
<1>1. /\ stream' \in Stream
      /\ stream'.pos = 0 /\ ~stream'.ended /\ ~stream'.failed
      /\ stream'.id = executions' /\ executions' = executions + 1
      /\ before' = fetchedRows /\ lost' = 0
      /\ fetchedRows' = fetchedRows /\ endedBy' = endedBy
  BY OpenType DEF IInv, rowVars
<1>2. executions \in Nat /\ endedBy \in Nat /\ fetchedRows \in Nat
  BY StatementAssumption DEF IInv, TypeOK
<1>3. StreamFlags' /\ CurrentRowIsLastTaken'
  BY <1>1 DEF StreamFlags, CurrentRowIsLastTaken
<1>4. Numbered' /\ endedBy' # stream'.id
  BY <1>1, <1>2 DEF IInv, Numbered
<1>5. EndIsTrue'
  BY <1>4 DEF EndIsTrue
<1>6. RowsAccountedFor'
  BY <1>1, <1>2 DEF RowsAccountedFor
<1>. QED  BY <1>3, <1>4, <1>5, <1>6 DEF IInv

\* A row that is taken, with its effect on the two counters.
LEMMA TakeStep ==
  ASSUME IInv, TypeOK', TakeRow,
         \/ fetchedRows' = fetchedRows + 1 /\ lost' = lost
         \/ fetchedRows' = fetchedRows /\ lost' = lost + 1
  PROVE  IInv'
<1>1. /\ stream \in Stream /\ stream # NoStream /\ ~stream.ended
      /\ stream' \in Stream /\ stream'.pos = stream.pos + 1
      /\ stream'.rows = stream.rows /\ stream'.id = stream.id
      /\ stream'.ended = stream.ended /\ stream'.failed = stream.failed
      /\ stream'.tunnel = stream.tunnel
      /\ currentRow' = [id |-> stream.id, index |-> stream.pos]
  BY TakeType DEF IInv, TakeRow, Asked
<1>2. stream.pos \in Nat /\ fetchedRows \in Nat /\ lost \in Nat /\ before \in Nat
  BY <1>1 DEF IInv, TypeOK, Stream
<1>3. /\ executions' = executions /\ endedBy' = endedBy /\ before' = before
      /\ endOfStream' = endOfStream /\ ~endOfStream
  BY DEF TakeRow, Asked
<1>4. StreamFlags'
  BY <1>1 DEF IInv, StreamFlags
<1>5. Numbered'
  BY <1>1, <1>3 DEF IInv, Numbered
<1>6. CurrentRowIsLastTaken'
  BY <1>1, <1>2 DEF CurrentRowIsLastTaken
<1>7. EndIsTrue'
  BY <1>3 DEF EndIsTrue
<1>8. RowsAccountedFor'
  BY <1>1, <1>2, <1>3 DEF IInv, RowsAccountedFor
<1>. QED  BY <1>4, <1>5, <1>6, <1>7, <1>8 DEF IInv

LEMMA InvStep == IInv /\ [Next]_vars => IInv'
<1> SUFFICES ASSUME IInv, [Next]_vars
             PROVE  IInv'
  OBVIOUS
<1>1. TypeOK /\ TypeOK'
  BY TypeStep DEF IInv
<1>2. CASE Quiet
  BY <1>1, <1>2 DEF Quiet, IInv, StreamFlags, Numbered, CurrentRowIsLastTaken,
                    EndIsTrue, RowsAccountedFor
<1>3. CASE FreeHandle
  <2>1. endedBy' <= executions'
    BY <1>1, <1>3, StatementAssumption DEF FreeHandle, TypeOK
  <2>. QED  BY <1>1, <1>3, <2>1, DropStep DEF FreeHandle
<1>4. CASE Execute \/ ExecuteDirect \/ Tables \/ Columns
  <2>1. CASE UNCHANGED <<stream, history>>
    <3>1. UNCHANGED <<currentRow, endOfStream, fetchedRows>>
      BY <1>1, <1>4, ResultType DEF rowVars
    <3>. QED  BY <1>1, <2>1, <3>1 DEF history, IInv, StreamFlags, Numbered,
                 CurrentRowIsLastTaken, EndIsTrue, RowsAccountedFor
  <2>2. CASE stream' = NoStream /\ UNCHANGED history
    BY <1>1, <2>2, DropStep DEF history, IInv, Numbered
  <2>3. ASSUME NEW isTunnel \in BOOLEAN, OpenResult(isTunnel)
        PROVE  IInv'
    BY <1>1, <2>3, OpenStep
  <2>. QED  BY <1>1, <1>4, <2>1, <2>2, <2>3, ResultType
<1>5. CASE ExecuteDirectEmpty
  BY <1>1, <1>5, DropStep DEF ExecuteDirectEmpty, DropResult, history, IInv, Numbered
<1>6. CASE FetchEnd
  <2>1. /\ stream \in Stream /\ stream # NoStream
        /\ stream'.pos = stream.pos /\ stream'.rows = stream.rows
        /\ stream'.id = stream.id /\ stream'.failed = stream.failed
        /\ stream'.ended = stream.tunnel /\ stream'.tunnel = stream.tunnel
    BY <1>1, <1>6 DEF FetchEnd, Asked, TypeOK, Stream
  <2>2. stream.ended \/ stream.pos = stream.rows
    BY <1>6 DEF FetchEnd, StreamAtEnd
  <2>3. stream.failed \/ stream.pos = stream.rows
    BY <2>1, <2>2 DEF IInv, StreamFlags
  <2>4. stream.failed => stream.tunnel
    BY <2>1 DEF IInv, StreamFlags
  <2>. QED  BY <1>1, <1>6, <2>1, <2>3, <2>4
            DEF FetchEnd, IInv, StreamFlags, Numbered, CurrentRowIsLastTaken,
                EndIsTrue, RowsAccountedFor
<1>7. CASE FetchFails
  <2>1. /\ stream \in Stream /\ stream # NoStream
        /\ stream'.pos = stream.pos /\ stream'.rows = stream.rows
        /\ stream'.id = stream.id /\ stream'.failed /\ stream'.ended /\ stream'.tunnel
    BY <1>1, <1>7 DEF FetchFails, FailedStream, Asked, TypeOK, Stream
  <2>2. /\ UNCHANGED <<currentRow, endOfStream, fetchedRows, executions, before, lost,
                       endedBy>>
    BY <1>7 DEF FetchFails, rowVars, history
  <2>. QED  BY <1>1, <2>1, <2>2
            DEF IInv, StreamFlags, Numbered, CurrentRowIsLastTaken, EndIsTrue,
                RowsAccountedFor
<1>8. CASE FetchConverted
  BY <1>1, <1>8, TakeStep DEF FetchConverted
<1>9. CASE FetchNotConverted
  BY <1>1, <1>9, TakeStep DEF FetchNotConverted, NotCounted
<1>. QED  BY <1>1, <1>2, <1>3, <1>4, <1>5, <1>6, <1>7, <1>8, <1>9, Steps

LEMMA Invariance == Spec => []IInv
BY InvInit, InvStep, PTL DEF Spec

(***************************************************************************)
(* SQLGetData reads the row last taken from the open result, once one has  *)
(* been taken (handles.cpp, fetch and getData).                            *)
(***************************************************************************)
THEOREM GetDataReadsLastRow == Spec => []CurrentRowIsLastTaken
<1>1. IInv => CurrentRowIsLastTaken
  BY DEF IInv
<1>. QED  BY <1>1, Invariance, PTL

(***************************************************************************)
(* The end that a result sets on its handle is the end of its rows, or     *)
(* follows an error that the application has seen (handles.cpp, fetch).    *)
(***************************************************************************)
THEOREM FirstEndIsTrue == Spec => []EndIsTrue
<1>1. IInv => EndIsTrue
  BY DEF IInv
<1>. QED  BY <1>1, Invariance, PTL

(***************************************************************************)
(* No row disappears without an error (handles.cpp, fetch).                *)
(***************************************************************************)
THEOREM EveryRowAccountedFor == Spec => []RowsAccountedFor
<1>1. IInv => RowsAccountedFor
  BY DEF IInv
<1>. QED  BY <1>1, Invariance, PTL

(***************************************************************************)
(* Nothing is fetched from a result after one of its fetches has failed    *)
(* (client.cpp, fetchNextRow).                                             *)
(***************************************************************************)
THEOREM ErrorEndsResult == Spec => NoRowAfterError
<1>1. ASSUME IInv, [Next]_vars, stream # NoStream, stream.failed,
             stream' # NoStream, stream'.id = stream.id
      PROVE  stream'.pos = stream.pos
  <2>1. TypeOK /\ stream \in Stream /\ stream.ended
    BY <1>1 DEF IInv, TypeOK, StreamFlags
  <2>2. CASE Quiet
    BY <2>2 DEF Quiet
  <2>3. CASE FreeHandle \/ ExecuteDirectEmpty
    BY <1>1, <2>3 DEF FreeHandle, ExecuteDirectEmpty, DropResult
  <2>4. CASE Execute \/ ExecuteDirect \/ Tables \/ Columns
    <3>1. ASSUME NEW isTunnel \in BOOLEAN, OpenResult(isTunnel)
          PROVE  FALSE
      <4>1. stream'.id = executions + 1 /\ executions \in Nat /\ stream.id \in Nat
        BY <2>1, <3>1, OpenType, StatementAssumption DEF TypeOK, Stream
      <4>. QED  BY <1>1, <4>1 DEF IInv, Numbered
    <3>. QED  BY <1>1, <2>1, <2>4, <3>1, ResultType
  <2>5. CASE FetchEnd
    BY <2>1, <2>5 DEF FetchEnd, Stream
  <2>6. CASE FetchFails
    BY <2>1, <2>6 DEF FetchFails
  <2>7. CASE FetchConverted \/ FetchNotConverted
    BY <2>1, <2>7, TakeType DEF FetchConverted, FetchNotConverted
  <2>. QED  BY <1>1, <2>1, <2>2, <2>3, <2>4, <2>5, <2>6, <2>7, Steps
<1>2. IInv /\ [Next]_vars =>
        [stream # NoStream /\ stream.failed /\ stream' # NoStream
           /\ stream'.id = stream.id => stream'.pos = stream.pos]_vars
  BY <1>1
<1>. QED  BY <1>2, Invariance, PTL DEF Spec, NoRowAfterError

=============================================================================
