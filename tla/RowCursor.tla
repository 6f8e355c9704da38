----------------------------- MODULE RowCursor -----------------------------
(***************************************************************************)
(* What the row source of a query promises its one caller, whatever is     *)
(* underneath: each call that fetches a row is answered with the next row  *)
(* of the result, with the end of the result, or with an error, and after  *)
(* the end or an error there is nothing more to fetch.  Rows are numbered  *)
(* from 0.  The caller may drop the source between two calls, never during *)
(* one.  That an answer comes is no part of the promise: a reader whose    *)
(* server cuts a batch short gives none.                                   *)
(*                                                                         *)
(* This is ResultStream::fetchNextRow (models.h).  Modules RecordReader     *)
(* and QueryExecution implement it; module Statement takes it for granted. *)
(***************************************************************************)
EXTENDS Naturals, Sequences

CONSTANT MayFail         \* whether a fetch may be answered with an error

VARIABLES total,       \* the number of rows of the result; it does not change
          delivered,   \* the rows handed to the caller, in order
          pending,     \* a fetch is waiting for its answer
          status       \* "open", "exhausted", "failed" or "closed"

cursorVars == <<total, delivered, pending, status>>

CursorInit ==
  /\ total \in Nat
  /\ delivered = <<>>
  /\ pending = FALSE
  /\ status = "open"

\* The caller asks for a row.
Request ==
  /\ ~pending
  /\ status = "open"
  /\ pending' = TRUE
  /\ UNCHANGED <<total, delivered, status>>

\* The answer is the row after the last one delivered.
ServeRow ==
  /\ pending
  /\ Len(delivered) < total
  /\ delivered' = Append(delivered, Len(delivered))
  /\ pending' = FALSE
  /\ UNCHANGED <<total, status>>

\* The answer is the end of the result: every row has been delivered.
Exhaust ==
  /\ pending
  /\ Len(delivered) = total
  /\ status' = "exhausted"
  /\ pending' = FALSE
  /\ UNCHANGED <<total, delivered>>

\* The answer is an error.
Fail ==
  /\ MayFail
  /\ pending
  /\ status' = "failed"
  /\ pending' = FALSE
  /\ UNCHANGED <<total, delivered>>

\* The caller drops the row source.
Drop ==
  /\ ~pending
  /\ status # "closed"
  /\ status' = "closed"
  /\ UNCHANGED <<total, delivered, pending>>

CursorNext == Request \/ ServeRow \/ Exhaust \/ Fail \/ Drop

CursorSafe == CursorInit /\ [][CursorNext]_cursorVars
=============================================================================
