# MaxCompute ODBC driver: TLA+ models, checks and proofs

The driver lets an ODBC application run SQL on Alibaba Cloud MaxCompute. An
application calls the C entry points of `src/odbc_api/entry_points.cpp`; they
find an object behind the handle and call it; a statement object asks the SDK
client (`src/maxcompute_client/client.cpp`) to run a query and reads the result
row by row from a result stream; for a SELECT the stream waits for the query on
the server, opens a download session and reads the rows through a concurrent,
prefetching reader (`tunnel.cpp`). Paths below leave out the repository's root.

## Inventory

| Component | State | Operations | Talks to | What is hard | What makes it correct |
|---|---|---|---|---|---|
| Concurrent record reader, `tunnel.cpp` 153-408 | task queue, prefetch cache, current batch, two mutexes, two condition variables, a shutdown flag | constructor, `Next`, `Close`, worker loop, `scheduleMoreTasksIfNeeded` | called by the result stream; downloads over HTTP | threads, condition variables, batches out of order, failed or short downloads, shutdown | rows once each in order; complete at the end; every `Next` returns; `Close` returns |
| Download session, `tunnel.cpp` 30-138 | session id, row count, schema | constructor | HTTP | partial failure | either a complete session or an exception |
| Result streams, `client.cpp` 541-675, `models.h` 163-238 | end flag, lazy initialisation, index | `fetchNextRow` | client, session, reader | failure between two steps of the initialisation; outliving the client | rows, then one end or one error, then nothing |
| SDK client, `client.cpp` 28-535, 690-863 | configuration | `executeQuery`, `waitForSuccess`, `getSchemaJson`, catalog requests | HTTP | polling, timeout, requests that share state, retries | the result handed out is that of the query submitted, with its own settings |
| Statement handle, `handles.cpp`, `handles.h` 91-173 | result stream, current row, end flag, row counter, bindings, prepared text | prepare, execute, fetch, bind, get data, catalog functions | connection, SDK client, result stream | sequences of calls over several results; state left by an earlier result | what each call reports of a result is true of that result |
| Connection handle, `handles.cpp` 8-104, 1079-1089, `entry_points.cpp` 1213-1250, 1540-2180, 3749-4130 | configuration, client, statements, what the driver manager was told | three connects, disconnect, attributes | registry, client, environment variables | failure after half of the connection is made; settings left by an earlier attempt; statements that outlive it | connected exactly when the last connect succeeded, to what the application named |
| Catalog calls, `handles.cpp` 756-1078, `client.cpp` 400-535 | one page marker | `SQLTables`, `SQLColumns`, `listTables`, `getTable` | client | pages read while tables come and go; two calls that resolve a schema apart | a listing is complete, ends, and describes the tables it lists |
| Handle registry, `handle_registry.h` | token map, mutex, next token | allocate, get, free | every entry point | threads: pointers used after the lock is released, destructors under the lock | a live handle finds its object, a freed one never does |
| Entry points, `entry_points.cpp` | none | about 70 C functions, ANSI and wide | all of the above | the wide variants do not do what the ANSI ones do | both variants of a call do the same |
| Settings parser, `setting_parser.cpp` | automaton state | `parse` | client | comments, escaped semicolons, statements that are no assignment | settings extracted, the rest of the text unchanged |
| Configuration, `config.cpp`, `config.h` | `Config` | `parse`, `updateConfig`, `validate`, `parseDriverConnectString` | connection | three parsers of one syntax; partial update when a number cannot be read | what was written is what is stored |
| Record deserializer, `proto_deserializer.cpp` | counters, checksums | `deserializeNext` | reader | truncated or damaged streams | no damaged record is delivered |
| Conversions, `conversions.cpp`, `encoding.cpp`, `utils.h` | none | `convertAndWrite`, charsets, UTF-16, truncation | statement, diagnostics | limits of types, buffers too small, lengths in bytes, units or characters | nothing is written past a buffer; what is delivered is the value, or the call says it is not |
| Diagnostics, `entry_points.cpp` 2288-3072 | the records of a handle | `SQLGetDiagRec`, `SQLGetDiagField`, wide and narrow | every handle | sizes in bytes or characters | a text that is cut is told |
| Type information, `typeinfo.cpp`, `convertColumn` | none | tables | statement | none | the tables are right |
| HTTP client, signer, logger, utilities | connections | requests | server | timeouts | pure I/O, see below |

PROJECT.json lists the hazards of each with the line where it bites and the
properties that would catch it.

## The modules

Thirteen modules model the code, eight `MC` modules give them to TLC, eight
`...Proofs` modules hold the theorems. Two groups are compositions:
`Catalog` EXTENDS `Connection`, which EXTENDS `ConnectionString`; and
`ValueConversion` EXTENDS `Diagnostics`, which EXTENDS `TextOut`. PROJECT.json
maps each definition to the lines it stands for. A definition commented `Fault:` is part of no
specification: it is a plausible wrong version of the definition after it, with
which the property it is paired with in PROJECT.json fails.

### RowCursor: what a row source promises

Abstract. Its state is what the caller of `ResultStream::fetchNextRow` can see:
the rows it has been given, whether a call is under way, and whether the source
is open, exhausted, failed or closed. That an answer comes is no part of it: a
reader whose server cuts a batch short gives none. `RecordReader` and
`QueryExecution` implement it with `INSTANCE RowCursor WITH ...`; `Statement`
relies on it.

### RecordReader: `ConcurrentBufferedRecordReader`

| Model | Code |
|---|---|
| `opc`, `wpc` | where the owner (the application's thread) and each worker is |
| `taskQueue`, `maxPrefetched` | `mDownloadTasks`, `mMaxPrefetchedPosition` |
| `cache` | `mPrefetchCache`; a value is a batch, an error, or absent |
| `batch`, `batchIndex`, `totalRead` | `mCurrentBatch`, `mCurrentBatchIndex`, `mTotalRecordsRead` |
| threads at "asleep", "waiting" | waiting on `mTaskCV`, `mCacheCV` |
| `TaskMutexFree`, `CacheMutexFree` | the points at which the two mutexes are held |
| `BeginSchedule`, `PushTask`, `EndSchedule` | `scheduleMoreTasksIfNeeded` |
| `BeginNext` ... `ServeNothing` | `fetchNextRow` and `Next` |
| `TakeTask` ... `NotifyConsumer` | `workerThreadFunc`, `downloadDataTask` |
| `BeginClose`, `NotifyShutdown`, `FinishClose` | `~ConcurrentBufferedRecordReader`, `Close`, `stopWorkerThreads` |

A batch is the interval of rows it holds. A step is what happens between two
points at which another thread can see a difference; in particular a thread
that has found its predicate false is "committed" before it waits. Condition
variables may wake a thread for no reason (`SpuriousWakeup`).

### Statement: `StmtHandle`

One handle; a call is one step, because ODBC calls on one statement do not
overlap. `stream` is `m_result_stream` with the number of rows taken from it,
`currentRow`, `endOfStream`, `fetchedRows`, `bindings`, `prepared` are
`m_current_row`, `m_end_of_stream`, `m_fetched_rows`, `m_bindings`,
`m_prepared_sql`. The history variables (`before`, `lost`, `endedBy`, `closed`)
record which result the handle's flags were set by. There is one action for
each call that changes a handle, the wide variant of `SQLExecDirect` included
where it differs. An execution opens any result within the bounds.

### QueryExecution: `executeQuery` and the stream it returns

The client is a thread with a program counter: settings, quota, explain, wait,
schema, submit, wait again, and, at the first fetch, wait, endpoint, session,
rows. The server is a log of accepted requests (`instances`), which it works
off by itself. A request is answered, fails before the server has acted, or is
accepted with its answer lost (`LoseAnswer`). A `Location` header, when there is
one, is taken to name the instance. `waitForSuccess` is one set of actions used
for the explain request, for a query without rows and for the first fetch;
`goal` says which. The rows come from `RecordReader`, here by its answers and by
its one way of giving none: behind a batch that the server has cut short a fetch
may stay at `starved`, and that step is the thread's last. The number of rows is
what the session's answer is understood to say (`recordCount`): 0 when it says
nothing, and the value of an `int` made unsigned otherwise (`tunnel.cpp` 109);
the session's status is not looked at, as in the code.

### HandleLifecycle: registry, connections, statements

Threads of the application call the driver on any handle. A call waits for the
registry's mutex, looks its handle up, and goes on with a raw pointer; `free`
keeps the mutex until the destructor has finished, which for a statement
includes the download threads (`EraseStmt`, `DestroyStream`). `objects` is every
object ever built, alive or not; a step that touches one, or a client, that is
not alive sets `misused`. Tokens and clients are numbered as they are made.

What the application may do is in `Allowed`: it does not overlap calls that the
code cannot keep apart (two on one handle, a connection being opened, closed or
freed with another call on it, two changes to a connection's list of
statements), it uses no statement whose connection has since got another client
or none, and it frees statements before their connection. This is the order of
docs/usage.md 246-255. It is an assumption about the environment: the
code checks none of it, and `NoUseOfDestroyed` does not hold without it. A freed
handle, and one of another kind, may be tried.

### RecordDecoding: one download, from the body to the records

`downloadDataTask` receives a whole response body and calls `deserializeNext`
until it returns the end or an error. `body` is a sequence of items (tags,
values, lengths, checksums) and `pos` what has been read of it; the other
variables are the deserializer's members. The server's encoding
(`EncodedDownload`) is external and is taken from what the deserializer
accepts: in particular the null flag of an element is read by
`readComplexValueImpl` and again by `readNestedValue`, and whether the service
writes it twice is not in the repository. `Alter`, `Lose` and `Repeat` damage the
body before it is read, item by item: damage inside an item is left out. There
is one action for each branch of the loop, accepted and refused; an element of a
type that `readNestedValue` has no case for is refused unless it is null
(`UnreadableArrays`). The CRC of nothing is 0, the same byte as a value of 0,
FALSE or an empty text (`Crc`). Any other CRC is the sequence of its updates: two
different sequences are never taken for the same, nor for a value, which is what
a checksum is for and not what 32 bits can give.

`Seen` is a record up to what its checksum covers. For a scalar column that is
the value; for an array only its length, so a damaged element is not noticed,
and the properties say no more than that. Because the CRC of nothing is an
ordinary value, two things pass the checks whatever was sent, and the properties
name them: a record without any value (one damaged tag before a 0) and a download
without any record (two damaged tags before zeros). The run reaches both.

### ConnectionString: the three parsers and the check of a configuration

Operators, no state. A string is a sequence of tokens: separators, a quote, an
escaped quote, a blank, and words. `parse` (SQLConnect), `updateConfig`
(SQLDriverConnect) and `parseDriverConnectString` differ in the keys they know,
in what ends a value, and in what a number that cannot be read does:
`updateConfig` throws and keeps what it has stored. `IsPlain` is the class of
strings the three should read alike. One setting of each kind is kept.

### Connection: one connection handle

`config`, `client` and `told` are `m_config`, `m_sdk` (the configuration the
client was made of) and what the driver manager knows from return codes. There
is one action for each form of SQLDriverConnect, SQLConnect, SQLDisconnect and
the attribute calls. `DriverConnect` stores into the live configuration, fills
gaps from the environment, and may then fail; `SQLConnect` makes a new
configuration. `given` and `before` are history: what the latest call that
connects was given, and the configuration it stored into. `ConnectedAsGiven` asks
for what that call gave, or the environment where it gave nothing; what an
earlier call left is an exception with a name (`LeftOver`), and so are strings
that are not plain.

### Catalog: SQLTables and SQLColumns

`listing` is `listTables` between two of its requests, `result` the result of
the statement, `tables` what the project holds. Others create and drop tables
while a listing is under way (`ChangeTables`). The service is external: it
answers with the names after the last marker in the request, which is how the
multimap the client adds markers to is taken to be read; it refuses a request
about a schema it does not have; a project without the schema model ignores the
schema of a request. `StableAreListed` compares the rows with what was there
all the time (`stable`) and at some time (`seen`).

### TextOut: texts into buffers

Operators, no state. A character is the number of bytes it takes in UTF-8. What
a call leaves is the text written, the bytes used with the terminator, and the
length reported. `StdStringToOdbcWString`, `WriteUtf8Direct`,
`WriteUtf8AsCharset` (as built with iconv) and the plain copy of the narrow
diagnostic calls. The two places where arithmetic is not that of the integers are
modelled: a cast to `SQLSMALLINT` wraps (`AsSmallInt`), and the room in a wide
buffer of 0 or 1 bytes wraps around to more than any text needs (`RoomFor`).
Left out: a charset iconv does not know (the driver then writes UTF-8), and
negative lengths of a buffer.

### Diagnostics: the records of a handle

`records` is `m_diag_records`, `reading` the last call that read one. The
narrow and wide forms of SQLGetDiagRec and SQLGetDiagField, every field, every
record number around the boundaries, every size a `SQLSMALLINT` can have. The
wide calls lose text and return `SQL_SUCCESS` in the three cases of `LostUntold`,
against their comment (`entry_points.cpp` 2526-2527); `NoTextLostUntold` says that
there is no fourth, in them or in the narrow calls.

### ValueConversion: a row into the application's buffers

`row`, `bindings`, `records` are members of the handle; `buffers` and `got` what
the application holds. `convertAndWrite` gives the outcomes of every type of
value for every C type. Numbers are counted in halves with small limits in the
order of the real ones (`ShortMax <= LongMax <= DoubleMax < BigMax`), so that
truncation, every overflow, and the integers no double holds occur. A double has
the number its text stands for besides its own (`shown`: six decimals), and a
string what `std::stod` and `std::stol` read of it besides what it is as a whole.
Left out: how dates are worded, and all buffers that are null pointers.

`KnownLoss` names the conversions that succeed although the application gets
something else:

- a null without an indicator; a double just above the greatest BIGINT; an integer
  no double holds; a moment outside 64 bits of nanoseconds;
- a number read out of a string that only begins with it or is written in another
  way ("12abc", "1e1" as an integer), or that `std::stod` rounds (`MisreadNumber`);
- a text that is not the value's: a double that needs more than six decimals, a
  type that is not foreseen; or that is not all there: characters the charset does
  not have, a wide text that is cut, a narrow buffer of no bytes (`PoorText`).

That an integer gets the whole part of a number counts as faithful, as ODBC has
it, although the driver does not add the warning (01S07) that ODBC asks for.
`DeliveredAsItIs` says that a call that succeeds has lost nothing else, in the
types of value and C type the model has.

### SettingParser: the SET statements before a query

One action for each state of the automaton of `extractSetStatements`; `text`,
`i`, `currentStart`, `settings`, `excludeRanges` and `errors` are its local
variables. A text is a sequence of symbols: the characters the parser looks at,
the word "set" in any case, and words that stand for text without these.
`Leading` and `Meaning` define, from the text alone, which SET statements begin
a query and what each assigns; `ParsedAsMeant` compares the automaton with them.
The branch of `setting_parser.cpp` 77-82 (a text that ends behind "set") cannot
be reached, because `parse` has put a semicolon at the end; that the next state
is always found is part of the deadlock check. What the client does with the
result is in `QueryExecution`: errors are logged (`client.cpp` 703), and the
statement they are about stays in the query that is run.

## The runs

| Run | What it shows |
|---|---|
| `reader` | with downloads that may fail or serve fewer rows than asked: rows in order and complete; no batch downloaded twice or lost; no worker sleeps over a queued task; a worker that is not waiting when `Close` begins exits; the reader is a row cursor, and answers every `Next` until it has taken a short batch (`TookShortBatch`): what follows such a batch was never scheduled, and it waits for ever |
| `reader_close` | **violated**: `Close` misses a worker between its predicate and its wait, and joins it for ever |
| `statement` | over two results, in any order of calls: `SQLGetData` reads the last row taken, the end is true, rows are accounted for, no row follows an error, a fetch loop ends |
| `statement_close` | **violated**: after the end of a result, `SQL_CLOSE` and another execution, the first fetch answers `SQL_NO_DATA` |
| `query` | a result is only ever that of a query that succeeded; the query runs at most once, after its explain request; both have the same hints; every call returns, but a fetch behind a batch that the server has cut short; no step of the stream leaves the row cursor, through its lazy initialisation and whatever the session's answer says of the number of rows |
| `query_schema` | **violated**: a query with settings is sent without the default schema |
| `handles` | nothing destroyed is used; a handle finds its object and a freed one nothing; the list of statements is right; every call returns, unless a stream never lets it go or it waits for the mutex behind a destructor whose join never ends |
| `decoding` | whatever is altered, lost or repeated in a body, twice: records returned without an error are those that were sent, once each and in order, up to what the checksums cover, or none at all; `deserializeNext` returns a record nobody sent only when that has no value; a body that is not damaged is read, unless it is longer than the limit protobuf starts with or holds an array that is refused, for its length or for its elements |
| `session` | with six connection strings, over two connects: the client of an open connection goes where the call that opened it said, or the environment, but for settings an earlier call left; the rows of `SQLTables` are complete and ended, however tables come and go between pages; a row of it names the table `SQLColumns` describes |
| `conversion` | nothing is written past a buffer of the application, in data and diagnostic calls, but a wide text past 0 or 1 bytes; a diagnostic text that comes back with success is whole, but in three cases of the wide calls; a row that is delivered with success is that row, but for the losses that are named |
| `settings` | over texts of up to four pieces: the automaton finds the settings, the errors and the remaining query that the definition by statements gives, takes nothing but SET statements out of the text, and always comes to its end |
| `handles_connect` | **violated**: a `SQLConnect` that returned an error leaves a client, and the connection is reported alive |

### Bounds

- Reader: two workers, because every race here is between two workers or
  between one and the owner. Seven rows in batches of two: four batches, the
  last one short, and a limit of two, so that the queue fills, drains and is
  refilled while batches are in flight and cached out of order.
- Statement: two results, because what goes wrong is what the first leaves to
  the second; two rows, so that a row can be fetched, lost and left over; two
  columns, so that the bindings grow.
- Query: three polls (1200 in the code): the first answer, a later one, and none
  in time. Queries of 0, 2, 3 and 6 rows with an `int` of six values (-3 to 2) and a
  64-bit count of 20: the counts are right, one row beyond what an `int` holds, and
  0 again. All configurations are initial states.
- Handles: two threads, three objects, two clients: a connection with two
  statements, two connections and a statement, three connections; a client that takes
  the place of another. `Building`, `Room`, `MakeClient` and `Begin` hold the
  bounds.

- Decoding: three columns: a scalar, an array, and an array of elements that cannot
  be read; eight downloads, of none, one and two records, with values of 0, with a
  null in an array, and with each kind of array that is refused: a record that can
  be lost, doubled, made up, or joined to the next. Two damages, because one must
  fit the other to deceive the count and a checksum (a record lost and the count
  altered, or two tags before zeros). The undamaged bodies have 4 to 14 items;
  `TotalBytesLimit` is 12, so that one of them lies beyond it; arrays are read up to
  two elements (`ArrayLimit`).
- Session: two connects, because what goes wrong is what the first leaves to the
  second; the catalog is asked after at most one (`MaxUsed`), since it sees of a
  connect only the client. Six strings: plain; partial with a bad number;
  another schema and an empty key; quoted values and no namespace schema; for
  SQLConnect with blanks; and a name. Three tables on pages of one name, one of
  them in a second schema as well, and one change: a page before, at and after
  it. Rows are counted up to two.
- Conversion: for every type values at, within and beyond each limit; buffers of
  no byte, one, too small, exact and large; lengths up to 31 (`LengthMax`, the
  greatest `SQLSMALLINT`) with buffers of up to 20 characters and messages of up to
  17 bytes, so that sizes and lengths in bytes wrap; two charsets, one of them with
  characters it cannot represent; two rows, so that one can be taken for the
  other, two columns, so that one can fail before the other. Failures with
  records happen before columns are bound, and `SQLGetData` takes columns that
  are not bound: neither limits what a conversion can meet.

- Settings: every text of up to four of sixteen pieces (`MaxPieces`), about
  59 000: a SET statement before, in or behind a comment, two for one key, one
  without "=" or a key, an escaped semicolon at every place, and text behind
  them. Each passes the automaton in a few steps.

### Fairness, and why the code justifies it

- Reader: strong fairness of each worker's step and of the owner's steps inside
  a call. The operating system runs every thread, a `std::mutex` that is
  released again and again is obtained, and a download ends (the HTTP client has
  connect and read timeouts). The application's next call and spurious wakeups
  are not assumed.
- Statement: weak fairness of `Fetch`, for the loop of docs/usage.md:246 that
  `FetchLoopEnds` is about. Nothing else is assumed.
- Query: weak fairness of the client's step, which every request allows because
  it is answered or times out. One of its steps is a wait of the reader that never
  ends, after which there is none (`starved`): fairness grants no row. The server is not assumed to finish a query: it
  is the poll count that ends the call. That a request fails is not assumed.
- Catalog: weak fairness of a page (`ListPage`) and of the refusal of an
  unknown schema (`ListRefused`): the service answers each request. That a
  request fails otherwise is possible and not assumed.
- Conversion, decoding and settings: none; every step reads on or ends, and no property is
  about time.
- Handles: strong fairness of each thread's steps inside a call, as for the
  reader, except where the call is inside a stream (`InStream`): that a row comes,
  or that the download threads of a stream can be joined, is not assumed, because
  the run `reader_close` shows that they may not. The application's next call is not
  assumed either.

## The proofs

For every value of the constants that the assumptions of the module allow, tlapm
checks the following. Each proof has an inductive invariant with one case for
each action, and temporal steps by PTL.

`RecordReaderProofs` (from `ReaderAssumption`: at least one worker, positive
batch size and limit):

- `Typing`. The type invariant is strengthened by what is known of the points
  at which workers exist and of the tasks they hold.
- `RowsInOrder`, `EndIsComplete`. What is cached at a position is the rows from
  that position on, and the current batch has been read up to `totalRead`
  (`RowsInv`): the order follows although batches complete in any order.
- `BatchInOnePlace`. `OnePlace` alone is not inductive, because a pushed task
  must be new: the outstanding batches lie apart from each other between the
  next batch to take and the next one to schedule (`Spread`).
- `AwaitedBatchOnItsWay`. The outstanding batches follow each other without a
  gap (`Unbroken`). A short batch breaks the chain, and for good: the batches
  left lie beyond all the rows it was asked for (`Beyond`), so that `Next` finds
  none under its key.
- `NoLostTaskWakeup`. While the owner fills the queue it holds the mutex, so no
  worker is between its test and its wait.
- `ReaderImplementsCursor`.
- `ReadAheadIsBounded` counts. Every batch begins at a multiple of the batch size
  (`AlignedInv`), so that a position stands for one batch; and the batches
  outstanding together with the room that the scheduler under way has found never
  exceed the limit plus limit - 1 for each batch taken (`RoomInv`). No run checks
  it: with few batches it says little, and the theorem is about any number.

`StatementProofs` (from `StatementAssumption`): `HandleTyping`,
`GetDataReadsLastRow`, `FirstEndIsTrue`, `EveryRowAccountedFor`, and the action
property `ErrorEndsResult`. The properties lean on three facts no run states:
a stream that says it has ended has no row left or has failed, only a tunnel
stream fails and then it has ended, and results are numbered upwards.

`QueryExecutionProofs` (from `QueryAssumption`): `QueryTyping`,
`ResultsAreOfSuccess`, `QueryRunsOnce`, `QueryExplainedAsRun`,
`StreamImplementsCursor`. The invariant says in which part of the
call the client is (`InPhase`), that the instance it holds is the last the
server accepted (`InHand`), that the log is an explain request and then a query
(`Log`), that past a wait its instance has succeeded (`Waited`), that the
client's hints are those of what it has submitted (`HintsKept`), and that an
error is the end of the stream (`EndKept`). `HintsKept` is what makes
`ExplainedAsRun` inductive: the explain request changes the hints of a request
the code believes to be another one.

`HandleLifecycleProofs` (from `LifecycleAssumption`): `LifecycleTyping`,
`NothingDestroyedIsUsed`, `FindsItsObject`, `StatementsAreListed`, for any number
of threads, objects and clients. None of the last three is inductive alone. A destructor may run only if no
thread still uses the object, and that rests on a chain the invariant spells out:

- tokens are given out upwards, one object each, and what the registry finds is
  alive (`Given`);
- a call that began with a valid handle finds it in the registry until it erases
  it itself, and then holds the mutex (`HeldBy`), because calls under way do not
  conflict (`Apart`, which is what `Allowed` says of the application);
- so the object in its hands is the one the handle stands for, and it is alive;
- what the call has found out about its connection stays true (`KnownBy`): a
  connection has a client of its own (`Owned`), and the stream of a statement
  refers to the client its connection has now, unless a disconnect ended it
  (`Streams`);
- a connection outlives its statements (`Family`) and lists them
  (`ListsItsStatements`), and an object that is not entered yet is known to its
  thread alone (`FreshOf`).

That calls are kept apart, and that no statement is used whose connection has
been closed or opened again (`Allowed`), are promises of the application and not
of the driver: nothing in `handles.h` keeps one thread from freeing the handle
another is using.

`SettingParserProofs` (from `QueriesAssumption`): `NothingElseRemoved`, for a
query of any length. `OnlySetsRemoved` is not inductive alone: the ranges found
so far must lie behind the statement under way (`Behind`), and between its "set"
and the next position there must be blanks only (`Begun`), so that the first
semicolon found is the first one of the statement.

`QueriesParsedAsMeant`: for a query of any length the automaton finds what the
text says. The text falls into pieces (`Starts`, `PieceEnd`): blanks, comments
and SET statements, and then the first statement of another kind. The invariant
`PInv` says at which piece the automaton is (`AtPiece`), and that it has read
what the statements before that piece say (`ReadTo`): the settings with the last
value of each key, the errors in order, and one range for each assignment. It
needs the semicolon that `parse` puts at the end (`Ended`): without it a text
could end behind "set". Three parts carry the proof: the pieces follow each
other without a gap (`NextPiece`), `parseKeyValue` reads the same key and value
between the first written character and the semicolon as the reference does
between "set" and the semicolon (`EndedMeans`), and gluing the gaps between the
ranges together gives the text without the ranges (`RemainingIs`). The
reference is defined by recursive functions; what is proved about them rests on
least counterexamples (`StepsExist`, `StepsAgree`).

`RecordDecodingProofs` (from `DecodingAssumption`: at least one column, fewer
than the reserved field numbers; and `ItemAssumption`: downloads are sequences
of records of the schema, no value of a column is the checksum of an update and
damage makes none): `DeliveredRecordsWereSent`, `AcceptedRecordsWereSent`,
`UndamagedIsReadToTheEnd`, for any number of columns, records and damages. The
argument is not about the decoder's state alone but about where checksums come
from. The items that travel are those sent and `Items`, so every checksum in a
body that is not 0 is that of a sent record or of the sent download (`Types`).
What the decoder adds up describes the record it gathers (`Described`): that the
two compare equal makes the record look like a sent one (`Delivered`), and the
checksum of the checksums makes the sequence the one that was sent
(`RecordsDescribed`, `Accepted`). A checksum of 0 proves nothing: it is where the
record without a value and the download without a record get in, and the theorems
say that nothing else does. For `UndamagedIsRead` the invariant `ReadInPlace` says
where in the encoding the decoder stands: after r - 1 records and c columns, with
the sums of exactly those.

`SessionProofs` (from `CatalogAssumption` and `ConnectionAssumption`):

- `ListingsAreComplete`. Between two pages the rows so far are names up to the
  marker, once each, all of them seen; those that have been there since the first
  page are in the rows up to the marker (`ListingOK`, `SeenOK`), whatever is
  created or dropped in between (`TablesOK`).
- `RowsLeadBack`. The label of a listing is the schema it was made from, or the
  client's own where the label is empty or a pattern (`LabelsOK`), and the client
  has the configuration of the handle but for the schema model (`ClientInv`).
  `ClientInv` needs that the configuration the parsers leave is one, for every
  string: the recursive function of `Parameters` exists because each step ends
  behind where it began.
- `ConnectionsHaveClients`: a client is there whenever the driver manager thinks
  the connection open.
- `ClientsGoWhereTold`. That the parsers agree is an equation between two
  recursive functions over a string, `PlainParsersAgree`: where a piece of a plain
  string begins, both find the same next parameter and go on at the same place
  (`PlainPiece`, `PlainNext`), so a last place where they differ cannot be. Of the
  values stored for a setting the last one stays (`StoredIsLast`), which makes the
  configuration after a call follow what that call gave last, what the call found
  stored, or the environment (`Follows`, `GivenInv`); and an open connection is one
  whose configuration was complete. The theorem assumes of `NoValue` only that it
  is no text.

`ConversionProofs` (from `ConversionAssumption`, `MessageAssumption` and
`LengthAssumption`):
`WritesStayInBuffers`, `DiagnosticsAreWhole`, `ValuesArriveAsTheyAre`, for all
values, texts, charsets and sizes. What a text takes is a fold over its
characters; the proofs use that it exists and grows with each character
(`TakenStep`), so that what fits is the longest beginning with room for it
(`FittingFits`) and that with room for as many bytes as the text has in UTF-8,
the terminator included, UTF-16 lacks one character at most
(`WideKeepsAllButOne`). A cast to a `SQLSMALLINT` keeps what is one and makes
negative twice a size that is too large (`SmallIntKept`, `SmallIntWraps`). One lemma for each C type says of `convertAndWrite` that
a success is faithful or one of `KnownLoss` and stays in the buffer;
`ConversionIsGood` puts them together, and the invariant adds that no buffer is
written before the first row and that a row that is kept is one of the result
(`Sound`).

The attempt to prove `DeliveredAsItIs` refuted it as it was first stated: for an
integer one below the least that every double reaches exactly (-2^53 - 1) the
loss was not named in `KnownLoss`. It is now, and the instance of TLC has that
value.

Model-checked only: every liveness property (`ENABLED` and fairness are out of the
prover's reach). What recursive definitions compute is proved for the functions the
parsers are defined by, and nowhere with an induction theorem of the library.

## Findings

- `tunnel.cpp:187`: `Close` sets `mShutdown` and notifies without `mTaskMutex`;
  a worker can miss the wakeup and the destructor never returns (`reader_close`).
- `handles.cpp:281`: `m_end_of_stream` is never reset; a second result on the
  same statement ends at once (`statement_close`).
- `client.cpp:724`: settings replace the hints that hold the default schema
  (`query_schema`).
- `handles.cpp:71`: a failed `SQLConnect` leaves the connection with a client
  (`handles_connect`).

Met on the way, and part of the models without a run of their own:

- `entry_points.cpp:1296`: the wide `SQLExecDirectW` with an empty text leaves
  the previous result open where the ANSI one drops it (`Statement`,
  `ExecuteDirectEmptyW`).
- `proto_deserializer.cpp:122`: the test that should renew protobuf's limit
  compares a count that does not grow, so that a batch longer than the limit
  (64 MB) cannot be read, although the comment of line 121 says "Handle
  CodedInputStream's size limit by recreating it if necessary" (`Undamaged` leaves
  such a body out).
- `proto_deserializer.cpp:459`: arrays of INT, SMALLINT, FLOAT, DECIMAL and of dates
  and times are refused with "Unsupported nested type" (`IsRefused`).
- `proto_deserializer.cpp:182`: the checksum of nothing is an ordinary 0
  (`checksum.h` 29, 129), so that a damaged tag can end a record without values, or
  a download without records (`DeliveredIsSent`, `AcceptedIsSent`).
- `tunnel.h:84` calls `prefetchLimit` the maximum number of pending prefetch
  batches; `tunnel.cpp:225` bounds the queue alone, and what is in flight and cached
  grows with each batch taken (`ReadAheadIsBounded`).
- `tunnel.cpp:109`: a session whose answer has no `RecordCount` is taken to have no
  rows, and one of more than 2^31 - 1 rows another number of them (`recordCount`).
- `entry_points.cpp:1569` and `1587`: the comments say that the environment is taken
  when the connection string does not name a setting; what an earlier call left,
  a failed one too, keeps it out (`LeftOver`).
- `config.cpp:380`: the parameter behind a quoted value is lost (`IsPlain`).
- `entry_points.cpp:2526`: "If the message was truncated due to buffer size, return
  SQL_SUCCESS_WITH_INFO" does not hold in the three cases of `LostUntold`: the last
  character, a buffer of 16384 characters or more, of which the size in bytes is no
  `SQLSMALLINT`, and a text that needs more than 32767 bytes.
- `conversions.cpp:633` and `utils.h:210`: the room of a wide buffer of 0 or 1 bytes
  is computed as a `size_t` that wraps around (`WrittenFits` names both).
- `client.cpp:461`: the marker of the next page is added to a multimap next to
  the earlier ones, so each request carries them all; the listing ends because
  the service is taken to read the last one.
- `conversions.cpp`: the losses of `KnownLoss`.
- `setting_parser.cpp:11`: the semicolon is added at the end of the text even
  where the text ends in a comment, which then swallows it (`Terminated`).
  `setting_parser_test.cpp:41` says that comments are not looked for; they are.
- README.md documents `LoginTimeout`, `TunnelEndpoint` and `TunnelQuotaName`; the
  parsers of connection strings know none of them.

## Not modelled

- `SQLGetInfo`, `SQLDescribeCol`, `SQLColAttribute`, `convertColumn`,
  `typeinfo.cpp`, the attributes of environments and statements: tables and
  constants that change nothing a later call sees.
- MAP, STRUCT, nested arrays and date and time columns in the deserializer, damage
  inside an item, and the wording of numbers and dates in the conversions.
- The encoding the service uses for the flags of elements, and the marker it reads:
  taken from what the code accepts.
- HTTP, signing, XML and JSON: input and output over libraries; their outcomes
  are choices of the models.
- Logging: no state a property is about.
- `BufferedRecordReader`: no caller.
- Misconfigurations that need no interleaving to fail (no download thread, a
  batch size of 0), and accesses whose outcome is undefined (a column number out
  of range, a stream used after its client): excluded by an assumption or a
  guard that says so.

## The plan

Done: `RowCursor`, `RecordReader`, `Statement`, `QueryExecution`,
`HandleLifecycle`, `SettingParser`, with proofs; `RecordDecoding`,
`ConnectionString` with `Connection` and `Catalog`, and `TextOut` with
`Diagnostics` and `ValueConversion`, with proofs.

Left: no invariant of a run is without its theorem. What remains to be modelled
is listed above.
