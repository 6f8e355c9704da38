------------------------------- MODULE Catalog -------------------------------
(***************************************************************************)
(* The catalog calls of a statement, SQLTables and SQLColumns, over the    *)
(* connection of module Connection, while others create and drop tables.   *)
(*                                                                         *)
(* SQLTables asks for one page of names after the other; the service reads *)
(* the last marker of a request and answers with the names after it.  All  *)
(* tables have the same columns.  A table is known by its schema and its   *)
(* name, here by the place of the name in the service's order.             *)
(***************************************************************************)
EXTENDS Connection, FiniteSets

CONSTANTS Schemas,        \* schemas of the project; "default" is one
          TableNames,     \* the names of tables, in the order the service lists them
          PageSize,       \* bound: names on a page
          MaxChanges,     \* bound: tables created and dropped
          MaxUsed,        \* bound: connects after which the catalog is not asked
          InitialTables,  \* what tables the project may begin with: schema |-> names
          Like,           \* pattern |-> the schemas and names its regex matches
          SchemaArgs, TableArgs, ColumnArgs, CatalogArgs,   \* arguments of the calls
          Wildcards,      \* the arguments that hold a % or a _
          TypeArgs,       \* sets of types SQLTables is asked for
          Columns, PartitionColumns,   \* of every table
          None            \* no call under way; no result

Names == DOMAIN TableNames

ASSUME CatalogAssumption ==
  /\ "default" \in Schemas /\ "" \notin Schemas
  /\ PageSize \in Nat \ {0} /\ MaxChanges \in Nat
  /\ TableNames \in Seq(STRING)
  /\ InitialTables \subseteq [Schemas -> SUBSET Names]

VARIABLES
  tables,    \* the tables of the project: schema |-> names
  changes,   \* history: tables created and dropped
  listing,   \* SQLTables under way
  result     \* m_result_stream of the statement

statement == <<listing, result>>
vars == <<connVars, tables, changes, statement>>

Init ==
  /\ ConnInit
  /\ tables \in InitialTables
  /\ ~schemaModel => \A s \in Schemas \ {"default"} : tables[s] = {}
  /\ changes = 0
  /\ listing = None
  /\ result = None

-----------------------------------------------------------------------------
(* The service                                                             *)

\* The schema a request is about: without the schema model there is only one, and a
\* client that takes the project for one without names none.
Addressed(schema) ==
  IF client.namespaceSchema /\ schemaModel THEN schema ELSE "default"

\* The first names after the marker (0 for none), and the marker of the next page.
Page(names, marker) ==
  LET after == {n \in names : n > marker}
      page == {n \in after : Cardinality({o \in after : o < n}) < PageSize}
  IN  [names |-> page, marker |-> IF page = after THEN 0 ELSE Max(page)]

\* Others change the tables while a listing is under way; what they do before it begins
\* is in InitialTables.  The listing remembers, as history, what it could see.
ChangeTables(t) ==
  /\ listing # None
  /\ changes < MaxChanges
  /\ changes' = changes + 1
  /\ tables' = t
  /\ LET now == t[Addressed(listing.schema)]
     IN  listing' = [listing EXCEPT !.stable = @ \cap now, !.seen = @ \cup now]
  /\ UNCHANGED <<connVars, result>>

CreateTable ==
  \E s \in Schemas, n \in Names :
    /\ schemaModel \/ s = "default"
    /\ n \notin tables[s]
    /\ ChangeTables([tables EXCEPT ![s] = @ \cup {n}])

DropTable ==
  \E s \in Schemas : \E n \in tables[s] :
    ChangeTables([tables EXCEPT ![s] = @ \ {n}])

-----------------------------------------------------------------------------
(* Patterns                                                                *)

sqlLikeMatch(text, pattern) ==
  \/ pattern \in {"", "%", text}
  \/ pattern \in DOMAIN Like /\ text \in Like[pattern]

\* m_config.project is a value, its argument a text.
IsOurCatalog(catalog) == catalog \in {"", "%"} \/ config.project = <<catalog>>

\* A schema is a value of the configuration; an argument is a text.
Text(value) == IF Len(value) = 1 THEN value[1] ELSE ""

IsPattern(schema) == schema \in Wildcards

\* The one schema listSchemas knows of.
listSchemas == IF client.namespaceSchema THEN Text(client.schema) ELSE "default"

-----------------------------------------------------------------------------
(* SQLTables                                                               *)

KeepConnection == UNCHANGED <<service, handle, history>>

NotOpen ==
  /\ client = NoClient
  /\ Explain("ERROR", "08003")

Answered(r) ==
  /\ result' = r
  /\ Succeed
  /\ UNCHANGED listing

EmptyList == [kind |-> "tables", label |-> None, of |-> None, rows |-> [n \in Names |-> 0],
              due |-> {}, seen |-> {}]

ListCatalogs == [kind |-> "catalogs"]

\* The names among which the call has to answer.
Wanted(names, table, types) ==
  {n \in names : /\ sqlLikeMatch(TableNames[n], table)
                 /\ types \in {{}, {"%"}} \/ "TABLE" \in types}

\* The rows count how often a name was listed; 2 stands for more than once.
BeginListing(schema, table, types) ==
  /\ listing' = [schema |-> schema, table |-> table, types |-> types,
                 marker |-> 0, rows |-> [n \in Names |-> 0],
                 stable |-> tables[Addressed(schema)], seen |-> tables[Addressed(schema)]]
  /\ UNCHANGED <<answer, result>>

List(catalog, schema, table, types) ==
  LET everything == catalog = "%" /\ schema = "%" /\ table = "%" /\ types = {}
      searched == schema = "" \/ IsPattern(schema)
      asked == IF searched THEN listSchemas ELSE schema
      filtered == IsPattern(schema) /\ ~sqlLikeMatch(asked, schema)
  IN  /\ client # NoClient
      /\ CASE ~IsOurCatalog(catalog) -> Answered(EmptyList)
           [] IsOurCatalog(catalog) /\ everything -> Answered(ListCatalogs)
           [] IsOurCatalog(catalog) /\ ~everything /\ filtered -> Answered(EmptyList)
           [] OTHER -> BeginListing(asked, table, types)

CallTables ==
  /\ listing = None /\ connects <= MaxUsed
  /\ \/ NotOpen /\ UNCHANGED statement
     \/ \E catalog \in CatalogArgs, schema \in SchemaArgs, table \in TableArgs,
           types \in TypeArgs : List(catalog, schema, table, types)
  /\ UNCHANGED <<tables, changes>>
  /\ KeepConnection

SQLTables  == CallTables
SQLTablesW == CallTables

More(count) == IF count = 0 THEN 1 ELSE 2

\* Fault: the request for the next page asks for the first one again.
NextMarkerForgotten(page) == IF page.marker = 0 THEN 0 ELSE listing.marker

NextMarker(page) == page.marker

\* fetchAndAddTablesForSchema filters what listTables has collected.
Listed(rows) ==
  LET kept == Wanted(Names, listing.table, listing.types)
  IN  [kind |-> "tables", label |-> listing.schema, of |-> Addressed(listing.schema),
       rows |-> [n \in Names |-> IF n \in kept THEN rows[n] ELSE 0],
       due |-> Wanted(listing.stable, listing.table, listing.types),
       seen |-> listing.seen]

\* Fault: the last page, the one without a marker, is not read.
EndListingWithoutLastPage(rows) ==
  result' = Listed(listing.rows) /\ listing' = None /\ Succeed

EndListing(rows) == result' = Listed(rows) /\ listing' = None /\ Succeed

\* One turn of the loop of listTables: the page is read, and the loop ends when it
\* has no marker.
ListPage ==
  /\ listing # None
  /\ Addressed(listing.schema) \in Schemas
  /\ LET page == Page(tables[Addressed(listing.schema)], listing.marker)
         rows == [n \in Names |-> IF n \in page.names THEN More(listing.rows[n])
                                                      ELSE listing.rows[n]]
     IN  \/ page.marker = 0 /\ EndListing(rows)
         \/ /\ page.marker # 0
            /\ listing' = [listing EXCEPT !.rows = rows, !.marker = NextMarker(page)]
            /\ UNCHANGED <<answer, result>>
  /\ UNCHANGED <<tables, changes>>
  /\ KeepConnection

\* The request fails, or its answer cannot be parsed; the old result stays.
ListFails ==
  /\ listing # None
  /\ Explain("ERROR", "HY000")
  /\ listing' = None
  /\ UNCHANGED <<result, tables, changes>>
  /\ KeepConnection

-----------------------------------------------------------------------------
(* SQLColumns                                                              *)

AllColumns == Columns \o PartitionColumns     \* Table::forEachColumn

\* The position counts the rows, not the columns of the table.
convertTable(columns, pattern) ==
  LET kept == SelectSeq(columns, LAMBDA c : pattern \in {"", "%"} \/ c = pattern)
  IN  [i \in DOMAIN kept |-> [column |-> kept[i], position |-> i]]

\* Fault: an empty schema stands for the schema "default".
SchemaOfColumnsDefault(schema) ==
  IF schema # "" /\ ~IsPattern(schema) THEN schema ELSE "default"

SchemaOfColumns(schema) ==
  CASE schema # "" /\ ~IsPattern(schema) -> schema
    [] (schema = "" \/ IsPattern(schema))
         /\ config.namespaceSchema /\ config.schema # << >> -> Text(config.schema)
    [] OTHER -> "default"

\* The table is asked for by its exact name; its schema is not taken from the answer.
ColumnsOf(schema, table, pattern) ==
  [kind |-> "columns", of |-> <<schema, table>>,
   rows |-> convertTable(AllColumns, pattern)]

NoColumns == [kind |-> "columns", of |-> None, rows |-> << >>]

\* The old result is gone whatever the answer.
Describe(catalog, schema, table, pattern) ==
  LET s == Addressed(SchemaOfColumns(schema))
      found == {n \in Names : TableNames[n] = table /\ s \in Schemas /\ n \in tables[s]}
  IN  /\ client # NoClient
      /\ \/ /\ table # "" /\ ~IsOurCatalog(catalog)
            /\ Answered(NoColumns)
         \/ /\ table # "" /\ IsOurCatalog(catalog) /\ found # {}
            /\ \E n \in found : Answered(ColumnsOf(s, n, pattern))
         \/ /\ (table = "" \/ IsOurCatalog(catalog))    \* no name, or getTable fails
            /\ Explain("ERROR", "HY000")
            /\ result' = None /\ UNCHANGED listing

CallColumns ==
  /\ listing = None /\ connects <= MaxUsed
  /\ \/ NotOpen /\ result' = None /\ UNCHANGED listing
     \/ \E catalog \in CatalogArgs, schema \in SchemaArgs, table \in TableArgs,
           pattern \in ColumnArgs : Describe(catalog, schema, table, pattern)
  /\ UNCHANGED <<tables, changes>>
  /\ KeepConnection

SQLColumns  == CallColumns
SQLColumnsW == CallColumns

-----------------------------------------------------------------------------
(* The connection's own calls                                              *)

\* An application frees its statements before it disconnects (docs/usage.md); of the
\* other calls of the connection, none is made while a result is open, to bound the model.
ConnectionCall ==
  /\ listing = None
  /\ SQLDisconnect \/ (result = None /\ ConnNext)
  /\ result' = None
  /\ UNCHANGED <<listing, tables, changes>>

Next ==
  \/ ConnectionCall
  \/ CreateTable \/ DropTable
  \/ SQLTables \/ SQLTablesW \/ ListPage \/ ListFails
  \/ SQLColumns \/ SQLColumnsW

Spec == Init /\ [][Next]_vars

\* The service refuses a request about a schema it does not have.
ListRefused ==
  /\ listing # None
  /\ Addressed(listing.schema) \notin Schemas
  /\ ListFails

\* The service answers every request: with a page, or with an error when there is no
\* such schema.  Nothing makes it fail otherwise.
FairSpec == Spec /\ WF_vars(ListPage) /\ WF_vars(ListRefused)

-----------------------------------------------------------------------------
(* Properties                                                              *)

\* However its pages interleave with tables that come and go, SQLTables lists no table
\* twice, none that was never there, and every one that was there all the time: the
\* marker is all that links one page to the next (client.cpp 410-461).
StableAreListed ==
  result # None /\ result.kind = "tables" =>
    /\ \A n \in Names : result.rows[n] <= 1
    /\ LET listed == {n \in Names : result.rows[n] > 0}
       IN  result.due \subseteq listed /\ listed \subseteq result.seen

\* A row of SQLTables handed to SQLColumns, the schema in it included, describes the
\* very table that was listed, as long as handle and client take the project for the
\* same: the two calls resolve a schema apart (handles.cpp 926-953 and 1035-1047), and
\* the client follows the project where the handle follows the string.
RoundTrip ==
  /\ told /\ result # None
  /\ result.kind = "tables" /\ result.label # None
  /\ config.namespaceSchema = client.namespaceSchema
  => Addressed(SchemaOfColumns(result.label)) = result.of

\* A listing ends although every page may bring another marker: each request goes on
\* behind the last one (client.cpp 412, 459-461).
ListingEnds == listing # None ~> listing = None

=============================================================================
