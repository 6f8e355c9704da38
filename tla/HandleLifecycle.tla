--------------------------- MODULE HandleLifecycle ---------------------------
(***************************************************************************)
(* The objects behind the ODBC handles: the registry that owns them        *)
(* (handle_registry.h), connections and their clients, statements and      *)
(* their result streams, under several threads of the application.         *)
(*                                                                         *)
(* A call looks its handle up with the registry's mutex held and goes on   *)
(* with a raw pointer after it has let the mutex go.  free() keeps the     *)
(* mutex while it destroys the object, and the destructor of a statement   *)
(* waits for the download threads of its stream.                           *)
(*                                                                         *)
(* Environment handles are left out: a connection keeps a pointer to its   *)
(* environment and never uses it.                                          *)
(***************************************************************************)
EXTENDS Integers, Sequences, FiniteSets

CONSTANTS Threads,      \* threads of the application
          MaxObjects,   \* bound on the objects ever built
          MaxClients,   \* bound on the clients ever built
          NoThread

ASSUME LifecycleAssumption ==
  /\ MaxObjects \in Nat /\ MaxClients \in Nat
  /\ NoThread \notin Threads

\* Objects and clients are numbered from 1 as they are built, 0 is none of them; tokens
\* as they are given out, 0 is no handle.
Tokens == 1 .. MaxObjects

ConnCalls == {"AllocHandle(STMT)", "Connect", "Disconnect", "FreeHandle(DBC)"}
StmtCalls == {"ExecDirect", "Fetch", "FreeHandle(STMT)"}
FreeCalls == {"FreeHandle(DBC)", "FreeHandle(STMT)"}
Calls     == {"AllocHandle(DBC)"} \cup ConnCalls \cup StmtCalls

\* client: m_sdk of a connection; of a statement, the client its stream refers to.
\* listed: m_statements of a connection.  ended: history, the connection of the
\* statement has got another client or none since the statement was built.
Object == [kind : {"conn", "stmt"}, alive : BOOLEAN, parent : Nat,
           client : Nat, listed : SUBSET Nat, ended : BOOLEAN]

\* Where a thread is: at the mutex ("lookup", "insert", "erase"), in a constructor or a
\* destructor ("build", "join"), or in the call's own work.
Points == {"idle", "lookup", "build", "insert", "connect", "session", "disconnect",
           "check", "query", "fetch", "erase", "join"}

Thread == [at : Points, call : Calls, token : Tokens \cup {0},
           ptr : Nat, client : Nat,
           stale : BOOLEAN]    \* history: the handle was free when the call began

\* A thread outside the driver.
Idle == [at |-> "idle", call |-> "AllocHandle(DBC)", token |-> 0, ptr |-> 0, client |-> 0,
         stale |-> FALSE]

VARIABLES
  objects,    \* every object ever built
  clients,    \* the clients that are alive
  built,      \* how many clients have been built
  registry,   \* objects_: the object of a token, 0 when it has none
  nextToken,  \* next_token_
  issued,     \* history: the object a token was first given out for
  mutex,      \* the thread that holds the registry's mutex
  thread,     \* where each thread is
  refused,    \* history: the connection whose SQLConnect has just returned an error, or 0
  misused     \* history: a thread has used an object or a client that is not alive

heap  == <<objects, clients, built>>
table == <<registry, nextToken, issued>>
vars  == <<heap, table, mutex, thread, refused, misused>>

Init ==
  /\ objects = <<>> /\ clients = {} /\ built = 0
  /\ registry = [k \in Tokens |-> 0] /\ nextToken = 1
  /\ issued = [k \in Tokens |-> 0]
  /\ mutex = NoThread
  /\ thread = [t \in Threads |-> Idle]
  /\ refused = 0 /\ misused = FALSE

-----------------------------------------------------------------------------
At(t, p) == thread[t].at = p

Goes(t, p) == thread' = [thread EXCEPT ![t].at = p]

Returns(t) == thread' = [thread EXCEPT ![t] = Idle]

Alive(o) == o \in DOMAIN objects /\ objects[o].alive

\* A step works with an object or a client that has to be alive.
Uses(ok) == misused' = (misused \/ ~ok)

MutexFree == mutex = NoThread

\* The type a call asks the registry for.
RightKind(o, call) == objects[o].kind = IF call \in ConnCalls THEN "conn" ELSE "stmt"

-----------------------------------------------------------------------------
(* What the application may do.                                            *)

\* The connection a call is about.
ConnectionOf(k) ==
  IF objects[issued[k]].kind = "conn" THEN issued[k] ELSE objects[issued[k]].parent

Structural == {"Connect", "Disconnect", "FreeHandle(DBC)"}

\* Two calls that must not overlap: on one handle; on a connection that is opened,
\* closed or freed; and the two that change a connection's list of statements.
Conflict(c, k, d, l) ==
  \/ k = l
  \/ /\ ConnectionOf(k) = ConnectionOf(l)
     /\ \/ c \in Structural \/ d \in Structural
        \/ c = "AllocHandle(STMT)" /\ d \in {"AllocHandle(STMT)", "FreeHandle(STMT)"}
        \/ d = "AllocHandle(STMT)" /\ c \in {"AllocHandle(STMT)", "FreeHandle(STMT)"}

\* docs/usage.md: statements are freed before their connection; once it has been
\* disconnected they are good for nothing else.  A freed handle may still be tried.
Allowed(t, c, k) ==
  registry[k] # 0 =>
    /\ \A u \in Threads \ {t} : ~At(u, "idle") /\ thread[u].token # 0 =>
         ~Conflict(c, k, thread[u].call, thread[u].token)
    /\ c \in {"ExecDirect", "Fetch"} => ~objects[issued[k]].ended
    /\ c = "FreeHandle(DBC)" =>
         \A o \in DOMAIN objects : objects[o].parent = issued[k] => ~objects[o].alive

\* Bound: no more objects than MaxObjects are built.
Building(t) == thread[t].call \in {"AllocHandle(DBC)", "AllocHandle(STMT)"}
               /\ thread[t].at \in {"lookup", "build"}

Room == Len(objects) + Cardinality({t \in Threads : Building(t)}) < MaxObjects

\* Bound: a handle of the wrong kind is tried with SQLFetch only.
Begin(t, c, k) ==
  /\ At(t, "idle")
  /\ \/ /\ c = "AllocHandle(DBC)" /\ k = 0
        /\ Goes(t, "build")
     \/ /\ c # "AllocHandle(DBC)" /\ k # 0 /\ issued[k] # 0
        /\ c # "Fetch" => RightKind(issued[k], c)
        /\ Allowed(t, c, k)
        /\ thread' = [thread EXCEPT ![t] =
                        [at |-> IF c \in FreeCalls THEN "erase" ELSE "lookup",
                         call |-> c, token |-> k, ptr |-> 0, client |-> 0,
                         stale |-> registry[k] = 0]]
  /\ c \in {"AllocHandle(DBC)", "AllocHandle(STMT)"} => Room
  /\ UNCHANGED <<heap, table, mutex, misused>>

-----------------------------------------------------------------------------
(* HandleRegistry.                                                         *)

Found(o, call) == o # 0 /\ RightKind(o, call)

\* get: the mutex is not held any more when the pointer is used.
Lookup(t) ==
  /\ At(t, "lookup") /\ MutexFree
  /\ LET o    == registry[thread[t].token]
         call == thread[t].call
     IN  IF Found(o, call)
           THEN thread' = [thread EXCEPT ![t].ptr = o,
                  ![t].at = CASE call = "AllocHandle(STMT)" -> "build"
                              [] call = "Connect" -> "connect"
                              [] call = "Disconnect" -> "disconnect"
                              [] call = "ExecDirect" -> "check"
                              [] call = "Fetch" -> "fetch"]
           ELSE Returns(t)
  /\ UNCHANGED <<heap, table, mutex, misused>>

\* Fault: the lowest token that is not in use is given out.
LowestFreeToken == CHOOSE k \in Tokens : registry[k] = 0 /\ \A l \in 1 .. k - 1 : registry[l] # 0

FreshToken == nextToken

\* allocate.
Insert(t) ==
  /\ At(t, "insert") /\ MutexFree
  /\ registry' = [registry EXCEPT ![FreshToken] = thread[t].ptr]
  /\ issued' = [issued EXCEPT ![FreshToken] = IF @ = 0 THEN thread[t].ptr ELSE @]
  /\ nextToken' = nextToken + 1
  /\ Returns(t)
  /\ UNCHANGED <<heap, mutex, misused>>

-----------------------------------------------------------------------------
(* Constructors.                                                           *)

BuildConn(t) ==
  /\ At(t, "build") /\ thread[t].call = "AllocHandle(DBC)"
  /\ objects' = Append(objects, [kind |-> "conn", alive |-> TRUE, parent |-> 0,
                                 client |-> 0, listed |-> {}, ended |-> FALSE])
  /\ thread' = [thread EXCEPT ![t].ptr = Len(objects'), ![t].at = "insert"]
  /\ UNCHANGED <<clients, built, table, mutex, misused>>

\* A statement enters itself in the list of its connection.
BuildStmt(t) ==
  /\ At(t, "build") /\ thread[t].call = "AllocHandle(STMT)"
  /\ LET conn == thread[t].ptr
         new  == Len(objects) + 1
     IN  /\ Uses(Alive(conn))
         /\ objects' = Append([objects EXCEPT ![conn].listed = @ \cup {new}],
                              [kind |-> "stmt", alive |-> TRUE, parent |-> conn,
                               client |-> 0, listed |-> {}, ended |-> FALSE])
         /\ thread' = [thread EXCEPT ![t].ptr = new, ![t].at = "insert"]
  /\ UNCHANGED <<clients, built, table, mutex>>

-----------------------------------------------------------------------------
(* ConnHandle.                                                             *)

StatementsEnd(objs, conn) ==
  [o \in DOMAIN objs |-> IF objs[o].parent = conn THEN [objs[o] EXCEPT !.ended = TRUE]
                         ELSE objs[o]]

\* The connection string is no good: the connection keeps the client it may have.
ConnectRefused(t) ==
  /\ At(t, "connect")
  /\ Uses(Alive(thread[t].ptr))
  /\ refused' = thread[t].ptr
  /\ Returns(t)
  /\ UNCHANGED <<heap, table, mutex>>

\* A new client takes the place of the old one; in interactive mode it has yet to
\* get its session.  Bound: MaxClients.
MakeClient(t) ==
  /\ At(t, "connect")
  /\ built < MaxClients
  /\ built' = built + 1
  /\ LET conn == thread[t].ptr
     IN  /\ Uses(Alive(conn))
         /\ clients' = (clients \ {objects[conn].client}) \cup {built'}
         /\ objects' = StatementsEnd([objects EXCEPT ![conn].client = built'], conn)
         /\ Goes(t, "session") \/ Returns(t)
  /\ UNCHANGED <<table, mutex>>

\* getConnection is answered, or fails: the client stays either way.
OpenSession(t) ==
  /\ At(t, "session")
  /\ LET conn == thread[t].ptr
     IN  /\ Uses(Alive(conn) /\ objects[conn].client \in clients)
         /\ refused' \in {0, conn}
  /\ Returns(t)
  /\ UNCHANGED <<heap, table, mutex>>

\* Fault: the connection is not asked whether it is open.
Unchecked(conn) == TRUE

HasClient(conn) == objects[conn].client # 0

\* A connection that is not open is left as it is.
Disconnect(t) ==
  /\ At(t, "disconnect")
  /\ LET conn == thread[t].ptr
     IN  /\ Uses(Alive(conn))
         /\ IF HasClient(conn)
              THEN /\ clients' = clients \ {objects[conn].client}
                   /\ objects' = StatementsEnd([objects EXCEPT ![conn].client = 0], conn)
              ELSE UNCHANGED <<clients, objects>>
  /\ Returns(t)
  /\ UNCHANGED <<built, table, mutex>>

-----------------------------------------------------------------------------
(* StmtHandle.                                                             *)

\* executeDirect asks the connection for its client ...
CheckOpen(t) ==
  /\ At(t, "check")
  /\ LET stmt == thread[t].ptr
         conn == objects[stmt].parent
     IN  /\ Uses(Alive(stmt) /\ Alive(conn))
         /\ IF HasClient(conn)
              THEN thread' = [thread EXCEPT ![t].client = objects[conn].client,
                                            ![t].at = "query"]
              ELSE Returns(t)
  /\ UNCHANGED <<heap, table, mutex>>

\* ... and works with it until the query fails or the statement has a new stream,
\* which keeps a reference to the client unless it is complete.
Query(t) ==
  /\ At(t, "query")
  /\ LET stmt == thread[t].ptr
     IN  /\ Uses(Alive(stmt) /\ thread[t].client \in clients)
         /\ \E ref \in {objects[stmt].client, 0, thread[t].client} :
              objects' = [objects EXCEPT ![stmt].client = ref]
  /\ Returns(t)
  /\ UNCHANGED <<clients, built, table, mutex>>

\* fetch, of the stream the statement has.
Fetch(t) ==
  /\ At(t, "fetch")
  /\ LET stmt == thread[t].ptr
     IN  Uses(Alive(stmt) /\ (objects[stmt].client # 0 => objects[stmt].client \in clients))
  /\ Returns(t)
  /\ UNCHANGED <<heap, table, mutex>>

-----------------------------------------------------------------------------
(* HandleRegistry::free, with the mutex held to the end.                   *)

EraseToken(t) == registry' = [registry EXCEPT ![thread[t].token] = 0]

EraseNothing(t) ==
  /\ At(t, "erase") /\ MutexFree
  /\ registry[thread[t].token] = 0
  /\ Returns(t)
  /\ UNCHANGED <<heap, table, mutex, misused>>

\* What is left of an object: nothing anybody may look at.
Destroyed(o) == [objects[o] EXCEPT !.alive = FALSE, !.client = 0, !.listed = {}]

\* A connection goes with its client, and waits for nobody.
EraseConn(t) ==
  /\ At(t, "erase") /\ MutexFree
  /\ LET conn == registry[thread[t].token]
     IN  /\ conn # 0 /\ objects[conn].kind = "conn"
         /\ EraseToken(t)
         /\ clients' = clients \ {objects[conn].client}
         /\ objects' = [objects EXCEPT ![conn] = Destroyed(conn)]
  /\ Returns(t)
  /\ UNCHANGED <<built, nextToken, issued, mutex, misused>>

\* Fault: the statement stays in the list.
StillListed(list, stmt) == list

Unlisted(list, stmt) == list \ {stmt}

\* A statement first leaves the list of its connection ...
EraseStmt(t) ==
  /\ At(t, "erase") /\ MutexFree
  /\ LET stmt == registry[thread[t].token]
     IN  /\ stmt # 0 /\ objects[stmt].kind = "stmt"
         /\ EraseToken(t)
         /\ mutex' = t
         /\ LET conn == objects[stmt].parent
            IN  /\ Uses(Alive(conn))
                /\ objects' = [objects EXCEPT ![conn].listed = Unlisted(@, stmt)]
         /\ thread' = [thread EXCEPT ![t].ptr = stmt, ![t].at = "join"]
  /\ UNCHANGED <<clients, built, nextToken, issued>>

\* Fault: the mutex is not given back.
StillHeld == mutex

Released == NoThread

\* ... then its stream waits for the download threads.
DestroyStream(t) ==
  /\ At(t, "join")
  /\ objects' = [objects EXCEPT ![thread[t].ptr] = Destroyed(thread[t].ptr)]
  /\ mutex' = Released
  /\ Returns(t)
  /\ UNCHANGED <<clients, built, table, misused>>

-----------------------------------------------------------------------------
\* SQLConnect returns an error in these steps only.
Step(t) ==
  \/ ConnectRefused(t) \/ OpenSession(t)
  \/ /\ refused' = 0
     /\ \/ Lookup(t) \/ Insert(t)
        \/ BuildConn(t) \/ BuildStmt(t)
        \/ MakeClient(t) \/ Disconnect(t)
        \/ CheckOpen(t) \/ Query(t) \/ Fetch(t)
        \/ EraseNothing(t) \/ EraseConn(t) \/ EraseStmt(t) \/ DestroyStream(t)

Next ==
  \E t \in Threads :
    \/ \E c \in Calls, k \in Tokens \cup {0} : Begin(t, c, k) /\ refused' = 0
    \/ Step(t)

Spec == Init /\ [][Next]_vars

\* Where a call is inside a stream, which may not let it go: a row is read, or the
\* download threads of a stream that is replaced or destroyed are joined.
InStream(t) == thread[t].at \in {"query", "fetch", "join"}

(***************************************************************************)
(* The scheduler runs every thread, the mutex starves none and a request   *)
(* for a session ends.  Nothing is assumed of the streams: RecordReader    *)
(* shows that a join of the download threads may never end.                *)
(***************************************************************************)
FairSpec == Spec /\ \A t \in Threads : SF_vars(Step(t) /\ ~InStream(t))

-----------------------------------------------------------------------------
TypeOK ==
  /\ objects \in Seq(Object)
  /\ clients \in SUBSET Nat /\ built \in Nat
  /\ registry \in [Tokens -> Nat] /\ issued \in [Tokens -> Nat] /\ nextToken \in Nat
  /\ mutex \in Threads \cup {NoThread}
  /\ thread \in [Threads -> Thread]
  /\ refused \in Nat /\ misused \in BOOLEAN

(***************************************************************************)
(* Whatever the threads of the application do with open connections, no    *)
(* call works with an object or a client that has been destroyed, or with  *)
(* a client that was never made (handles.h, handles.cpp).                  *)
(***************************************************************************)
NoUseOfDestroyed == ~misused

(***************************************************************************)
(* A token stands for one object for ever: a call finds the object its     *)
(* handle was given out for, and a call that begins after the handle was   *)
(* freed finds none (handle_registry.h).                                   *)
(***************************************************************************)
HandleFindsItsObject ==
  \A t \in Threads :
    /\ thread[t].stale => thread[t].at \in {"lookup", "erase"}
    /\ thread[t].at \in {"connect", "session", "disconnect", "check", "query", "fetch",
                         "join"} =>
         thread[t].ptr = issued[thread[t].token]

(***************************************************************************)
(* The list of a connection is that of its statements, but for one that is *)
(* being destroyed (handles.h, registerStmt and unregisterStmt).           *)
(***************************************************************************)
ListsItsStatements ==
  \A c \in DOMAIN objects : Alive(c) =>
    objects[c].listed =
      {s \in DOMAIN objects : /\ Alive(s) /\ objects[s].parent = c
                              /\ \A t \in Threads : At(t, "join") => thread[t].ptr # s}

AtMutex(t) == thread[t].at \in {"lookup", "insert", "erase"}

(***************************************************************************)
(* A call returns, with two exceptions.  A stream never lets it go; or it  *)
(* waits for ever for the registry's mutex, and then the mutex is held by  *)
(* a thread that destroys a statement and whose join never ends: the one   *)
(* place where a stream of one statement stops the calls on all the others *)
(* (handle_registry.h, free).                                              *)
(***************************************************************************)
CallsReturn ==
  \A t \in Threads :
    \/ []<>At(t, "idle")
    \/ <>[]InStream(t)
    \/ \E u \in Threads \ {t} : <>[](AtMutex(t) /\ mutex = u /\ At(u, "join"))

(***************************************************************************)
(* entry_points.cpp, SQLGetConnectAttr: a connection is told to be alive   *)
(* when it is "still active", so not after SQLConnect has failed.          *)
(***************************************************************************)
ConnectedAsTold ==
  refused # 0 => ~HasClient(refused)
=============================================================================
