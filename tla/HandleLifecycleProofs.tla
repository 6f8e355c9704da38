----------------------- MODULE HandleLifecycleProofs -----------------------
(***************************************************************************)
(* The invariants of HandleLifecycle for every number of threads, objects  *)
(* and clients.                                                            *)
(*                                                                         *)
(* A pointer is good because the handle it was looked up with is still in  *)
(* the registry, and the handle is still there because no other call may   *)
(* conflict with the one that is using it: the invariant follows this      *)
(* chain from the registry to the threads, and from the calls that are     *)
(* kept apart to the clients and streams that depend on them.              *)
(***************************************************************************)
EXTENDS HandleLifecycle, SequenceTheorems, TLAPS

Allocs == {"AllocHandle(DBC)", "AllocHandle(STMT)"}
Begun  == {"AllocHandle(STMT)", "Connect", "Disconnect", "ExecDirect", "Fetch"}

\* Which call a thread is in, from where it is.
CallOf(t) ==
  /\ thread[t].token = 0 <=> thread[t].call = "AllocHandle(DBC)"
  /\ At(t, "idle") => thread[t].token = 0
  /\ thread[t].at \in {"build", "insert"} => thread[t].call \in Allocs
  /\ At(t, "lookup") => thread[t].call \in Begun
  /\ thread[t].at \in {"connect", "session"} => thread[t].call = "Connect"
  /\ At(t, "disconnect") => thread[t].call = "Disconnect"
  /\ thread[t].at \in {"check", "query"} => thread[t].call = "ExecDirect"
  /\ At(t, "fetch") => thread[t].call = "Fetch"
  /\ At(t, "erase") => thread[t].call \in FreeCalls
  /\ At(t, "join") => thread[t].call = "FreeHandle(STMT)"

\* Every object has the parent its kind asks for; a statement does not outlive it.
Family ==
  \A o \in DOMAIN objects :
    /\ objects[o].kind = "conn" => objects[o].parent = 0 /\ ~objects[o].ended
    /\ objects[o].kind = "stmt" =>
         /\ objects[o].parent \in DOMAIN objects
         /\ objects[objects[o].parent].kind = "conn"
         /\ objects[o].alive => objects[objects[o].parent].alive

\* Tokens are given out upwards, each for an object of its own, which the registry
\* finds as long as it is alive.
Given ==
  /\ nextToken >= 1
  /\ \A k \in Tokens :
       /\ k >= nextToken => issued[k] = 0
       /\ k < nextToken => issued[k] \in DOMAIN objects
       /\ registry[k] # 0 => registry[k] = issued[k] /\ objects[registry[k]].alive
  /\ \A k, l \in Tokens : issued[k] = issued[l] /\ issued[k] # 0 => k = l

\* What has been built and not entered yet is known to its thread alone.
FreshOf(t) ==
  At(t, "insert") =>
    /\ thread[t].ptr \in DOMAIN objects
    /\ objects[thread[t].ptr].alive
    /\ objects[thread[t].ptr].kind = IF thread[t].call = "AllocHandle(DBC)"
                                     THEN "conn" ELSE "stmt"
    /\ \A k \in Tokens : issued[k] # thread[t].ptr
    /\ \A u \in Threads \ {t} : At(u, "insert") => thread[u].ptr # thread[t].ptr

Working == {"build", "connect", "session", "disconnect", "check", "query", "fetch", "join"}

\* A call that began with a good handle has it until it returns or erases it.
HeldBy(t) ==
  /\ thread[t].token # 0 =>
       /\ issued[thread[t].token] # 0
       /\ thread[t].call # "Fetch" => RightKind(issued[thread[t].token], thread[t].call)
       /\ ~thread[t].stale /\ ~At(t, "join") => registry[thread[t].token] # 0
  /\ thread[t].stale =>
       /\ thread[t].at \in {"lookup", "erase"}
       /\ thread[t].token # 0 /\ registry[thread[t].token] = 0
  /\ thread[t].token # 0 /\ thread[t].at \in Working =>
       /\ thread[t].ptr = issued[thread[t].token]
       /\ RightKind(thread[t].ptr, thread[t].call)
  /\ At(t, "join") => mutex = t /\ registry[thread[t].token] = 0

Good(t) == thread[t].token # 0 /\ ~thread[t].stale

\* Calls under way with good handles are kept apart.
Apart ==
  \A t, u \in Threads : t # u /\ Good(t) /\ Good(u) =>
    ~Conflict(thread[t].call, thread[t].token, thread[u].call, thread[u].token)

\* A connection has a client of its own.
Owned ==
  /\ \A c \in clients : c \in 1 .. built
  /\ \A o \in DOMAIN objects : objects[o].client <= built
  /\ \A o \in DOMAIN objects :
       objects[o].kind = "conn" /\ objects[o].client # 0 => objects[o].client \in clients
  /\ \A o, p \in DOMAIN objects :
       objects[o].kind = "conn" /\ objects[p].kind = "conn" /\ objects[o].client # 0
       /\ objects[o].client = objects[p].client => o = p

\* The stream of a statement refers to the client the connection has now.
Streams ==
  \A o \in DOMAIN objects :
    objects[o].kind = "stmt" /\ objects[o].alive /\ ~objects[o].ended
    /\ objects[o].client # 0 => objects[o].client = objects[objects[o].parent].client

\* What a call has found out stays true while it is under way.
KnownBy(t) ==
  /\ At(t, "session") => objects[thread[t].ptr].client # 0
  /\ At(t, "query") =>
       /\ thread[t].client # 0
       /\ thread[t].client = objects[objects[thread[t].ptr].parent].client
  /\ Good(t) /\ thread[t].call \in {"ExecDirect", "Fetch"} =>
       ~objects[issued[thread[t].token]].ended
  /\ Good(t) /\ thread[t].call = "FreeHandle(DBC)" =>
       \A o \in DOMAIN objects :
         objects[o].parent = issued[thread[t].token] => ~objects[o].alive

Heap == Family /\ Given /\ Owned /\ Streams /\ ListsItsStatements

ThreadInv(t) == CallOf(t) /\ FreshOf(t) /\ HeldBy(t) /\ KnownBy(t)

IInv == /\ TypeOK /\ Heap
        /\ \A t \in Threads : ThreadInv(t)
        /\ Apart
        /\ NoUseOfDestroyed

-----------------------------------------------------------------------------
(* What the steps change, object by object and thread by thread.           *)

\* No object changes its kind or its parent, and none goes away.
Steady ==
  \A o \in DOMAIN objects :
    /\ o \in DOMAIN objects'
    /\ objects'[o].kind = objects[o].kind /\ objects'[o].parent = objects[o].parent

\* All threads but one stay where they are.
Alone(t) == \A u \in Threads \ {t} : thread'[u] = thread[u]

LEMMA ObjectsInSeq ==
  ASSUME NEW n \in Nat, NEW f \in [1 .. n -> Object]
  PROVE  f \in Seq(Object) /\ Len(f) = n /\ DOMAIN f = 1 .. n
  OBVIOUS

LEMMA ObjectsAre ==
  ASSUME TypeOK
  PROVE  /\ Len(objects) \in Nat /\ DOMAIN objects = 1 .. Len(objects)
         /\ \A o \in DOMAIN objects : objects[o] \in Object
         /\ objects \in [1 .. Len(objects) -> Object]
  BY DEF TypeOK

\* A thread goes somewhere else, in the same call and with what it holds.
LEMMA Going ==
  ASSUME TypeOK, NEW t \in Threads, NEW p \in Points, Goes(t, p)
  PROVE  /\ thread' \in [Threads -> Thread] /\ Alone(t)
         /\ thread'[t] = [thread[t] EXCEPT !.at = p]
  BY DEF TypeOK, Goes, Alone, Thread

LEMMA Returning ==
  ASSUME TypeOK, NEW t \in Threads, Returns(t)
  PROVE  thread' \in [Threads -> Thread] /\ Alone(t) /\ thread'[t] = Idle
<1>1. Idle \in Thread  BY DEF Idle, Thread, Points, Calls
<1>. QED  BY <1>1 DEF TypeOK, Returns, Alone

LEMMA Holding ==
  ASSUME TypeOK, NEW t \in Threads, NEW p \in Points, NEW o \in Nat,
         thread' = [thread EXCEPT ![t].ptr = o, ![t].at = p]
  PROVE  /\ thread' \in [Threads -> Thread] /\ Alone(t)
         /\ thread'[t] = [thread[t] EXCEPT !.ptr = o, !.at = p]
  BY DEF TypeOK, Alone, Thread

\* What the constructors of handles.h leave: one object more, alive, with its parent.
LEMMA BuildConnEffect ==
  ASSUME TypeOK, NEW t \in Threads, BuildConn(t)
  PROVE  /\ objects' \in Seq(Object) /\ DOMAIN objects' = 1 .. Len(objects) + 1
         /\ Len(objects') = Len(objects) + 1
         /\ \A o \in DOMAIN objects : objects'[o] = objects[o]
         /\ objects'[Len(objects) + 1] =
              [kind |-> "conn", alive |-> TRUE, parent |-> 0, client |-> 0, listed |-> {},
               ended |-> FALSE]
         /\ thread' \in [Threads -> Thread] /\ Alone(t)
         /\ thread'[t] = [thread[t] EXCEPT !.ptr = Len(objects) + 1, !.at = "insert"]
<1> DEFINE new == [kind |-> "conn", alive |-> TRUE, parent |-> 0, client |-> 0,
                   listed |-> {}, ended |-> FALSE]
<1>1. new \in Object /\ objects \in Seq(Object) /\ objects' = Append(objects, new)
  BY DEF Object, BuildConn, TypeOK
<1>2. /\ objects' \in Seq(Object) /\ Len(objects') = Len(objects) + 1
      /\ \A o \in 1 .. Len(objects) : objects'[o] = objects[o]
      /\ objects'[Len(objects) + 1] = new
  BY <1>1, AppendProperties
<1>3. thread' = [thread EXCEPT ![t].ptr = Len(objects) + 1, ![t].at = "insert"]
  BY <1>2 DEF BuildConn
<1>4. Len(objects) + 1 \in Nat /\ "insert" \in Points  BY <1>1, LenProperties DEF Points
<1>5. /\ thread' \in [Threads -> Thread] /\ Alone(t)
      /\ thread'[t] = [thread[t] EXCEPT !.ptr = Len(objects) + 1, !.at = "insert"]
  BY <1>3, <1>4, Holding
<1>. QED  BY <1>1, <1>2, <1>5, LenProperties

LEMMA BuildStmtEffect ==
  ASSUME TypeOK, NEW t \in Threads, BuildStmt(t), thread[t].ptr \in DOMAIN objects
  PROVE  /\ objects' \in Seq(Object) /\ DOMAIN objects' = 1 .. Len(objects) + 1
         /\ Len(objects') = Len(objects) + 1
         /\ \A o \in DOMAIN objects : o # thread[t].ptr => objects'[o] = objects[o]
         /\ objects'[thread[t].ptr] =
              [objects[thread[t].ptr] EXCEPT !.listed = @ \cup {Len(objects) + 1}]
         /\ objects'[Len(objects) + 1] =
              [kind |-> "stmt", alive |-> TRUE, parent |-> thread[t].ptr, client |-> 0,
               listed |-> {}, ended |-> FALSE]
         /\ thread' \in [Threads -> Thread] /\ Alone(t)
         /\ thread'[t] = [thread[t] EXCEPT !.ptr = Len(objects) + 1, !.at = "insert"]
         /\ misused' = (misused \/ ~Alive(thread[t].ptr))
<1> DEFINE c == thread[t].ptr
           n == Len(objects) + 1
           new == [kind |-> "stmt", alive |-> TRUE, parent |-> c, client |-> 0,
                   listed |-> {}, ended |-> FALSE]
           conn == [objects[c] EXCEPT !.listed = @ \cup {n}]
           old == [objects EXCEPT ![c] = conn]
<1>1. /\ n \in Nat /\ objects[c] \in Object /\ c \in Nat
      /\ objects \in Seq(Object) /\ c \in 1 .. Len(objects)
  BY ObjectsAre DEF TypeOK, Thread
<1>2. new \in Object /\ conn \in Object  BY <1>1 DEF Object
<1>3. objects' = Append(old, new) /\ misused' = (misused \/ ~Alive(c))
      /\ thread' = [thread EXCEPT ![t].ptr = n, ![t].at = "insert"]
  BY DEF BuildStmt, Uses
<1>4. /\ old \in Seq(Object) /\ Len(old) = Len(objects)
      /\ \A o \in 1 .. Len(objects) : old[o] = IF o = c THEN conn ELSE objects[o]
  BY <1>1, <1>2, ExceptSeq
<1>5. /\ objects' \in Seq(Object) /\ Len(objects') = n
      /\ \A o \in 1 .. Len(objects) : objects'[o] = old[o]
      /\ objects'[n] = new
  BY <1>2, <1>3, <1>4, AppendProperties
<1>6. /\ thread' \in [Threads -> Thread] /\ Alone(t)
      /\ thread'[t] = [thread[t] EXCEPT !.ptr = n, !.at = "insert"]
  BY <1>1, <1>3, Holding DEF Points
<1>7. DOMAIN objects' = 1 .. n /\ DOMAIN objects = 1 .. Len(objects)
  BY <1>1, <1>5, LenProperties
<1>. QED  BY <1>1, <1>3, <1>4, <1>5, <1>6, <1>7

\* Opening and closing a connection: it has another client or none, and its statements
\* have ended.
LEMMA EndingEffect ==
  ASSUME TypeOK, NEW conn \in DOMAIN objects, NEW c \in Nat,
         objects' = StatementsEnd([objects EXCEPT ![conn].client = c], conn)
  PROVE  /\ objects' \in Seq(Object) /\ Len(objects') = Len(objects)
         /\ DOMAIN objects' = DOMAIN objects
         /\ \A o \in DOMAIN objects :
              /\ objects'[o].kind = objects[o].kind /\ objects'[o].alive = objects[o].alive
              /\ objects'[o].parent = objects[o].parent
              /\ objects'[o].listed = objects[o].listed
              /\ objects'[o].client = IF o = conn THEN c ELSE objects[o].client
              /\ objects'[o].ended = (objects[o].ended \/ objects[o].parent = conn)
<1> DEFINE mid == [objects EXCEPT ![conn] = [objects[conn] EXCEPT !.client = c]]
           n == Len(objects)
<1>1. /\ n \in Nat /\ DOMAIN objects = 1 .. n /\ \A o \in 1 .. n : objects[o] \in Object
      /\ objects \in [1 .. n -> Object]
  BY ObjectsAre
<1>2. \A o \in 1 .. n : /\ mid[o] \in Object
                        /\ mid[o] = IF o = conn THEN [objects[o] EXCEPT !.client = c]
                                    ELSE objects[o]
  BY <1>1 DEF Object
<1>3. DOMAIN mid = 1 .. n  BY <1>1
<1> HIDE DEF mid
<1>4. objects' = [o \in 1 .. n |-> IF mid[o].parent = conn
                                   THEN [mid[o] EXCEPT !.ended = TRUE] ELSE mid[o]]
<2>1. [objects EXCEPT ![conn].client = c] = mid  BY DEF mid
<2>. QED  BY <2>1, <1>3 DEF StatementsEnd
<1>a. ASSUME NEW o \in 1 .. n  PROVE [mid[o] EXCEPT !.ended = TRUE] \in Object
  <2>1. mid[o] \in Object  BY <1>2
  <2>. QED  BY <2>1 DEF Object
<1>5. /\ objects' \in [1 .. n -> Object]
      /\ \A o \in 1 .. n : objects'[o] = IF mid[o].parent = conn
                                         THEN [mid[o] EXCEPT !.ended = TRUE] ELSE mid[o]
  BY <1>2, <1>4, <1>a
<1>6. objects' \in Seq(Object) /\ Len(objects') = n /\ DOMAIN objects' = 1 .. n
  BY <1>1, <1>5, ObjectsInSeq
<1>7. \A o \in 1 .. n :
        /\ objects'[o].kind = objects[o].kind /\ objects'[o].alive = objects[o].alive
        /\ objects'[o].parent = objects[o].parent
        /\ objects'[o].listed = objects[o].listed
        /\ objects'[o].client = IF o = conn THEN c ELSE objects[o].client
        /\ objects'[o].ended = (objects[o].ended \/ objects[o].parent = conn)
<2> SUFFICES ASSUME NEW o \in 1 .. n
             PROVE  /\ objects'[o].kind = objects[o].kind
                    /\ objects'[o].alive = objects[o].alive
                    /\ objects'[o].parent = objects[o].parent
                    /\ objects'[o].listed = objects[o].listed
                    /\ objects'[o].client = IF o = conn THEN c ELSE objects[o].client
                    /\ objects'[o].ended = (objects[o].ended \/ objects[o].parent = conn)
  OBVIOUS
<2>1. /\ mid[o].kind = objects[o].kind /\ mid[o].alive = objects[o].alive
      /\ mid[o].parent = objects[o].parent /\ mid[o].listed = objects[o].listed
      /\ mid[o].client = IF o = conn THEN c ELSE objects[o].client
      /\ mid[o].ended = objects[o].ended
      /\ mid[o] \in Object /\ objects[o].ended \in BOOLEAN
  BY <1>1, <1>2 DEF Object
<2>2. CASE mid[o].parent = conn
  <3>1. objects'[o] = [mid[o] EXCEPT !.ended = TRUE]  BY <1>5, <2>2
  <3>. QED  BY <2>1, <2>2, <3>1 DEF Object
<2>3. CASE mid[o].parent # conn
  <3>1. objects'[o] = mid[o]  BY <1>5, <2>3
  <3>2. objects[o].ended = (objects[o].ended \/ objects[o].parent = conn)
    BY <2>1, <2>3
  <3>. QED  BY <2>1, <3>1, <3>2
<2>. QED  BY <2>2, <2>3
<1> HIDE DEF n
<1>. QED  BY <1>1, <1>6, <1>7, n = Len(objects) DEF n

\* Other steps change one object.
LEMMA ChangeEffect ==
  ASSUME TypeOK, NEW p \in DOMAIN objects, NEW new \in Object,
         objects' = [objects EXCEPT ![p] = new]
  PROVE  /\ objects' \in Seq(Object) /\ Len(objects') = Len(objects)
         /\ DOMAIN objects' = DOMAIN objects
         /\ objects'[p] = new
         /\ \A o \in DOMAIN objects : o # p => objects'[o] = objects[o]
<1> DEFINE changed == [objects EXCEPT ![p] = new]
<1>1. /\ objects \in Seq(Object) /\ DOMAIN objects = 1 .. Len(objects)
      /\ p \in 1 .. Len(objects)
      /\ Len(objects) \in Nat
  BY ObjectsAre DEF TypeOK
<1>2. /\ changed \in Seq(Object) /\ Len(changed) = Len(objects)
      /\ \A o \in 1 .. Len(objects) : changed[o] = IF o = p THEN new ELSE objects[o]
  BY <1>1, ExceptSeq
<1>3. DOMAIN changed = 1 .. Len(objects)  BY <1>1
<1>. QED  BY <1>1, <1>2, <1>3

-----------------------------------------------------------------------------
(* What every step keeps.                                                  *)

\* A token that has been given out stands for the same object.
Issued == \A k \in Tokens : issued[k] # 0 => issued'[k] = issued[k]

\* What a good handle stands for.
LEMMA HandleObject ==
  ASSUME IInv, NEW t \in Threads, thread[t].token # 0
  PROVE  /\ thread[t].token \in Tokens
         /\ issued[thread[t].token] \in DOMAIN objects
         /\ issued[thread[t].token] # 0
<1>1. thread[t].token \in Tokens  BY DEF IInv, TypeOK, Thread
<1>2. issued[thread[t].token] # 0  BY DEF IInv, ThreadInv, HeldBy
<1>. QED  BY <1>1, <1>2 DEF IInv, Heap, Given, TypeOK, Tokens

\* The connection a good handle is about.
LEMMA HandleConnection ==
  ASSUME IInv, NEW t \in Threads, thread[t].token # 0
  PROVE  /\ ConnectionOf(thread[t].token) \in DOMAIN objects
         /\ objects[ConnectionOf(thread[t].token)].kind = "conn"
<1>1. issued[thread[t].token] \in DOMAIN objects  BY HandleObject
<1>2. objects[issued[thread[t].token]].kind \in {"conn", "stmt"}
  BY <1>1, ObjectsAre DEF IInv, Object
<1>. QED  BY <1>1, <1>2 DEF IInv, Heap, Family, ConnectionOf

LEMMA ConnectionKept ==
  ASSUME Steady, Issued, NEW k \in Tokens, issued[k] # 0, issued[k] \in DOMAIN objects
  PROVE  ConnectionOf(k)' = ConnectionOf(k)
  BY DEF Steady, Issued, ConnectionOf

\* Calls stay apart while no new one begins.
LEMMA ApartKept ==
  ASSUME IInv, NEW t \in Threads, Steady, Issued, Alone(t),
         \/ thread'[t].token = 0
         \/ /\ thread'[t].token = thread[t].token /\ thread'[t].call = thread[t].call
            /\ thread'[t].stale = thread[t].stale
  PROVE  Apart'
<1> SUFFICES ASSUME NEW v \in Threads, NEW u \in Threads, v # u, Good(v)', Good(u)'
             PROVE  ~Conflict(thread[v].call, thread[v].token,
                              thread[u].call, thread[u].token)'
  BY DEF Apart
<1>1. ASSUME NEW w \in Threads, Good(w)'
      PROVE  /\ thread'[w].token = thread[w].token /\ thread'[w].call = thread[w].call
             /\ Good(w)
  BY <1>1 DEF Alone, Good
<1>2. /\ thread'[v].token = thread[v].token /\ thread'[v].call = thread[v].call /\ Good(v)
      /\ thread'[u].token = thread[u].token /\ thread'[u].call = thread[u].call /\ Good(u)
  BY <1>1
<1>3. /\ thread[v].token \in Tokens /\ issued[thread[v].token] # 0
      /\ issued[thread[v].token] \in DOMAIN objects
      /\ thread[u].token \in Tokens /\ issued[thread[u].token] # 0
      /\ issued[thread[u].token] \in DOMAIN objects
  BY <1>2, HandleObject DEF Good
<1>4. PICK k \in Tokens, l \in Tokens : k = thread[v].token /\ l = thread[u].token
  BY <1>3
<1>5. ConnectionOf(k)' = ConnectionOf(k) /\ ConnectionOf(l)' = ConnectionOf(l)
  BY <1>3, <1>4, ConnectionKept
<1>6. ~Conflict(thread[v].call, k, thread[u].call, l)
  BY <1>2, <1>4 DEF IInv, Apart
<1>7. /\ ConnectionOf(thread[v].token)' = ConnectionOf(thread[v].token)
      /\ ConnectionOf(thread[u].token)' = ConnectionOf(thread[u].token)
  BY <1>2, <1>4, <1>5 DEF ConnectionOf
<1>. QED  BY <1>2, <1>4, <1>6, <1>7 DEF Conflict

\* What a thread holds outlives the steps of the others, unless they erase its handle.
LEMMA HeldKept ==
  ASSUME IInv, NEW u \in Threads, thread'[u] = thread[u], Steady, Issued,
         thread[u].token # 0 => registry'[thread[u].token] = registry[thread[u].token],
         At(u, "join") => mutex' = mutex
  PROVE  CallOf(u)' /\ HeldBy(u)'
<1>1. CallOf(u) /\ HeldBy(u)  BY DEF IInv, ThreadInv
<1>2. CallOf(u)'  BY <1>1 DEF CallOf, At
<1>3. CASE thread[u].token = 0
  BY <1>1, <1>3 DEF HeldBy, At, CallOf, Allocs, Begun, FreeCalls
<1>4. CASE thread[u].token # 0
  <2>1. /\ thread[u].token \in Tokens /\ issued[thread[u].token] # 0
        /\ issued[thread[u].token] \in DOMAIN objects
        /\ issued'[thread[u].token] = issued[thread[u].token]
    BY <1>4, HandleObject DEF Issued
  <2>2. /\ objects'[issued[thread[u].token]].kind = objects[issued[thread[u].token]].kind
    BY <2>1 DEF Steady
  <2>. QED  BY <1>1, <1>2, <1>4, <2>1, <2>2 DEF HeldBy, At, RightKind
<1>. QED  BY <1>2, <1>3, <1>4

LEMMA FreshKept ==
  ASSUME IInv, NEW t \in Threads, NEW u \in Threads \ {t}, Alone(t), Steady,
         ~At(t, "insert")' \/ thread'[t].ptr \notin DOMAIN objects,
         \A o \in DOMAIN objects :
           (objects[o].alive /\ \A k \in Tokens : issued[k] # o) => objects'[o].alive,
         \A k \in Tokens : issued'[k] # issued[k] =>
           At(t, "insert") /\ issued'[k] = thread[t].ptr
  PROVE  FreshOf(u)'
<1>1. thread'[u] = thread[u] /\ FreshOf(u)  BY DEF Alone, IInv, ThreadInv
<1>2. SUFFICES ASSUME At(u, "insert")  PROVE FreshOf(u)'
  BY <1>1 DEF FreshOf, At
<1>3. /\ thread[u].ptr \in DOMAIN objects /\ thread[u].ptr \in DOMAIN objects'
      /\ objects'[thread[u].ptr].alive
      /\ objects'[thread[u].ptr].kind = objects[thread[u].ptr].kind
  BY <1>1, <1>2 DEF FreshOf, Steady
<1>4. \A k \in Tokens : issued'[k] # thread[u].ptr
  BY <1>1, <1>2 DEF FreshOf
<1>5. \A v \in Threads \ {u} : At(v, "insert")' => thread'[v].ptr # thread[u].ptr
  BY <1>1, <1>2, <1>3 DEF FreshOf, Alone, At
<1>. QED  BY <1>1, <1>2, <1>3, <1>4, <1>5 DEF FreshOf, At

\* What a call has found out is about its own connection and its own object.
LEMMA KnownKept ==
  ASSUME IInv, NEW u \in Threads, thread'[u] = thread[u], Steady, Issued,
         thread[u].token # 0 =>
           \A c \in {ConnectionOf(thread[u].token)} :
             /\ thread[u].at \in {"session", "query"} =>
                  objects'[c].client = objects[c].client
             /\ Good(u) => objects'[issued[thread[u].token]].ended
                            = objects[issued[thread[u].token]].ended
             /\ Good(u) /\ thread[u].call = "FreeHandle(DBC)" =>
                  \A o \in DOMAIN objects' :
                    objects'[o].parent = c /\ objects'[o].alive =>
                      o \in DOMAIN objects /\ objects[o].alive
  PROVE  KnownBy(u)'
<1>1. CallOf(u) /\ HeldBy(u) /\ KnownBy(u)  BY DEF IInv, ThreadInv
<1>2. CASE thread[u].token = 0
  BY <1>1, <1>2 DEF CallOf, KnownBy, At, Good
<1>3. CASE thread[u].token # 0
  <2>1. /\ thread[u].token \in Tokens
        /\ issued[thread[u].token] \in DOMAIN objects
        /\ issued'[thread[u].token] = issued[thread[u].token]
    BY <1>3, HandleObject DEF Issued
  <2>2. At(u, "session") => objects'[thread[u].ptr].client = objects[thread[u].ptr].client
    BY <1>1, <1>3, <2>1 DEF HeldBy, At, Working, CallOf, RightKind, ConnCalls, ConnectionOf
  <2>3. At(u, "query") =>
          /\ objects'[thread[u].ptr].parent = objects[thread[u].ptr].parent
          /\ objects'[objects[thread[u].ptr].parent].client
               = objects[objects[thread[u].ptr].parent].client
    BY <1>1, <1>3, <2>1
       DEF HeldBy, At, Working, CallOf, RightKind, ConnCalls, ConnectionOf, Steady
  <2>4. Good(u) /\ thread[u].call = "FreeHandle(DBC)" =>
          \A o \in DOMAIN objects' :
            objects'[o].parent = issued[thread[u].token] => ~objects'[o].alive
    <3> SUFFICES ASSUME Good(u), thread[u].call = "FreeHandle(DBC)",
                        NEW o \in DOMAIN objects',
                        objects'[o].parent = issued[thread[u].token], objects'[o].alive
                 PROVE  FALSE
      OBVIOUS
    <3>1. ConnectionOf(thread[u].token) = issued[thread[u].token]
      BY <1>1, <1>3 DEF HeldBy, RightKind, ConnCalls, ConnectionOf
    <3>2. o \in DOMAIN objects /\ objects[o].alive  BY <1>3, <3>1
    <3>3. objects[o].parent = issued[thread[u].token]  BY <3>2 DEF Steady
    <3>. QED  BY <1>1, <3>2, <3>3 DEF KnownBy
  <2>. QED  BY <1>1, <2>1, <2>2, <2>3, <2>4, <1>3 DEF KnownBy, At, Good
<1>. QED  BY <1>2, <1>3

-----------------------------------------------------------------------------
(* Steps that change neither an object nor the registry.                   *)

LEMMA Quiet ==
  ASSUME IInv, NEW t \in Threads, UNCHANGED <<heap, table, mutex>>,
         thread' \in [Threads -> Thread], Alone(t), refused' \in Nat, misused' = FALSE,
         ~At(t, "join"), thread'[t].at \notin {"join", "insert"},
         Apart', CallOf(t)', HeldBy(t)', KnownBy(t)'
  PROVE  IInv'
<1>1. TypeOK'  BY DEF IInv, TypeOK, heap, table
<1>2. Steady /\ Issued  BY DEF Steady, Issued, heap, table
<1>3. (\A u \in Threads : At(u, "join") <=> At(u, "join")')
      /\ \A u \in Threads : At(u, "join") => thread'[u].ptr = thread[u].ptr
  BY DEF At, Alone
<1>4. ListsItsStatements'
  BY <1>3 DEF IInv, Heap, ListsItsStatements, Alive, At, heap
<1>5. Heap'
  BY <1>4 DEF IInv, Heap, Family, Given, Owned, Streams, heap, table
<1>6. ASSUME NEW u \in Threads \ {t}  PROVE ThreadInv(u)'
  <2>1. thread'[u] = thread[u]  BY DEF Alone
  <2>2. CallOf(u)' /\ HeldBy(u)'  BY <1>2, <2>1, HeldKept DEF table
  <2>3. KnownBy(u)'  BY <1>2, <2>1, KnownKept DEF heap
  <2>4. FreshOf(u)'  BY <1>2, FreshKept DEF heap, table, At
  <2>. QED  BY <2>2, <2>3, <2>4 DEF ThreadInv
<1>7. ThreadInv(t)'  BY DEF ThreadInv, FreshOf, At
<1>. QED  BY <1>1, <1>5, <1>6, <1>7 DEF IInv, NoUseOfDestroyed

\* A thread that leaves the driver has nothing to answer for.
LEMMA QuietReturn ==
  ASSUME IInv, NEW t \in Threads, UNCHANGED <<heap, table, mutex>>, Returns(t),
         ~At(t, "join"), refused' \in Nat, misused' = FALSE
  PROVE  IInv'
<1>1. thread' \in [Threads -> Thread] /\ Alone(t) /\ thread'[t] = Idle
  BY Returning DEF IInv
<1>2. Steady /\ Issued  BY DEF Steady, Issued, heap, table
<1>3. Apart'  BY <1>1, <1>2, ApartKept DEF Idle
<1>4. CallOf(t)' /\ HeldBy(t)' /\ KnownBy(t)'
  BY <1>1 DEF Idle, CallOf, HeldBy, KnownBy, At, Good, Working
<1>5. thread'[t].at \notin {"join", "insert"}  BY <1>1 DEF Idle
<1>. QED  BY <1>1, <1>3, <1>4, <1>5, Quiet

\* A step that works with what is alive keeps NoUseOfDestroyed.
LEMMA NotMisused ==
  ASSUME IInv, NEW ok \in BOOLEAN, ok, Uses(ok)
  PROVE  misused' = FALSE
  BY DEF IInv, Uses, NoUseOfDestroyed, TypeOK

\* A call that works with the object of its handle has it in its hands, alive.
LEMMA PointerAlive ==
  ASSUME IInv, NEW t \in Threads, thread[t].token # 0, thread[t].at \in Working,
         ~At(t, "join")
  PROVE  /\ thread[t].ptr \in DOMAIN objects /\ objects[thread[t].ptr].alive
         /\ Alive(thread[t].ptr) /\ RightKind(thread[t].ptr, thread[t].call) /\ Good(t)
         /\ thread[t].ptr = issued[thread[t].token]
<1>1. /\ thread[t].token \in Tokens /\ issued[thread[t].token] \in DOMAIN objects
      /\ HeldBy(t)
  BY HandleObject DEF IInv, ThreadInv
<1>2. ~thread[t].stale  BY <1>1 DEF HeldBy, Working
<1>3. /\ registry[thread[t].token] # 0 /\ thread[t].ptr = issued[thread[t].token]
      /\ RightKind(thread[t].ptr, thread[t].call)
  BY <1>1, <1>2 DEF HeldBy
<1>4. registry[thread[t].token] = issued[thread[t].token]
      /\ objects[registry[thread[t].token]].alive
  BY <1>1, <1>3 DEF IInv, Heap, Given
<1>. QED  BY <1>1, <1>2, <1>3, <1>4 DEF Alive, Good

LEMMA RefusedStep ==
  ASSUME IInv, NEW t \in Threads, ConnectRefused(t)
  PROVE  IInv'
<1>1. thread[t].token # 0 /\ thread[t].at \in Working /\ ~At(t, "join")
  BY DEF ConnectRefused, IInv, ThreadInv, CallOf, At, Working
<1>2. Alive(thread[t].ptr)  BY <1>1, PointerAlive
<1>3. misused' = FALSE  BY <1>2, NotMisused DEF ConnectRefused
<1>4. refused' \in Nat  BY DEF ConnectRefused, IInv, TypeOK, Thread
<1>. QED  BY <1>1, <1>3, <1>4, QuietReturn DEF ConnectRefused

LEMMA SessionStep ==
  ASSUME IInv, NEW t \in Threads, OpenSession(t)
  PROVE  IInv'
<1>1. /\ thread[t].token # 0 /\ thread[t].at \in Working /\ ~At(t, "join")
      /\ thread[t].call = "Connect"
  BY DEF OpenSession, IInv, ThreadInv, CallOf, At, Working
<1>2. /\ Alive(thread[t].ptr) /\ thread[t].ptr \in DOMAIN objects
      /\ objects[thread[t].ptr].kind = "conn"
  BY <1>1, PointerAlive DEF RightKind, ConnCalls
<1>3. objects[thread[t].ptr].client \in clients
  BY <1>2 DEF OpenSession, IInv, ThreadInv, KnownBy, Heap, Owned
<1>4. misused' = FALSE
  BY <1>2, <1>3, NotMisused DEF OpenSession
<1>5. refused' \in Nat  BY DEF OpenSession, IInv, TypeOK, Thread
<1>. QED  BY <1>1, <1>4, <1>5, QuietReturn DEF OpenSession

LEMMA FetchStep ==
  ASSUME IInv, NEW t \in Threads, Fetch(t), refused' \in Nat
  PROVE  IInv'
<1>1. /\ thread[t].token # 0 /\ thread[t].at \in Working /\ ~At(t, "join")
      /\ thread[t].call = "Fetch"
  BY DEF Fetch, IInv, ThreadInv, CallOf, At, Working
<1> DEFINE s == thread[t].ptr
<1>2. /\ Alive(s) /\ s \in DOMAIN objects /\ objects[s].kind = "stmt" /\ objects[s].alive
      /\ Good(t) /\ s = issued[thread[t].token]
  BY <1>1, PointerAlive DEF RightKind, ConnCalls
<1>3. ~objects[s].ended  BY <1>1, <1>2 DEF IInv, ThreadInv, KnownBy
<1>4. objects[s].client # 0 => objects[s].client \in clients
  <2>1. objects[s].parent \in DOMAIN objects /\ objects[objects[s].parent].kind = "conn"
    BY <1>2 DEF IInv, Heap, Family
  <2>. QED  BY <1>2, <1>3, <2>1 DEF IInv, Heap, Streams, Owned
<1>5. misused' = FALSE  BY <1>2, <1>4, NotMisused DEF Fetch
<1>. QED  BY <1>1, <1>5, QuietReturn DEF Fetch

LEMMA EraseNothingStep ==
  ASSUME IInv, NEW t \in Threads, EraseNothing(t), refused' \in Nat
  PROVE  IInv'
<1>1. misused' = FALSE /\ ~At(t, "join")
  BY DEF EraseNothing, IInv, NoUseOfDestroyed, TypeOK, At
<1>. QED  BY <1>1, QuietReturn DEF EraseNothing

LEMMA LookupStep ==
  ASSUME IInv, NEW t \in Threads, Lookup(t), refused' \in Nat
  PROVE  IInv'
<1> DEFINE k == thread[t].token
           o == registry[k]
           c == thread[t].call
<1>1. /\ CallOf(t) /\ HeldBy(t) /\ KnownBy(t) /\ At(t, "lookup") /\ c \in Begun
      /\ k # 0 /\ k \in Tokens /\ ~At(t, "join") /\ misused' = FALSE
  <2>1. CallOf(t) /\ HeldBy(t) /\ KnownBy(t) /\ At(t, "lookup") /\ misused' = FALSE
    BY DEF Lookup, IInv, ThreadInv, NoUseOfDestroyed, TypeOK
  <2>. QED  BY <2>1, HandleObject DEF CallOf, At, Begun
<1>2. CASE ~Found(o, c)
  BY <1>1, <1>2, QuietReturn DEF Lookup
<1>3. CASE Found(o, c)
  <2>1. PICK p \in {"build", "connect", "disconnect", "check", "fetch"} :
          /\ thread' = [thread EXCEPT ![t].ptr = o, ![t].at = p]
          /\ c = "AllocHandle(STMT)" => p = "build"
          /\ c = "Connect" => p = "connect"
          /\ c = "Disconnect" => p = "disconnect"
          /\ c = "ExecDirect" => p = "check"
          /\ c = "Fetch" => p = "fetch"
    <3>1. /\ Found(registry[thread[t].token], thread[t].call)
          /\ thread[t].call \in Begun
      BY <1>1, <1>3
    <3>. QED  BY <3>1 DEF Lookup, Begun
  <2>2. o \in Nat /\ o # 0 /\ RightKind(o, c) /\ o = issued[k]
    BY <1>1, <1>3 DEF Found, IInv, TypeOK, Heap, Given
  <2>3. /\ thread' \in [Threads -> Thread] /\ Alone(t)
        /\ thread'[t] = [thread[t] EXCEPT !.ptr = o, !.at = p]
    BY <2>1, <2>2, Holding DEF IInv, Points
  <2>4. thread[t] \in Thread  BY DEF IInv, TypeOK
  <2>5. /\ thread'[t].at = p /\ thread'[t].ptr = o /\ thread'[t].token = k
        /\ thread'[t].call = c /\ thread'[t].stale = thread[t].stale
    BY <2>3, <2>4 DEF Thread
  <2>6. ~thread[t].stale  BY <1>1, <2>2 DEF HeldBy
  <2>7. Steady /\ Issued /\ UNCHANGED <<heap, table, mutex>>
    BY DEF Lookup, Steady, Issued, heap, table
  <2>8. Apart'  BY <2>3, <2>5, <2>7, ApartKept
  <2>9. CallOf(t)'
    BY <1>1, <2>1, <2>5 DEF CallOf, At, Begun, Allocs, FreeCalls
  <2>10. HeldBy(t)'
    BY <1>1, <2>1, <2>2, <2>5, <2>6, <2>7 DEF HeldBy, At, RightKind, heap, table
  <2>11. KnownBy(t)'
    BY <1>1, <2>1, <2>5, <2>6, <2>7 DEF KnownBy, At, Good, heap, table
  <2>. QED  BY <1>1, <2>1, <2>3, <2>5, <2>7, <2>8, <2>9, <2>10, <2>11, Quiet
<1>. QED  BY <1>2, <1>3

LEMMA CheckOpenStep ==
  ASSUME IInv, NEW t \in Threads, CheckOpen(t), refused' \in Nat
  PROVE  IInv'
<1> DEFINE s == thread[t].ptr
           conn == objects[s].parent
<1>1. /\ thread[t].token # 0 /\ thread[t].at \in Working /\ ~At(t, "join")
      /\ thread[t].call = "ExecDirect" /\ CallOf(t) /\ HeldBy(t) /\ KnownBy(t)
  BY DEF CheckOpen, IInv, ThreadInv, CallOf, At, Working
<1>2. /\ Alive(s) /\ s \in DOMAIN objects /\ objects[s].kind = "stmt" /\ objects[s].alive
      /\ Good(t) /\ s = issued[thread[t].token]
  BY <1>1, PointerAlive DEF RightKind, ConnCalls
<1>3. conn \in DOMAIN objects /\ objects[conn].alive
  BY <1>2 DEF IInv, Heap, Family
<1>4. misused' = FALSE
  BY <1>2, <1>3, NotMisused DEF CheckOpen, Alive
<1>5. UNCHANGED <<heap, table, mutex>> /\ Steady /\ Issued
  BY DEF CheckOpen, Steady, Issued, heap, table
<1>6. CASE ~HasClient(conn)
  BY <1>1, <1>4, <1>5, <1>6, QuietReturn DEF CheckOpen
<1>7. CASE HasClient(conn)
  <2>1. objects[conn].client \in Nat /\ thread[t] \in Thread
    BY <1>3, ObjectsAre DEF Object, IInv, TypeOK
  <2>2. thread' = [thread EXCEPT ![t].client = objects[conn].client, ![t].at = "query"]
    BY <1>7 DEF CheckOpen
  <2>3. /\ thread' \in [Threads -> Thread] /\ Alone(t)
        /\ thread'[t] = [thread[t] EXCEPT !.client = objects[conn].client, !.at = "query"]
    BY <2>1, <2>2 DEF IInv, TypeOK, Thread, Points, Alone
  <2>4. /\ thread'[t].at = "query" /\ thread'[t].ptr = s
        /\ thread'[t].client = objects[conn].client
        /\ thread'[t].token = thread[t].token /\ thread'[t].call = thread[t].call
        /\ thread'[t].stale = thread[t].stale
    BY <2>1, <2>3 DEF Thread
  <2>5. Apart'  BY <1>5, <2>3, <2>4, ApartKept
  <2>6. CallOf(t)'  BY <1>1, <2>4 DEF CallOf, At
  <2>7. HeldBy(t)'
    BY <1>1, <1>2, <1>5, <2>4 DEF HeldBy, At, RightKind, Good, heap, table
  <2>8. KnownBy(t)'
    BY <1>1, <1>5, <1>7, <2>4 DEF KnownBy, At, Good, HasClient, heap, table
  <2>. QED  BY <1>1, <1>4, <1>5, <2>3, <2>4, <2>5, <2>6, <2>7, <2>8, Quiet
<1>. QED  BY <1>6, <1>7

LEMMA BeginStep ==
  ASSUME IInv, NEW t \in Threads, NEW c \in Calls, NEW k \in Tokens \cup {0},
         Begin(t, c, k), refused' = 0
  PROVE  IInv'
<1>1. /\ UNCHANGED <<heap, table, mutex>> /\ Steady /\ Issued /\ misused' = FALSE
      /\ At(t, "idle") /\ CallOf(t) /\ thread[t] \in Thread /\ refused' \in Nat
      /\ thread[t].token = 0 /\ ~At(t, "join") /\ HeldBy(t)
  BY DEF Begin, Steady, Issued, heap, table, IInv, NoUseOfDestroyed, TypeOK, ThreadInv,
         At, CallOf
<1>2. CASE c = "AllocHandle(DBC)" /\ k = 0
  <2>1. /\ thread' \in [Threads -> Thread] /\ Alone(t)
        /\ thread'[t] = [thread[t] EXCEPT !.at = "build"]
    BY <1>2, Going DEF Begin, IInv, Points
  <2>2. /\ thread'[t].at = "build" /\ thread'[t].token = 0
        /\ thread'[t].call = thread[t].call /\ thread'[t].stale = thread[t].stale
    BY <1>1, <2>1 DEF Thread
  <2>3. Apart'  BY <1>1, <2>1, <2>2, ApartKept
  <2>4. CallOf(t)'  BY <1>1, <2>2 DEF CallOf, At, Allocs
  <2>5. HeldBy(t)' /\ KnownBy(t)'
    BY <1>1, <2>2 DEF HeldBy, KnownBy, At, Good, heap, table
  <2>. QED  BY <1>1, <2>1, <2>2, <2>3, <2>4, <2>5, Quiet
<1>3. CASE /\ c # "AllocHandle(DBC)" /\ k # 0 /\ issued[k] # 0
           /\ c # "Fetch" => RightKind(issued[k], c)
           /\ Allowed(t, c, k)
           /\ thread' = [thread EXCEPT ![t] =
                           [at |-> IF c \in FreeCalls THEN "erase" ELSE "lookup",
                            call |-> c, token |-> k, ptr |-> 0, client |-> 0,
                            stale |-> registry[k] = 0]]
  <2> DEFINE new == [at |-> IF c \in FreeCalls THEN "erase" ELSE "lookup",
                     call |-> c, token |-> k, ptr |-> 0, client |-> 0,
                     stale |-> registry[k] = 0]
  <2>1. new \in Thread  BY DEF Thread, Points
  <2>2. thread' \in [Threads -> Thread] /\ Alone(t) /\ thread'[t] = new
    BY <1>3, <2>1 DEF IInv, TypeOK, Alone
  <2>3. /\ thread'[t].at = IF c \in FreeCalls THEN "erase" ELSE "lookup"
        /\ thread'[t].call = c /\ thread'[t].token = k
        /\ thread'[t].stale = (registry[k] = 0)
    BY <2>2
  <2>4. CallOf(t)'
    BY <1>3, <2>3 DEF CallOf, At, Begun, FreeCalls, Calls, ConnCalls, StmtCalls
  <2>5. thread'[t].at \in {"lookup", "erase"} /\ thread'[t].at \notin Working
    BY <2>3 DEF Working
  <2>6. HeldBy(t)'
    <3>1. RightKind(issued[k], c)' <=> RightKind(issued[k], c)
      BY <1>1 DEF RightKind, heap, table
    <3>2. issued'[k] # 0 /\ (registry'[k] = 0 <=> registry[k] = 0)
      BY <1>1, <1>3 DEF table
    <3>3. /\ thread'[t].call # "Fetch" => RightKind(issued[k], c)'
          /\ RightKind(issued[thread[t].token], thread[t].call)' <=> RightKind(issued[k], c)'
      BY <1>1, <1>3, <2>3, <3>1 DEF RightKind, table, heap
    <3>. QED  BY <1>3, <2>3, <2>5, <3>2, <3>3 DEF HeldBy, At
  <2>7. k \in Tokens  BY <1>3
  <2>8. KnownBy(t)'
    <3>1. thread'[t].at \notin {"session", "query"}  BY <2>5
    <3>2. objects' = objects /\ issued' = issued  BY <1>1 DEF heap, table
    <3>3. Good(t)' => registry[k] # 0  BY <2>3 DEF Good
    <3>. QED  BY <1>3, <2>3, <3>1, <3>2, <3>3 DEF KnownBy, At, Allowed
  <2>9. Apart'
    <3>1. ASSUME NEW u \in Threads \ {t}, Good(t)', Good(u)'
          PROVE  /\ ~Conflict(thread[t].call, thread[t].token,
                              thread[u].call, thread[u].token)'
                 /\ ~Conflict(thread[u].call, thread[u].token,
                              thread[t].call, thread[t].token)'
      <4>1. registry[k] # 0 /\ thread'[u] = thread[u] /\ Good(u)
        BY <2>2, <2>3, <3>1 DEF Good, Alone
      <4>2. thread[u].token # 0 /\ ~At(u, "idle")
        BY <4>1 DEF Good, IInv, ThreadInv, CallOf
      <4>3. ~Conflict(c, k, thread[u].call, thread[u].token)
        BY <1>3, <4>1, <4>2 DEF Allowed
      <4>. QED
        BY <1>1, <2>3, <4>1, <4>3 DEF Conflict, ConnectionOf, heap, table
    <3>2. ASSUME NEW v \in Threads \ {t}, NEW u \in Threads \ {t}, v # u, Good(v)', Good(u)'
          PROVE  ~Conflict(thread[v].call, thread[v].token,
                           thread[u].call, thread[u].token)'
      <4>1. thread'[u] = thread[u] /\ Good(u) /\ thread'[v] = thread[v] /\ Good(v)
        BY <2>2, <3>2 DEF Good, Alone
      <4>2. ~Conflict(thread[v].call, thread[v].token, thread[u].call, thread[u].token)
        BY <3>2, <4>1 DEF IInv, Apart
      <4>. QED  BY <1>1, <4>1, <4>2 DEF Conflict, ConnectionOf, heap, table
    <3>. QED  BY <3>1, <3>2 DEF Apart
  <2>. QED  BY <1>1, <2>2, <2>3, <2>4, <2>5, <2>6, <2>8, <2>9, Quiet
<1>. QED  BY <1>2, <1>3 DEF Begin

-----------------------------------------------------------------------------
(* The lists of the connections, entry by entry.                           *)

Joining(s) == \E t \in Threads : At(t, "join") /\ thread[t].ptr = s

Lists ==
  \A c \in DOMAIN objects : objects[c].alive =>
    /\ objects[c].listed \subseteq DOMAIN objects
    /\ \A s \in DOMAIN objects :
         s \in objects[c].listed <=> /\ objects[s].alive /\ objects[s].parent = c
                                     /\ ~Joining(s)

LEMMA EntryByEntry ==
  ASSUME ListsItsStatements
  PROVE  Lists
<1> SUFFICES ASSUME NEW c \in DOMAIN objects, objects[c].alive
             PROVE  /\ objects[c].listed \subseteq DOMAIN objects
                    /\ \A s \in DOMAIN objects :
                         s \in objects[c].listed <=>
                           /\ objects[s].alive /\ objects[s].parent = c
                           /\ ~Joining(s)
  BY DEF Lists
<1>1. objects[c].listed =
        {s \in DOMAIN objects : /\ Alive(s) /\ objects[s].parent = c
                                /\ \A t \in Threads : At(t, "join") => thread[t].ptr # s}
  BY DEF ListsItsStatements, Alive
<1>2. \A s \in DOMAIN objects :
        s \in objects[c].listed <=>
          /\ Alive(s) /\ objects[s].parent = c
          /\ \A t \in Threads : At(t, "join") => thread[t].ptr # s
  BY <1>1
<1>3. objects[c].listed \subseteq DOMAIN objects  BY <1>1
<1>. QED  BY <1>2, <1>3 DEF Joining, Alive

LEMMA EntryByEntryNext ==
  ASSUME Lists'
  PROVE  ListsItsStatements'
<1> SUFFICES ASSUME NEW c \in DOMAIN objects', objects'[c].alive
             PROVE  objects'[c].listed =
                      {s \in DOMAIN objects' :
                         /\ Alive(s)' /\ objects'[s].parent = c
                         /\ \A t \in Threads : At(t, "join")' => thread'[t].ptr # s}
  BY DEF ListsItsStatements, Alive
<1>1. /\ objects'[c].listed \subseteq DOMAIN objects'
      /\ \A s \in DOMAIN objects' :
           s \in objects'[c].listed <=>
             /\ objects'[s].alive /\ objects'[s].parent = c
             /\ ~ \E t \in Threads : At(t, "join")' /\ thread'[t].ptr = s
  BY DEF Lists, Joining
<1>2. \A s \in DOMAIN objects' :
        s \in objects'[c].listed <=>
          /\ Alive(s)' /\ objects'[s].parent = c
          /\ \A t \in Threads : At(t, "join")' => thread'[t].ptr # s
  BY <1>1 DEF Alive
<1> DEFINE P(s) == /\ Alive(s)' /\ objects'[s].parent = c
                   /\ \A t \in Threads : At(t, "join")' => thread'[t].ptr # s
<1>3. \A s \in DOMAIN objects' : s \in objects'[c].listed <=> P(s)
  BY <1>2
<1> HIDE DEF P
<1>4. objects'[c].listed = {s \in DOMAIN objects' : P(s)}
  BY <1>1, <1>3
<1>. QED  BY <1>4 DEF P

-----------------------------------------------------------------------------
(* Steps that change the registry or an object.                            *)

\* Two calls that are under way with good handles have different ones, and a call that
\* opens, closes or frees a connection is the only one that is about it.
LEMMA KeptApart ==
  ASSUME IInv, NEW t \in Threads, NEW u \in Threads, t # u, Good(t), Good(u)
  PROVE  /\ thread[t].token # thread[u].token
         /\ thread[t].call \in Structural \/ thread[u].call \in Structural =>
              ConnectionOf(thread[t].token) # ConnectionOf(thread[u].token)
  BY DEF IInv, Apart, Conflict

\* A thread outside the driver has nothing to answer for.
LEMMA IdleInv ==
  ASSUME NEW t \in Threads, thread'[t] = Idle
  PROVE  ThreadInv(t)'
  BY DEF Idle, ThreadInv, CallOf, HeldBy, KnownBy, FreshOf, At, Good, Working

\* What is being destroyed stays so in the steps of the others.
LEMMA SameJoins ==
  ASSUME NEW t \in Threads, Alone(t), ~At(t, "join"), thread'[t].at # "join"
  PROVE  \A s : Joining(s)' <=> Joining(s)
  BY DEF Alone, At, Joining

LEMMA InsertStep ==
  ASSUME IInv, NEW t \in Threads, Insert(t), refused' \in Nat
  PROVE  IInv'
<1> DEFINE n == nextToken
           p == thread[t].ptr
<1>1. /\ FreshOf(t) /\ At(t, "insert") /\ ~At(t, "join") /\ TypeOK /\ Given
      /\ UNCHANGED <<heap, mutex, misused>>
  BY DEF Insert, IInv, ThreadInv, Heap, At
<1>2. p \in DOMAIN objects /\ objects[p].alive /\ p \in Nat /\ p # 0
      /\ \A k \in Tokens : issued[k] # p
  BY <1>1, ObjectsAre DEF FreshOf, TypeOK, Thread
<1>3. thread' \in [Threads -> Thread] /\ Alone(t) /\ thread'[t] = Idle
  BY Returning DEF IInv, Insert
<1>4. n \in Tokens => issued[n] = 0 /\ registry[n] = 0
  BY <1>1 DEF Given, TypeOK, Tokens
<1>5. /\ registry' \in [Tokens -> Nat] /\ issued' \in [Tokens -> Nat] /\ nextToken' = n + 1
      /\ \A k \in Tokens : registry'[k] = IF k = n THEN p ELSE registry[k]
      /\ \A k \in Tokens : issued'[k] = IF k = n THEN p ELSE issued[k]
  BY <1>1, <1>2, <1>4 DEF Insert, FreshToken, TypeOK
<1>6. Steady /\ Issued  BY <1>1, <1>4, <1>5 DEF Steady, Issued, heap
<1>7. TypeOK'
  BY <1>1, <1>3, <1>5 DEF TypeOK, heap
<1>8. Given'
  <2>1. \A k \in Tokens :
          /\ k >= nextToken' => issued'[k] = 0
          /\ k < nextToken' => issued'[k] \in DOMAIN objects
          /\ registry'[k] # 0 => registry'[k] = issued'[k] /\ objects[registry'[k]].alive
    BY <1>1, <1>2, <1>5 DEF Given, TypeOK, Tokens
  <2>2. \A k, l \in Tokens : issued'[k] = issued'[l] /\ issued'[k] # 0 => k = l
    BY <1>1, <1>2, <1>5 DEF Given
  <2>3. nextToken' >= 1  BY <1>1, <1>5 DEF Given, TypeOK
  <2>4. objects' = objects  BY <1>1 DEF heap
  <2>. QED  BY <2>1, <2>2, <2>3, <2>4 DEF Given
<1>9. Heap'
  <2>1. thread'[t].at # "join"  BY <1>3 DEF Idle
  <2>2. ListsItsStatements'
    <3>1. Lists  BY EntryByEntry DEF IInv, Heap
    <3>2. Lists'  BY <1>1, <1>3, <2>1, <3>1, SameJoins DEF Lists, heap
    <3>. QED  BY <3>2, EntryByEntryNext
  <2>. QED  BY <1>1, <1>8, <2>2 DEF IInv, Heap, Family, Owned, Streams, heap
<1>10. ASSUME NEW u \in Threads \ {t}  PROVE ThreadInv(u)'
  <2>1. thread'[u] = thread[u]  BY <1>3 DEF Alone
  <2>2. thread[u].token # 0 => registry'[thread[u].token] = registry[thread[u].token]
    BY <1>4, <1>5, HandleObject
  <2>3. CallOf(u)' /\ HeldBy(u)'  BY <1>1, <1>6, <2>1, <2>2, HeldKept
  <2>4. KnownBy(u)'  BY <1>1, <1>6, <2>1, KnownKept DEF heap
  <2>5. ~At(t, "insert")'  BY <1>3 DEF Idle, At
  <2>6. \A k \in Tokens : issued'[k] # issued[k] => issued'[k] = p
    BY <1>5
  <2>7. FreshOf(u)'  BY <1>1, <1>3, <1>6, <2>5, <2>6, FreshKept DEF heap
  <2>. QED  BY <2>3, <2>4, <2>7 DEF ThreadInv
<1>11. ThreadInv(t)'  BY <1>3, IdleInv
<1>12. Apart'  BY <1>3, <1>6, ApartKept DEF Idle
<1>13. NoUseOfDestroyed'  BY <1>1 DEF NoUseOfDestroyed, IInv
<1>. QED  BY <1>7, <1>9, <1>10, <1>11, <1>12, <1>13 DEF IInv

\* The facts about objects hold when a new one has joined them.
LEMMA NewObject ==
  ASSUME IInv, NEW n \in Nat, n # 0, n \notin DOMAIN objects,
         DOMAIN objects' = DOMAIN objects \cup {n},
         \A o \in DOMAIN objects :
           /\ objects'[o].kind = objects[o].kind /\ objects'[o].alive = objects[o].alive
           /\ objects'[o].parent = objects[o].parent
           /\ objects'[o].client = objects[o].client
           /\ objects'[o].ended = objects[o].ended,
         objects'[n].client = 0, ~objects'[n].ended,
         \/ objects'[n].kind = "conn" /\ objects'[n].parent = 0
         \/ /\ objects'[n].kind = "stmt" /\ objects'[n].parent \in DOMAIN objects
            /\ objects[objects'[n].parent].kind = "conn"
            /\ objects[objects'[n].parent].alive,
         UNCHANGED <<clients, built, table>>
  PROVE  Family' /\ Given' /\ Owned' /\ Streams'
<1>1. Family /\ Given /\ Owned /\ Streams /\ TypeOK  BY DEF IInv, Heap
<1>2. Family'
  <2> SUFFICES ASSUME NEW o \in DOMAIN objects'
               PROVE  /\ objects'[o].kind = "conn" => objects'[o].parent = 0 /\ ~objects'[o].ended
                      /\ objects'[o].kind = "stmt" =>
                           /\ objects'[o].parent \in DOMAIN objects'
                           /\ objects'[objects'[o].parent].kind = "conn"
                           /\ objects'[o].alive => objects'[objects'[o].parent].alive
    BY DEF Family
  <2>1. CASE o = n  BY <2>1
  <2>2. CASE o \in DOMAIN objects  BY <1>1, <2>2 DEF Family
  <2>. QED  BY <2>1, <2>2
<1>3. Given'
  <2>1. nextToken' = nextToken /\ registry' = registry /\ issued' = issued  BY DEF table
  <2>2. \A k \in Tokens : registry[k] # 0 => registry[k] \in DOMAIN objects
    <3> SUFFICES ASSUME NEW k \in Tokens, registry[k] # 0  PROVE registry[k] \in DOMAIN objects
      OBVIOUS
    <3>1. registry[k] = issued[k] /\ (k >= nextToken => issued[k] = 0)
          /\ (k < nextToken => issued[k] \in DOMAIN objects)
      BY <1>1 DEF Given
    <3>2. k \in Nat /\ nextToken \in Nat  BY <1>1 DEF Tokens, TypeOK
    <3>. QED  BY <3>1, <3>2
  <2>3. \A k \in Tokens :
          /\ k >= nextToken => issued[k] = 0
          /\ k < nextToken => issued[k] \in DOMAIN objects'
          /\ registry[k] # 0 => registry[k] = issued[k] /\ objects'[registry[k]].alive
    BY <1>1, <2>2 DEF Given
  <2>. QED  BY <1>1, <2>1, <2>3 DEF Given
<1>4. Owned'
  <2>1. clients' = clients /\ built' = built /\ built \in Nat  BY <1>1 DEF TypeOK
  <2>2. \A o \in DOMAIN objects' : objects'[o].client <= built
    BY <1>1, <2>1 DEF Owned
  <2>3. \A o \in DOMAIN objects' :
          objects'[o].kind = "conn" /\ objects'[o].client # 0 =>
            o \in DOMAIN objects /\ objects'[o].client \in clients
    BY <1>1 DEF Owned
  <2>4. \A o, p \in DOMAIN objects' :
          objects'[o].kind = "conn" /\ objects'[p].kind = "conn" /\ objects'[o].client # 0
          /\ objects'[o].client = objects'[p].client => o = p
    BY <1>1, <2>3 DEF Owned
  <2>. QED  BY <1>1, <2>1, <2>2, <2>3, <2>4 DEF Owned
<1>5. Streams'
  <2> SUFFICES ASSUME NEW o \in DOMAIN objects', objects'[o].kind = "stmt", objects'[o].alive,
                      ~objects'[o].ended, objects'[o].client # 0
               PROVE  objects'[o].client = objects'[objects'[o].parent].client
    BY DEF Streams
  <2>1. o \in DOMAIN objects  OBVIOUS
  <2>2. objects[o].parent \in DOMAIN objects  BY <1>1, <2>1 DEF Family
  <2>. QED  BY <1>1, <2>1, <2>2 DEF Streams
<1>. QED  BY <1>2, <1>3, <1>4, <1>5

LEMMA BuildConnStep ==
  ASSUME IInv, NEW t \in Threads, BuildConn(t), refused' \in Nat
  PROVE  IInv'
<1> DEFINE n == Len(objects) + 1
<1>1. /\ At(t, "build") /\ ~At(t, "join") /\ thread[t].call = "AllocHandle(DBC)"
      /\ thread[t].token = 0 /\ ~thread[t].stale /\ thread[t] \in Thread
      /\ UNCHANGED <<clients, built, table, mutex, misused>>
  BY DEF BuildConn, IInv, ThreadInv, CallOf, HeldBy, At, TypeOK
<1>2. /\ objects' \in Seq(Object) /\ DOMAIN objects' = 1 .. n
      /\ \A o \in DOMAIN objects : objects'[o] = objects[o]
      /\ objects'[n] = [kind |-> "conn", alive |-> TRUE, parent |-> 0, client |-> 0,
                        listed |-> {}, ended |-> FALSE]
      /\ thread' \in [Threads -> Thread] /\ Alone(t)
      /\ thread'[t] = [thread[t] EXCEPT !.ptr = n, !.at = "insert"]
  BY BuildConnEffect DEF IInv
<1>3. /\ Len(objects) \in Nat /\ DOMAIN objects = 1 .. Len(objects) /\ n \in Nat
      /\ DOMAIN objects' = DOMAIN objects \cup {n} /\ n \notin DOMAIN objects /\ n # 0
      /\ 0 \notin DOMAIN objects
  BY <1>2, ObjectsAre DEF IInv
<1> HIDE DEF n
<1>4. /\ objects'[n].kind = "conn" /\ objects'[n].alive /\ objects'[n].parent = 0
      /\ objects'[n].client = 0 /\ objects'[n].listed = {} /\ ~objects'[n].ended
  BY <1>2
<1>5. /\ thread'[t].at = "insert" /\ thread'[t].ptr = n /\ thread'[t].token = 0
      /\ thread'[t].call = "AllocHandle(DBC)" /\ ~thread'[t].stale
  BY <1>1, <1>2 DEF Thread
<1>6. Steady /\ Issued
  BY <1>1, <1>2, <1>3 DEF Steady, Issued, table
<1>7. TypeOK'  BY <1>1, <1>2 DEF IInv, TypeOK, table
<1>8. \A o \in DOMAIN objects : objects[o].parent # n
  BY <1>3, ObjectsAre DEF IInv, Heap, Family, Object
<1>9. Heap'
  <2>1. Family' /\ Given' /\ Owned' /\ Streams'
    <3>1. UNCHANGED <<clients, built, table>>  BY <1>1
    <3>. QED  BY <1>2, <1>3, <1>4, <3>1, NewObject
  <2>2. Lists  BY EntryByEntry DEF IInv, Heap
  <2>3. \A s : Joining(s)' <=> Joining(s)  BY <1>1, <1>2, <1>5, SameJoins
  <2>4. ASSUME NEW c \in DOMAIN objects', objects'[c].alive
        PROVE  /\ objects'[c].listed \subseteq DOMAIN objects'
               /\ \A s \in DOMAIN objects' :
                    s \in objects'[c].listed <=>
                      objects'[s].alive /\ objects'[s].parent = c /\ ~Joining(s)'
    <3>1. CASE c = n
      <4>1. \A s \in DOMAIN objects' : objects'[s].parent # n
        BY <1>2, <1>3, <1>4, <1>8
      <4>. QED  BY <1>4, <3>1, <4>1
    <3>2. CASE c \in DOMAIN objects
      <4>1. objects'[c].listed \subseteq DOMAIN objects /\ objects'[c] = objects[c]
        BY <1>2, <2>2, <2>4, <3>2 DEF Lists
      <4>2. \A s \in DOMAIN objects :
              s \in objects'[c].listed <=>
                objects'[s].alive /\ objects'[s].parent = c /\ ~Joining(s)
        BY <1>2, <2>2, <2>4, <3>2, <4>1 DEF Lists
      <4>3. n \notin objects'[c].listed /\ objects'[n].parent # c
        BY <1>3, <1>4, <3>2, <4>1
      <4>. QED  BY <1>3, <2>3, <4>1, <4>2, <4>3
    <3>. QED  BY <1>3, <2>4, <3>1, <3>2
  <2>5. ListsItsStatements'  BY <2>4, EntryByEntryNext DEF Lists
  <2>. QED  BY <2>1, <2>5 DEF Heap
<1>10. ASSUME NEW u \in Threads \ {t}  PROVE ThreadInv(u)'
  <2>1. thread'[u] = thread[u]  BY <1>2 DEF Alone
  <2>2. CallOf(u)' /\ HeldBy(u)'  BY <1>1, <1>6, <2>1, HeldKept DEF table
  <2>3. ASSUME thread[u].token # 0
        PROVE  /\ ConnectionOf(thread[u].token) \in DOMAIN objects
               /\ issued[thread[u].token] \in DOMAIN objects
    BY <2>3, HandleConnection, HandleObject
  <2>4. KnownBy(u)'
    <3> DEFINE c == ConnectionOf(thread[u].token)
    <3>1. ASSUME thread[u].token # 0
          PROVE  /\ objects'[c].client = objects[c].client
                 /\ objects'[issued[thread[u].token]].ended
                      = objects[issued[thread[u].token]].ended
                 /\ \A o \in DOMAIN objects' :
                      objects'[o].parent = c /\ objects'[o].alive =>
                        o \in DOMAIN objects /\ objects[o].alive
      <4>1. c # 0  BY <1>3, <2>3, <3>1
      <4>2. \A o \in DOMAIN objects' : o = n \/ o \in DOMAIN objects  BY <1>3
      <4> HIDE DEF c
      <4>. QED  BY <1>2, <1>4, <2>3, <3>1, <4>1, <4>2 DEF c
    <3>. QED  BY <1>6, <2>1, <3>1, KnownKept
  <2>5. FreshOf(u)'
    BY <1>1, <1>2, <1>3, <1>5, <1>6, FreshKept DEF table
  <2>. QED  BY <2>2, <2>4, <2>5 DEF ThreadInv
<1>11. ThreadInv(t)'
  <2>1. CallOf(t)'  BY <1>5 DEF CallOf, At, Allocs
  <2>2. HeldBy(t)' /\ KnownBy(t)'  BY <1>5 DEF HeldBy, KnownBy, At, Good
  <2>3. \A k \in Tokens : issued'[k] # n
    BY <1>1, <1>3 DEF IInv, Heap, Given, TypeOK, Tokens, table
  <2>4. \A u \in Threads \ {t} : At(u, "insert")' => thread'[u].ptr # n
    BY <1>2, <1>3 DEF IInv, ThreadInv, FreshOf, Alone, At
  <2>5. FreshOf(t)'  BY <1>3, <1>4, <1>5, <2>3, <2>4 DEF FreshOf, At
  <2>. QED  BY <2>1, <2>2, <2>5 DEF ThreadInv
<1>12. Apart'  BY <1>2, <1>5, <1>6, ApartKept
<1>13. NoUseOfDestroyed'  BY <1>1 DEF NoUseOfDestroyed, IInv
<1>. QED  BY <1>7, <1>9, <1>10, <1>11, <1>12, <1>13 DEF IInv

LEMMA BuildStmtStep ==
  ASSUME IInv, NEW t \in Threads, BuildStmt(t), refused' \in Nat
  PROVE  IInv'
<1> DEFINE n == Len(objects) + 1
           conn == thread[t].ptr
<1>1. /\ At(t, "build") /\ ~At(t, "join") /\ thread[t].call = "AllocHandle(STMT)"
      /\ thread[t].token # 0 /\ thread[t] \in Thread /\ thread[t].at \in Working
      /\ HeldBy(t) /\ UNCHANGED <<clients, built, table, mutex>>
  BY DEF BuildStmt, IInv, ThreadInv, CallOf, At, TypeOK, Working
<1>2. /\ conn \in DOMAIN objects /\ objects[conn].alive /\ Alive(conn)
      /\ objects[conn].kind = "conn" /\ Good(t) /\ conn = issued[thread[t].token]
  BY <1>1, PointerAlive DEF RightKind, ConnCalls
<1>3. /\ objects' \in Seq(Object) /\ DOMAIN objects' = 1 .. n
      /\ \A o \in DOMAIN objects : o # conn => objects'[o] = objects[o]
      /\ objects'[conn] = [objects[conn] EXCEPT !.listed = @ \cup {n}]
      /\ objects'[n] = [kind |-> "stmt", alive |-> TRUE, parent |-> conn, client |-> 0,
                        listed |-> {}, ended |-> FALSE]
      /\ thread' \in [Threads -> Thread] /\ Alone(t)
      /\ thread'[t] = [thread[t] EXCEPT !.ptr = n, !.at = "insert"]
      /\ misused' = (misused \/ ~Alive(conn))
  BY <1>2, BuildStmtEffect DEF IInv
<1>4. /\ Len(objects) \in Nat /\ DOMAIN objects = 1 .. Len(objects) /\ n \in Nat
      /\ DOMAIN objects' = DOMAIN objects \cup {n} /\ n \notin DOMAIN objects /\ n # 0
      /\ 0 \notin DOMAIN objects /\ objects[conn] \in Object
  BY <1>2, <1>3, ObjectsAre DEF IInv
<1> HIDE DEF n
<1>5. /\ objects'[n].kind = "stmt" /\ objects'[n].alive /\ objects'[n].parent = conn
      /\ objects'[n].client = 0 /\ objects'[n].listed = {} /\ ~objects'[n].ended
  BY <1>3
<1>6. \A o \in DOMAIN objects :
        /\ objects'[o].kind = objects[o].kind /\ objects'[o].alive = objects[o].alive
        /\ objects'[o].parent = objects[o].parent /\ objects'[o].client = objects[o].client
        /\ objects'[o].ended = objects[o].ended
        /\ objects'[o].listed = IF o = conn THEN objects[o].listed \cup {n}
                                ELSE objects[o].listed
<2> SUFFICES ASSUME NEW o \in DOMAIN objects
             PROVE  /\ objects'[o].kind = objects[o].kind
                    /\ objects'[o].alive = objects[o].alive
                    /\ objects'[o].parent = objects[o].parent
                    /\ objects'[o].client = objects[o].client
                    /\ objects'[o].ended = objects[o].ended
                    /\ objects'[o].listed = IF o = conn THEN objects[o].listed \cup {n}
                                            ELSE objects[o].listed
  OBVIOUS
<2>1. CASE o = conn
  <3>1. objects'[o] = [objects[o] EXCEPT !.listed = @ \cup {n}] /\ objects[o] \in Object
    BY <1>3, <1>4, <2>1
  <3>. QED  BY <2>1, <3>1 DEF Object
<2>2. CASE o # conn  BY <1>3, <2>2
<2>. QED  BY <2>1, <2>2
<1>7. /\ thread'[t].at = "insert" /\ thread'[t].ptr = n
      /\ thread'[t].token = thread[t].token
      /\ thread'[t].call = "AllocHandle(STMT)" /\ thread'[t].stale = thread[t].stale
  BY <1>1, <1>3 DEF Thread
<1>8. Steady /\ Issued
  BY <1>1, <1>4, <1>6 DEF Steady, Issued, table
<1>9. TypeOK'  BY <1>1, <1>3 DEF IInv, TypeOK, table
<1>10. \A o \in DOMAIN objects : objects[o].parent # n
  BY <1>4, ObjectsAre DEF IInv, Heap, Family, Object
<1>11. Heap'
  <2>1. Family' /\ Given' /\ Owned' /\ Streams'
    <3>1. UNCHANGED <<clients, built, table>>  BY <1>1
    <3>. QED  BY ZenonT(60), <1>2, <1>4, <1>5, <1>6, <3>1, NewObject
  <2>2. Lists  BY EntryByEntry DEF IInv, Heap
  <2>3. \A s : Joining(s)' <=> Joining(s)  BY <1>1, <1>3, <1>7, SameJoins
  <2>4. ~Joining(n)
    <3> SUFFICES ASSUME NEW u \in Threads, At(u, "join")  PROVE thread[u].ptr # n
      BY DEF Joining
    <3>1. HeldBy(u) /\ thread[u].token # 0
      BY DEF IInv, ThreadInv, CallOf, At
    <3>2. thread[u].ptr = issued[thread[u].token] /\ issued[thread[u].token] \in DOMAIN objects
      BY <3>1, HandleObject DEF HeldBy, Working, At
    <3>. QED  BY <1>4, <3>2
  <2>5. ASSUME NEW c \in DOMAIN objects', objects'[c].alive
        PROVE  /\ objects'[c].listed \subseteq DOMAIN objects'
               /\ \A s \in DOMAIN objects' :
                    s \in objects'[c].listed <=>
                      objects'[s].alive /\ objects'[s].parent = c /\ ~Joining(s)'
    <3>1. CASE c = n
      <4>1. \A s \in DOMAIN objects' : objects'[s].parent # n
        <5>1. \A s \in DOMAIN objects' : s = n \/ s \in DOMAIN objects  BY <1>4
        <5>2. n # conn  BY <1>2, <1>4
        <5>. QED  BY <1>5, <1>6, <1>10, <5>1, <5>2
      <4>. QED  BY <1>5, <3>1, <4>1
    <3>2. CASE c \in DOMAIN objects
      <4>1. objects[c].alive /\ objects[c].listed \subseteq DOMAIN objects
        BY <1>6, <2>2, <2>5, <3>2 DEF Lists
      <4>2. \A s \in DOMAIN objects :
              s \in objects[c].listed <=>
                objects'[s].alive /\ objects'[s].parent = c /\ ~Joining(s)
        BY <1>6, <2>2, <3>2, <4>1 DEF Lists
      <4>3. /\ n \in objects'[c].listed <=> c = conn
            /\ \A s \in DOMAIN objects : s \in objects'[c].listed <=> s \in objects[c].listed
            /\ objects'[c].listed \subseteq DOMAIN objects'
        <5>1. objects'[c].listed = IF c = conn THEN objects[c].listed \cup {n}
                                  ELSE objects[c].listed
          BY <1>6, <3>2
        <5>2. n \notin objects[c].listed  BY <1>4, <4>1
        <5>. QED  BY <1>4, <4>1, <5>1, <5>2
      <4>. QED  BY <1>4, <1>5, <2>3, <2>4, <4>2, <4>3
    <3>. QED  BY <1>4, <2>5, <3>1, <3>2
  <2>6. ListsItsStatements'  BY <2>5, EntryByEntryNext DEF Lists
  <2>. QED  BY <2>1, <2>6 DEF Heap
<1>12. ConnectionOf(thread[t].token) = conn  BY <1>2 DEF ConnectionOf
<1>13. ASSUME NEW u \in Threads \ {t}  PROVE ThreadInv(u)'
  <2>1. thread'[u] = thread[u]  BY <1>3 DEF Alone
  <2>2. CallOf(u)' /\ HeldBy(u)'  BY <1>1, <1>8, <2>1, HeldKept DEF table
  <2>3. ASSUME thread[u].token # 0
        PROVE  /\ ConnectionOf(thread[u].token) \in DOMAIN objects
               /\ issued[thread[u].token] \in DOMAIN objects
    BY <2>3, HandleConnection, HandleObject
  <2>4. Good(u) /\ thread[u].call = "FreeHandle(DBC)" =>
          ConnectionOf(thread[u].token) # conn
    BY <1>2, <1>12, KeptApart DEF Structural
  <2>5. KnownBy(u)'
    BY ZenonT(60), <1>4, <1>5, <1>6, <1>8, <2>1, <2>3, <2>4, KnownKept
  <2>6. FreshOf(u)'
    BY <1>1, <1>3, <1>4, <1>6, <1>7, <1>8, FreshKept DEF table
  <2>. QED  BY <2>2, <2>5, <2>6 DEF ThreadInv
<1>14. ThreadInv(t)'
  <2>1. CallOf(t)'  BY <1>1, <1>7 DEF CallOf, At, Allocs
  <2>2. HeldBy(t)'
    <3>1. objects'[issued'[thread[t].token]].kind = "conn"
      BY <1>1, <1>2, <1>6 DEF table
    <3>. QED
      BY <1>1, <1>2, <1>7, <3>1 DEF HeldBy, At, Good, RightKind, ConnCalls, Working, table
  <2>3. KnownBy(t)'  BY <1>7 DEF KnownBy, At, Good
  <2>4. \A k \in Tokens : issued'[k] # n
    BY <1>1, <1>4 DEF IInv, Heap, Given, TypeOK, Tokens, table
  <2>5. \A u \in Threads \ {t} : At(u, "insert")' => thread'[u].ptr # n
    BY <1>3, <1>4 DEF IInv, ThreadInv, FreshOf, Alone, At
  <2>6. FreshOf(t)'  BY <1>4, <1>5, <1>7, <2>4, <2>5 DEF FreshOf, At
  <2>. QED  BY <2>1, <2>2, <2>3, <2>6 DEF ThreadInv
<1>15. Apart'  BY <1>1, <1>3, <1>7, <1>8, ApartKept
<1>16. NoUseOfDestroyed'  BY <1>2, <1>3 DEF NoUseOfDestroyed, IInv
<1>. QED  BY <1>9, <1>11, <1>13, <1>14, <1>15, <1>16 DEF IInv

\* What the registry holds is an object that was given its token.
LEMMA RegistryObject ==
  ASSUME IInv, NEW k \in Tokens, registry[k] # 0
  PROVE  registry[k] \in DOMAIN objects /\ registry[k] = issued[k]
<1>1. /\ registry[k] = issued[k] /\ (k >= nextToken => issued[k] = 0)
      /\ (k < nextToken => issued[k] \in DOMAIN objects)
  BY DEF IInv, Heap, Given
<1>2. k \in Nat /\ nextToken \in Nat  BY DEF IInv, Tokens, TypeOK
<1>. QED  BY <1>1, <1>2

\* What opening and closing a connection keep: its statements have ended, and nobody
\* else is in a call about it.
LEMMA EndingKeeps ==
  ASSUME IInv, NEW t \in Threads, NEW c \in Nat, thread[t].token # 0,
         thread[t].call \in {"Connect", "Disconnect"},
         thread[t].at \in Working, ~At(t, "join"),
         objects' = StatementsEnd([objects EXCEPT ![thread[t].ptr].client = c], thread[t].ptr),
         UNCHANGED <<table, mutex>>, thread' \in [Threads -> Thread], Alone(t),
         thread'[t].at \notin {"join", "insert"},
         \/ thread'[t].token = 0
         \/ /\ thread'[t].token = thread[t].token /\ thread'[t].call = thread[t].call
            /\ thread'[t].stale = thread[t].stale
  PROVE  /\ objects' \in Seq(Object) /\ DOMAIN objects' = DOMAIN objects
         /\ Steady /\ Issued
         /\ Family' /\ Given' /\ Streams' /\ ListsItsStatements' /\ Apart'
         /\ \A u \in Threads \ {t} : ThreadInv(u)'
         /\ thread[t].ptr \in DOMAIN objects /\ Alive(thread[t].ptr)
         /\ objects[thread[t].ptr].kind = "conn"
         /\ \A o \in DOMAIN objects :
              objects'[o].kind = objects[o].kind
              /\ objects'[o].client = IF o = thread[t].ptr THEN c ELSE objects[o].client
<1> DEFINE conn == thread[t].ptr
<1>1. /\ conn \in DOMAIN objects /\ Alive(conn) /\ objects[conn].kind = "conn"
      /\ Good(t) /\ conn = issued[thread[t].token] /\ thread[t].call \in Structural
  BY PointerAlive DEF RightKind, ConnCalls, Structural
<1>2. /\ objects' \in Seq(Object) /\ DOMAIN objects' = DOMAIN objects
      /\ \A o \in DOMAIN objects :
           /\ objects'[o].kind = objects[o].kind /\ objects'[o].alive = objects[o].alive
           /\ objects'[o].parent = objects[o].parent
           /\ objects'[o].listed = objects[o].listed
           /\ objects'[o].client = IF o = conn THEN c ELSE objects[o].client
           /\ objects'[o].ended = (objects[o].ended \/ objects[o].parent = conn)
  BY <1>1, EndingEffect DEF IInv
<1>3. Steady /\ Issued  BY <1>2 DEF Steady, Issued, table
<1>4. ConnectionOf(thread[t].token) = conn  BY <1>1 DEF ConnectionOf
<1>5. 0 \notin DOMAIN objects  BY ObjectsAre DEF IInv
<1>6. Family'
  <2> SUFFICES ASSUME NEW o \in DOMAIN objects
               PROVE  /\ objects'[o].kind = "conn" => objects'[o].parent = 0 /\ ~objects'[o].ended
                      /\ objects'[o].kind = "stmt" =>
                           /\ objects'[o].parent \in DOMAIN objects
                           /\ objects'[objects'[o].parent].kind = "conn"
                           /\ objects'[o].alive => objects'[objects'[o].parent].alive
    BY <1>2 DEF Family
  <2>1. objects[o].kind = "conn" => conn # objects[o].parent
    BY <1>1, <1>5 DEF IInv, Heap, Family
  <2>2. /\ objects[o].kind = "conn" => objects[o].parent = 0 /\ ~objects[o].ended
        /\ objects[o].kind = "stmt" =>
             /\ objects[o].parent \in DOMAIN objects
             /\ objects[objects[o].parent].kind = "conn"
             /\ objects[o].alive => objects[objects[o].parent].alive
    BY DEF IInv, Heap, Family
  <2>3. /\ objects'[o].kind = objects[o].kind /\ objects'[o].alive = objects[o].alive
        /\ objects'[o].parent = objects[o].parent
        /\ objects'[o].ended = (objects[o].ended \/ objects[o].parent = conn)
    BY <1>2
  <2>4. objects[o].parent \in DOMAIN objects =>
          /\ objects'[objects[o].parent].kind = objects[objects[o].parent].kind
          /\ objects'[objects[o].parent].alive = objects[objects[o].parent].alive
    BY <1>2
  <2>. QED  BY <2>1, <2>2, <2>3, <2>4
<1>7. Given'
  <2>1. nextToken' = nextToken /\ registry' = registry /\ issued' = issued  BY DEF table
  <2>2. Given /\ DOMAIN objects' = DOMAIN objects  BY <1>2 DEF IInv, Heap
  <2>3. \A k \in Tokens : registry[k] # 0 => registry[k] \in DOMAIN objects
    BY RegistryObject
  <2>4. \A k \in Tokens : registry[k] # 0 => objects'[registry[k]].alive
    <3> SUFFICES ASSUME NEW k \in Tokens, registry[k] # 0  PROVE objects'[registry[k]].alive
      OBVIOUS
    <3>1. objects[registry[k]].alive  BY <2>2 DEF Given
    <3>. QED  BY <1>2, <2>3, <3>1
  <2>. QED  BY <2>1, <2>2, <2>4 DEF Given
<1>8. Streams'
  <2> SUFFICES ASSUME NEW o \in DOMAIN objects, objects'[o].kind = "stmt", objects'[o].alive,
                      ~objects'[o].ended, objects'[o].client # 0
               PROVE  objects'[o].client = objects'[objects'[o].parent].client
    BY <1>2 DEF Streams
  <2>1. objects[o].parent \in DOMAIN objects /\ objects[o].parent # conn
    <3>1. /\ objects[o].kind = "stmt"
          /\ objects'[o].ended = (objects[o].ended \/ objects[o].parent = conn)
      BY <1>2
    <3>2. objects[o].kind = "stmt" => objects[o].parent \in DOMAIN objects
      BY DEF IInv, Heap, Family
    <3>. QED  BY <3>1, <3>2
  <2>2. o # conn
    <3>1. objects[o].kind = "stmt"  BY <1>2
    <3>. QED  BY <1>1, <3>1
  <2>3. /\ objects[o].kind = "stmt" /\ objects[o].alive /\ ~objects[o].ended
        /\ objects'[o].client = objects[o].client /\ objects'[o].parent = objects[o].parent
    BY <1>2, <2>2
  <2>4. objects[o].client = objects[objects[o].parent].client
    BY <2>3 DEF IInv, Heap, Streams
  <2>5. objects'[objects[o].parent].client = objects[objects[o].parent].client
    BY <1>2, <2>1
  <2>. QED  BY <2>3, <2>4, <2>5
<1>9. ListsItsStatements'
  <2>1. Lists  BY EntryByEntry DEF IInv, Heap
  <2>2. \A s : Joining(s)' <=> Joining(s)  BY SameJoins
  <2>3. ASSUME NEW c1 \in DOMAIN objects', objects'[c1].alive
        PROVE  /\ objects'[c1].listed \subseteq DOMAIN objects'
               /\ \A s \in DOMAIN objects' :
                    s \in objects'[c1].listed <=>
                      objects'[s].alive /\ objects'[s].parent = c1 /\ ~Joining(s)'
    <3>1. c1 \in DOMAIN objects /\ objects[c1].alive /\ objects'[c1].listed = objects[c1].listed
          /\ DOMAIN objects' = DOMAIN objects
      BY <1>2, <2>3
    <3>2. \A s \in DOMAIN objects : /\ objects'[s].alive = objects[s].alive
                                   /\ objects'[s].parent = objects[s].parent
      BY <1>2
    <3>3. /\ objects[c1].listed \subseteq DOMAIN objects
          /\ \A s \in DOMAIN objects :
               s \in objects[c1].listed <=>
                 objects[s].alive /\ objects[s].parent = c1 /\ ~Joining(s)
      BY <2>1, <3>1 DEF Lists
    <3> SUFFICES ASSUME NEW s \in DOMAIN objects
                 PROVE  s \in objects'[c1].listed <=>
                          objects'[s].alive /\ objects'[s].parent = c1 /\ ~Joining(s)'
      BY <3>1, <3>3
    <3>. QED  BY <2>2, <3>1, <3>2, <3>3
  <2>. QED  BY <2>3, EntryByEntryNext DEF Lists
<1>10. Apart'  BY <1>3, ApartKept
<1>11. ASSUME NEW u \in Threads \ {t}  PROVE ThreadInv(u)'
  <2>1. thread'[u] = thread[u]  BY DEF Alone
  <2>2. CallOf(u)' /\ HeldBy(u)'  BY <1>3, <2>1, HeldKept DEF table
  <2> DEFINE d == ConnectionOf(thread[u].token)
             i == issued[thread[u].token]
  <2>3. ASSUME thread[u].token # 0
        PROVE  /\ thread[u].at \in {"session", "query"} =>
                    objects'[d].client = objects[d].client
               /\ Good(u) => objects'[i].ended = objects[i].ended
    <3>1. d \in DOMAIN objects /\ objects[d].kind = "conn" /\ i \in DOMAIN objects
      BY <2>3, HandleConnection, HandleObject
    <3>2. thread[u].at \in {"session", "query"} => Good(u)
      BY <2>3 DEF IInv, ThreadInv, HeldBy, Good
    <3>3. Good(u) => d # conn  BY <1>1, <1>4, KeptApart
    <3>4. objects[i].ended \in BOOLEAN /\ objects[i].kind \in {"conn", "stmt"}
      BY <3>1, ObjectsAre DEF IInv, Object
    <3>5. Good(u) => objects[i].parent # conn
      <4>1. objects[i].kind = "stmt" => objects[i].parent = d
        BY DEF ConnectionOf
      <4>2. objects[i].kind = "conn" => objects[i].parent # conn
        BY <1>1, <1>5, <3>1 DEF IInv, Heap, Family
      <4>. QED  BY <3>3, <3>4, <4>1, <4>2
    <3>6. Good(u) => objects'[i].ended = objects[i].ended
      <4>1. objects'[i].ended = (objects[i].ended \/ objects[i].parent = conn)
        BY <1>2, <3>1
      <4>. QED  BY <3>4, <3>5, <4>1
    <3>. QED  BY <1>2, <3>1, <3>2, <3>3, <3>6
  <2>4. \A o \in DOMAIN objects' : objects'[o].alive => o \in DOMAIN objects /\ objects[o].alive
    BY <1>2
  <2>5. KnownBy(u)'  BY <1>3, <2>1, <2>3, <2>4, KnownKept
  <2>6. \A o \in DOMAIN objects : objects[o].alive => objects'[o].alive
    BY <1>2
  <2>7. FreshOf(u)'  BY <1>3, <2>6, FreshKept DEF table, At
  <2>. QED  BY <2>2, <2>5, <2>7 DEF ThreadInv
<1>. QED  BY <1>1, <1>2, <1>3, <1>6, <1>7, <1>8, <1>9, <1>10, <1>11

LEMMA MakeClientStep ==
  ASSUME IInv, NEW t \in Threads, MakeClient(t), refused' \in Nat
  PROVE  IInv'
<1> DEFINE conn == thread[t].ptr
<1>1. /\ At(t, "connect") /\ thread[t].at \in Working /\ ~At(t, "join") /\ thread[t].token # 0
      /\ thread[t].call = "Connect" /\ thread[t] \in Thread /\ HeldBy(t)
      /\ UNCHANGED <<table, mutex>> /\ Uses(Alive(conn))
      /\ built' = built + 1 /\ built \in Nat
      /\ clients' = (clients \ {objects[conn].client}) \cup {built'}
      /\ objects' = StatementsEnd([objects EXCEPT ![conn].client = built'], conn)
      /\ Goes(t, "session") \/ Returns(t)
  BY DEF MakeClient, IInv, ThreadInv, CallOf, At, TypeOK, Working
<1>2. thread' \in [Threads -> Thread] /\ Alone(t)
      /\ \/ thread'[t] = Idle
         \/ thread'[t] = [thread[t] EXCEPT !.at = "session"]
  BY <1>1, Going, Returning DEF IInv, Points
<1>3. \/ thread'[t] = Idle
      \/ /\ thread'[t].at = "session" /\ thread'[t].token = thread[t].token
         /\ thread'[t].call = thread[t].call /\ thread'[t].stale = thread[t].stale
         /\ thread'[t].ptr = conn
  BY <1>1, <1>2 DEF Thread
<1>4. thread'[t].at \notin {"join", "insert"}
      /\ \/ thread'[t].token = 0
         \/ /\ thread'[t].token = thread[t].token /\ thread'[t].call = thread[t].call
            /\ thread'[t].stale = thread[t].stale
  BY <1>3 DEF Idle
<1>5. /\ objects' \in Seq(Object) /\ DOMAIN objects' = DOMAIN objects
      /\ Steady /\ Issued
      /\ Family' /\ Given' /\ Streams' /\ ListsItsStatements' /\ Apart'
      /\ \A u \in Threads \ {t} : ThreadInv(u)'
      /\ conn \in DOMAIN objects /\ Alive(conn) /\ objects[conn].kind = "conn"
      /\ \A o \in DOMAIN objects :
           objects'[o].kind = objects[o].kind
           /\ objects'[o].client = IF o = conn THEN built' ELSE objects[o].client
  <2>1. built' \in Nat  BY <1>1
  <2>. QED  BY <1>1, <1>2, <1>4, <2>1, EndingKeeps
<1>6. TypeOK'  BY <1>1, <1>2, <1>5 DEF IInv, TypeOK, table, Uses
<1>7. Owned'
  <2>1. Owned  BY DEF IInv, Heap
  <2>2. \A o \in DOMAIN objects : objects[o].client \in Nat
    BY ObjectsAre DEF IInv, Object
  <2>3. \A c \in clients' : c \in 1 .. built'
    BY <1>1, <2>1 DEF Owned
  <2>4. \A o \in DOMAIN objects : objects'[o].client <= built'
    <3> SUFFICES ASSUME NEW o \in DOMAIN objects  PROVE objects'[o].client <= built'
      OBVIOUS
    <3>1. objects[o].client \in Nat /\ objects[o].client <= built  BY <2>1, <2>2 DEF Owned
    <3>2. objects'[o].client \in {built', objects[o].client}  BY <1>5
    <3>. QED  BY <1>1, <3>1, <3>2
  <2>5. ASSUME NEW o \in DOMAIN objects, objects'[o].kind = "conn", objects'[o].client # 0
        PROVE  objects'[o].client \in clients'
    <3>1. CASE o = conn  BY <1>1, <1>5, <3>1
    <3>2. CASE o # conn
      <4>1. objects'[o].client = objects[o].client /\ objects[o].kind = "conn"
        BY <1>5, <2>5, <3>2
      <4>2. objects[o].client \in clients  BY <2>1, <2>5, <4>1 DEF Owned
      <4>3. objects[o].client # objects[conn].client
        BY <1>5, <2>1, <2>5, <3>2, <4>1 DEF Owned
      <4>. QED  BY <1>1, <4>1, <4>2, <4>3
    <3>. QED  BY <3>1, <3>2
  <2>6. ASSUME NEW o \in DOMAIN objects, NEW p \in DOMAIN objects,
               objects'[o].kind = "conn", objects'[p].kind = "conn", objects'[o].client # 0,
               objects'[o].client = objects'[p].client
        PROVE  o = p
    <3>1. objects[o].client <= built /\ objects[p].client <= built
          /\ objects[o].client \in Nat /\ objects[p].client \in Nat
      BY <2>1, <2>2 DEF Owned
    <3>2. objects[o].client # built' /\ objects[p].client # built'  BY <1>1, <3>1
    <3>3. o = conn <=> p = conn  BY <1>5, <2>6, <3>2
    <3>4. o # conn /\ p # conn => o = p  BY <1>5, <2>1, <2>6 DEF Owned
    <3>. QED  BY <3>3, <3>4
  <2>. QED  BY <1>5, <2>3, <2>4, <2>5, <2>6 DEF Owned
<1>8. ThreadInv(t)'
  <2>1. CASE thread'[t] = Idle  BY <2>1, IdleInv
  <2>2. CASE thread'[t] # Idle
    <3>1. /\ thread'[t].at = "session" /\ thread'[t].token = thread[t].token
          /\ thread'[t].call = "Connect" /\ thread'[t].stale = thread[t].stale
          /\ thread'[t].ptr = conn
      BY <1>1, <1>3, <2>2
    <3>2. CallOf(t)'  BY <1>1, <3>1 DEF CallOf, At
    <3>3. Good(t) /\ conn = issued[thread[t].token]  BY <1>1, PointerAlive
    <3>4. HeldBy(t)'
      <4>1. objects'[conn].kind = "conn" /\ issued' = issued /\ registry' = registry
        BY <1>1, <1>5 DEF table
      <4>. QED
        BY <1>1, <3>1, <3>3, <4>1 DEF HeldBy, At, Good, RightKind, ConnCalls, Working
    <3>5. KnownBy(t)'
      <4>1. objects'[conn].client = built'  BY <1>5
      <4>2. objects'[conn].client # 0  BY <1>1, <4>1
      <4>. QED  BY <3>1, <4>2 DEF KnownBy, At, Good
    <3>6. FreshOf(t)'  BY <3>1 DEF FreshOf, At
    <3>. QED  BY <3>2, <3>4, <3>5, <3>6 DEF ThreadInv
  <2>. QED  BY <2>1, <2>2
<1>9. NoUseOfDestroyed'  BY <1>1, <1>5 DEF NoUseOfDestroyed, IInv, Uses
<1>. QED  BY <1>5, <1>6, <1>7, <1>8, <1>9 DEF IInv, Heap

\* A connection that is not open is left as it is.
LEMMA DisconnectClosed ==
  ASSUME IInv, NEW t \in Threads, Disconnect(t), ~HasClient(thread[t].ptr), refused' \in Nat
  PROVE  IInv'
<1>1. /\ thread[t].token # 0 /\ thread[t].at \in Working /\ ~At(t, "join")
  BY DEF Disconnect, IInv, ThreadInv, CallOf, At, Working
<1>2. Alive(thread[t].ptr)  BY <1>1, PointerAlive
<1>3. misused' = FALSE  BY <1>2, NotMisused DEF Disconnect
<1>4. UNCHANGED <<heap, table, mutex>> /\ Returns(t)  BY DEF Disconnect, heap
<1>. QED  BY <1>1, <1>3, <1>4, QuietReturn

LEMMA DisconnectOpen ==
  ASSUME IInv, NEW t \in Threads, Disconnect(t), HasClient(thread[t].ptr), refused' \in Nat
  PROVE  IInv'
<1> DEFINE conn == thread[t].ptr
<1>1. /\ thread[t].at \in Working /\ ~At(t, "join") /\ thread[t].token # 0
      /\ thread[t].call = "Disconnect"
      /\ UNCHANGED <<table, mutex>> /\ Uses(Alive(conn)) /\ built' = built
      /\ clients' = clients \ {objects[conn].client}
      /\ objects' = StatementsEnd([objects EXCEPT ![conn].client = 0], conn)
      /\ Returns(t)
  BY DEF Disconnect, IInv, ThreadInv, CallOf, At, TypeOK, Working
<1>2. thread' \in [Threads -> Thread] /\ Alone(t) /\ thread'[t] = Idle
  BY <1>1, Returning DEF IInv
<1>3. thread'[t].at \notin {"join", "insert"} /\ thread'[t].token = 0
  BY <1>2 DEF Idle
<1>4. /\ objects' \in Seq(Object) /\ DOMAIN objects' = DOMAIN objects
      /\ Steady /\ Issued
      /\ Family' /\ Given' /\ Streams' /\ ListsItsStatements' /\ Apart'
      /\ \A u \in Threads \ {t} : ThreadInv(u)'
      /\ conn \in DOMAIN objects /\ Alive(conn) /\ objects[conn].kind = "conn"
      /\ \A o \in DOMAIN objects :
           objects'[o].kind = objects[o].kind
           /\ objects'[o].client = IF o = conn THEN 0 ELSE objects[o].client
  <2>1. 0 \in Nat /\ thread[t].call \in {"Connect", "Disconnect"}  BY <1>1
  <2>. QED  BY <1>1, <1>2, <1>3, <2>1, EndingKeeps
<1>5. TypeOK'  BY <1>1, <1>2, <1>4 DEF IInv, TypeOK, table, Uses
<1>6. Owned'
  <2>1. Owned /\ built \in Nat  BY DEF IInv, Heap, TypeOK
  <2>2. \A o \in DOMAIN objects : objects'[o].client <= built'
    <3> SUFFICES ASSUME NEW o \in DOMAIN objects  PROVE objects'[o].client <= built
      BY <1>1
    <3>1. objects[o].client \in Nat /\ objects[o].client <= built
      BY <2>1, ObjectsAre DEF IInv, Object, Owned
    <3>2. objects'[o].client \in {0, objects[o].client}  BY <1>4
    <3>. QED  BY <2>1, <3>1, <3>2
  <2>3. ASSUME NEW o \in DOMAIN objects, objects'[o].kind = "conn", objects'[o].client # 0
        PROVE  /\ objects'[o].client \in clients'
               /\ o # conn /\ objects'[o].client = objects[o].client
    <3>1. o # conn /\ objects'[o].client = objects[o].client /\ objects[o].kind = "conn"
      BY <1>4, <2>3
    <3>2. objects[o].client \in clients /\ objects[o].client # objects[conn].client
      BY <1>4, <2>1, <2>3, <3>1 DEF Owned
    <3>. QED  BY <1>1, <3>1, <3>2
  <2>4. \A o, p \in DOMAIN objects :
          objects'[o].kind = "conn" /\ objects'[p].kind = "conn" /\ objects'[o].client # 0
          /\ objects'[o].client = objects'[p].client => o = p
    BY <1>4, <2>1, <2>3 DEF Owned
  <2>. QED  BY <1>1, <1>4, <2>1, <2>2, <2>3, <2>4 DEF Owned
<1>7. ThreadInv(t)'  BY <1>2, IdleInv
<1>8. NoUseOfDestroyed'  BY <1>1, <1>4 DEF NoUseOfDestroyed, IInv, Uses
<1>. QED  BY <1>4, <1>5, <1>6, <1>7, <1>8 DEF IInv, Heap

LEMMA DisconnectStep ==
  ASSUME IInv, NEW t \in Threads, Disconnect(t), refused' \in Nat
  PROVE  IInv'
  BY DisconnectOpen, DisconnectClosed

LEMMA QueryStep ==
  ASSUME IInv, NEW t \in Threads, Query(t), refused' \in Nat
  PROVE  IInv'
<1> DEFINE s == thread[t].ptr
           conn == objects[s].parent
<1>1. /\ At(t, "query") /\ thread[t].at \in Working /\ ~At(t, "join") /\ thread[t].token # 0
      /\ thread[t].call = "ExecDirect" /\ KnownBy(t) /\ thread[t] \in Thread
      /\ UNCHANGED <<clients, built, table, mutex>>
      /\ Uses(Alive(s) /\ thread[t].client \in clients) /\ Returns(t)
  BY DEF Query, IInv, ThreadInv, CallOf, At, TypeOK, Working
<1>2. /\ s \in DOMAIN objects /\ objects[s].alive /\ Alive(s) /\ objects[s].kind = "stmt"
      /\ Good(t) /\ s = issued[thread[t].token]
  BY <1>1, PointerAlive DEF RightKind, ConnCalls
<1>3. conn \in DOMAIN objects /\ objects[conn].kind = "conn" /\ conn # s
  BY <1>2 DEF IInv, Heap, Family
<1>4. /\ thread[t].client # 0 /\ thread[t].client = objects[conn].client
      /\ thread[t].client \in clients /\ ~objects[s].ended
  BY <1>1, <1>2, <1>3 DEF KnownBy, IInv, Heap, Owned
<1>5. PICK ref \in {objects[s].client, 0, thread[t].client} :
        objects' = [objects EXCEPT ![s].client = ref]
  BY DEF Query
<1> DEFINE new == [objects[s] EXCEPT !.client = ref]
<1>6. objects[s] \in Object /\ ref \in Nat /\ 0 \notin DOMAIN objects
  BY <1>1, <1>2, <1>5, ObjectsAre DEF Object, Thread, IInv
<1>7. /\ new \in Object /\ new.kind = objects[s].kind /\ new.alive = objects[s].alive
      /\ new.parent = objects[s].parent /\ new.listed = objects[s].listed
      /\ new.client = ref /\ new.ended = objects[s].ended
  BY <1>6 DEF Object
<1>8. objects' = [objects EXCEPT ![s] = new]  BY <1>5
<1> HIDE DEF new
<1>9. /\ objects' \in Seq(Object) /\ DOMAIN objects' = DOMAIN objects
      /\ objects'[s] = new
      /\ \A o \in DOMAIN objects : o # s => objects'[o] = objects[o]
  BY <1>2, <1>7, <1>8, ChangeEffect DEF IInv
<1>10. \A o \in DOMAIN objects :
        /\ objects'[o].kind = objects[o].kind /\ objects'[o].alive = objects[o].alive
        /\ objects'[o].parent = objects[o].parent /\ objects'[o].listed = objects[o].listed
        /\ objects'[o].ended = objects[o].ended
        /\ o # s => objects'[o].client = objects[o].client
  BY <1>7, <1>9
<1>11. thread' \in [Threads -> Thread] /\ Alone(t) /\ thread'[t] = Idle
  BY <1>1, Returning DEF IInv
<1>12. Steady /\ Issued  BY <1>1, <1>9, <1>10 DEF Steady, Issued, table
<1>13. misused' = FALSE  BY <1>1, <1>2, <1>4, NotMisused
<1>14. TypeOK'  BY <1>1, <1>9, <1>11, <1>13 DEF IInv, TypeOK, table
<1>15. Heap'
  <2>1. Family'  BY <1>9, <1>10 DEF IInv, Heap, Family
  <2>2. Given'
    <3>1. nextToken' = nextToken /\ registry' = registry /\ issued' = issued
      BY <1>1 DEF table
    <3>2. \A k \in Tokens : registry[k] # 0 => registry[k] \in DOMAIN objects
      BY RegistryObject
    <3>. QED  BY <1>9, <1>10, <3>1, <3>2 DEF IInv, Heap, Given
  <2>3. Owned'
    <3>1. ref <= built
      <4>1. objects[s].client <= built /\ objects[conn].client <= built /\ 0 <= built
        BY <1>2, <1>3 DEF IInv, Heap, Owned, TypeOK
      <4>. QED  BY <1>4, <1>5, <4>1
    <3>2. \A o \in DOMAIN objects : objects'[o].client <= built
      BY <1>7, <1>9, <1>10, <3>1 DEF IInv, Heap, Owned
    <3>3. \A o \in DOMAIN objects : objects'[o].kind = "conn" =>
            objects[o].kind = "conn" /\ objects'[o].client = objects[o].client
      BY <1>2, <1>10
    <3>. QED  BY <1>1, <1>9, <3>2, <3>3 DEF IInv, Heap, Owned
  <2>4. Streams'
    <3> SUFFICES ASSUME NEW o \in DOMAIN objects, objects[o].kind = "stmt", objects[o].alive,
                        ~objects[o].ended, objects'[o].client # 0
                 PROVE  objects'[o].client = objects'[objects[o].parent].client
      BY <1>9, <1>10 DEF Streams
    <3>1. objects[o].parent \in DOMAIN objects /\ objects[objects[o].parent].kind = "conn"
      BY DEF IInv, Heap, Family
    <3>2. objects'[objects[o].parent].client = objects[objects[o].parent].client
      BY <1>2, <1>10, <3>1
    <3>3. CASE o = s
      <4>1. objects[s].client # 0 => objects[s].client = objects[conn].client
        BY <1>2, <1>4 DEF IInv, Heap, Streams
      <4>2. objects'[s].client = ref  BY <1>7, <1>9
      <4>. QED  BY <1>4, <1>5, <3>2, <3>3, <4>1, <4>2
    <3>4. CASE o # s
      BY <1>10, <3>2, <3>4 DEF IInv, Heap, Streams
    <3>. QED  BY <3>3, <3>4
  <2>5. ListsItsStatements'
    <3>1. Lists  BY EntryByEntry DEF IInv, Heap
    <3>2. \A p : Joining(p)' <=> Joining(p)
      <4>1. thread'[t].at # "join"  BY <1>11 DEF Idle
      <4>. QED  BY <1>1, <1>11, <4>1, SameJoins
    <3>3. Lists'  BY <1>9, <1>10, <3>1, <3>2 DEF Lists
    <3>. QED  BY <3>3, EntryByEntryNext
  <2>. QED  BY <2>1, <2>2, <2>3, <2>4, <2>5 DEF Heap
<1>16. ASSUME NEW u \in Threads \ {t}  PROVE ThreadInv(u)'
  <2>1. thread'[u] = thread[u]  BY <1>11 DEF Alone
  <2>2. CallOf(u)' /\ HeldBy(u)'  BY <1>1, <1>12, <2>1, HeldKept DEF table
  <2>3. KnownBy(u)'
    <3> DEFINE d == ConnectionOf(thread[u].token)
    <3>1. ASSUME thread[u].token # 0
          PROVE  /\ objects'[d].client = objects[d].client
                 /\ objects'[issued[thread[u].token]].ended
                      = objects[issued[thread[u].token]].ended
      <4>1. d \in DOMAIN objects /\ objects[d].kind = "conn"
            /\ issued[thread[u].token] \in DOMAIN objects
        BY <3>1, HandleConnection, HandleObject
      <4>. QED  BY <1>2, <1>10, <4>1
    <3>2. \A o \in DOMAIN objects' : objects'[o].alive => o \in DOMAIN objects /\ objects[o].alive
      BY <1>9, <1>10
    <3>. QED  BY <1>12, <2>1, <3>1, <3>2, KnownKept
  <2>4. \A o \in DOMAIN objects : objects[o].alive => objects'[o].alive
    BY <1>10
  <2>5. ~At(t, "insert")'  BY <1>11 DEF Idle, At
  <2>6. FreshOf(u)'  BY <1>1, <1>11, <1>12, <2>4, <2>5, FreshKept DEF table
  <2>. QED  BY <2>2, <2>3, <2>6 DEF ThreadInv
<1>17. ThreadInv(t)'  BY <1>11, IdleInv
<1>18. Apart'  BY <1>11, <1>12, ApartKept DEF Idle
<1>. QED  BY <1>13, <1>14, <1>15, <1>16, <1>17, <1>18 DEF IInv, NoUseOfDestroyed

\* The handle a call is to free: nobody else has it.
LEMMA Erasing ==
  ASSUME IInv, NEW t \in Threads, At(t, "erase"), registry[thread[t].token] # 0
  PROVE  /\ thread[t].token \in Tokens /\ thread[t].token # 0 /\ Good(t)
         /\ registry[thread[t].token] \in DOMAIN objects
         /\ registry[thread[t].token] = issued[thread[t].token]
         /\ objects[registry[thread[t].token]].alive
         /\ thread[t].call \in FreeCalls
         /\ RightKind(registry[thread[t].token], thread[t].call)
         /\ \A u \in Threads \ {t} :
              thread[u].token # 0 /\ thread[u].token = thread[t].token => FALSE
<1>1. /\ CallOf(t) /\ HeldBy(t) /\ thread[t].call \in FreeCalls /\ thread[t].token # 0
  BY DEF IInv, ThreadInv, CallOf, At, FreeCalls
<1>2. thread[t].token \in Tokens  BY <1>1, HandleObject
<1>3. /\ registry[thread[t].token] \in DOMAIN objects
      /\ registry[thread[t].token] = issued[thread[t].token]
      /\ objects[registry[thread[t].token]].alive
  BY <1>2, RegistryObject DEF IInv, Heap, Given
<1>4. Good(t)  BY <1>1 DEF HeldBy, Good
<1>5. RightKind(registry[thread[t].token], thread[t].call)
  BY <1>1, <1>3 DEF HeldBy, FreeCalls
<1>6. ASSUME NEW u \in Threads \ {t}, thread[u].token # 0, thread[u].token = thread[t].token
      PROVE  FALSE
  <2>1. Good(u)  BY <1>6 DEF IInv, ThreadInv, HeldBy, Good
  <2>. QED  BY <1>4, <1>6, <2>1, KeptApart
<1>. QED  BY <1>1, <1>2, <1>3, <1>4, <1>5, <1>6

\* What is left of an object.
LEMMA DestroyedIs ==
  ASSUME TypeOK, NEW o \in DOMAIN objects
  PROVE  /\ Destroyed(o) \in Object /\ ~Destroyed(o).alive /\ Destroyed(o).client = 0
         /\ Destroyed(o).kind = objects[o].kind /\ Destroyed(o).parent = objects[o].parent
         /\ Destroyed(o).ended = objects[o].ended
<1>1. objects[o] \in Object  BY ObjectsAre
<1>. QED  BY <1>1 DEF Object, Destroyed

LEMMA EraseConnStep ==
  ASSUME IInv, NEW t \in Threads, EraseConn(t), refused' \in Nat
  PROVE  IInv'
<1> DEFINE k == thread[t].token
           conn == registry[k]
<1>1. /\ At(t, "erase") /\ ~At(t, "join") /\ conn # 0 /\ objects[conn].kind = "conn"
      /\ EraseToken(t) /\ clients' = clients \ {objects[conn].client}
      /\ objects' = [objects EXCEPT ![conn] = Destroyed(conn)]
      /\ Returns(t) /\ UNCHANGED <<built, nextToken, issued, mutex, misused>>
  BY DEF EraseConn, At
<1>2. /\ k \in Tokens /\ k # 0 /\ Good(t) /\ conn \in DOMAIN objects
      /\ conn = issued[k] /\ objects[conn].alive /\ thread[t].call \in FreeCalls
      /\ RightKind(conn, thread[t].call)
      /\ \A u \in Threads \ {t} : thread[u].token # 0 /\ thread[u].token = k => FALSE
  BY <1>1, Erasing
<1>3. thread[t].call = "FreeHandle(DBC)"
  BY <1>1, <1>2 DEF RightKind, FreeCalls, ConnCalls
<1>4. \A o \in DOMAIN objects : objects[o].parent = conn => ~objects[o].alive
  BY <1>2, <1>3 DEF IInv, ThreadInv, KnownBy
<1>5. /\ objects' \in Seq(Object) /\ DOMAIN objects' = DOMAIN objects
      /\ objects'[conn] = Destroyed(conn)
      /\ \A o \in DOMAIN objects : o # conn => objects'[o] = objects[o]
  BY <1>1, <1>2, DestroyedIs, ChangeEffect DEF IInv
<1>6. \A o \in DOMAIN objects :
        /\ objects'[o].kind = objects[o].kind /\ objects'[o].parent = objects[o].parent
        /\ objects'[o].ended = objects[o].ended
        /\ o # conn => /\ objects'[o].client = objects[o].client
                       /\ objects'[o].alive = objects[o].alive
                       /\ objects'[o].listed = objects[o].listed
  BY <1>2, <1>5, DestroyedIs DEF IInv
<1>7. ~objects'[conn].alive /\ objects'[conn].client = 0
  BY <1>2, <1>5, DestroyedIs DEF IInv
<1>8. thread' \in [Threads -> Thread] /\ Alone(t) /\ thread'[t] = Idle
  BY <1>1, Returning DEF IInv
<1>9. /\ registry' \in [Tokens -> Nat] /\ registry'[k] = 0
      /\ \A l \in Tokens : l # k => registry'[l] = registry[l]
  BY <1>1, <1>2 DEF EraseToken, IInv, TypeOK
<1>10. Steady /\ Issued  BY <1>1, <1>5, <1>6 DEF Steady, Issued
<1>11. TypeOK'  BY <1>1, <1>5, <1>8, <1>9 DEF IInv, TypeOK
<1>12. Heap'
  <2>1. Family'
    <3> SUFFICES ASSUME NEW o \in DOMAIN objects
                 PROVE  /\ objects[o].kind = "conn" => objects[o].parent = 0 /\ ~objects[o].ended
                        /\ objects[o].kind = "stmt" =>
                             /\ objects[o].parent \in DOMAIN objects
                             /\ objects'[objects[o].parent].kind = "conn"
                             /\ objects'[o].alive => objects'[objects[o].parent].alive
      BY <1>5, <1>6 DEF Family
    <3>1. /\ objects[o].kind = "conn" => objects[o].parent = 0 /\ ~objects[o].ended
          /\ objects[o].kind = "stmt" =>
               /\ objects[o].parent \in DOMAIN objects
               /\ objects[objects[o].parent].kind = "conn"
               /\ objects[o].alive => objects[objects[o].parent].alive
      BY DEF IInv, Heap, Family
    <3>2. objects'[o].alive => objects[o].alive /\ objects[o].parent # conn
      BY <1>4, <1>6, <1>7
    <3>. QED  BY <1>6, <3>1, <3>2
  <2>2. Given'
    <3>1. ASSUME NEW l \in Tokens, registry'[l] # 0
          PROVE  registry'[l] = issued[l] /\ objects'[registry'[l]].alive
      <4>1. l # k /\ registry'[l] = registry[l]  BY <1>9, <3>1
      <4>2. registry[l] \in DOMAIN objects /\ registry[l] = issued[l]
        BY <3>1, <4>1, RegistryObject
      <4>3. objects[registry[l]].alive /\ registry[l] # conn
        BY <1>2, <3>1, <4>1, <4>2 DEF IInv, Heap, Given
      <4>. QED  BY <1>6, <4>1, <4>2, <4>3
    <3>. QED  BY <1>1, <1>5, <3>1 DEF IInv, Heap, Given
  <2>3. Owned'
    <3>1. Owned /\ built \in Nat  BY DEF IInv, Heap, TypeOK
    <3>2. \A o \in DOMAIN objects : objects'[o].client <= built
      <4> SUFFICES ASSUME NEW o \in DOMAIN objects  PROVE objects'[o].client <= built
        OBVIOUS
      <4>1. objects[o].client <= built  BY <3>1 DEF Owned
      <4>2. objects'[o].client \in {0, objects[o].client}  BY <1>6, <1>7
      <4>. QED  BY <3>1, <4>1, <4>2
    <3>3. ASSUME NEW o \in DOMAIN objects, objects'[o].kind = "conn", objects'[o].client # 0
          PROVE  /\ objects'[o].client \in clients'
                 /\ o # conn /\ objects'[o].client = objects[o].client
                 /\ objects[o].kind = "conn"
      <4>1. o # conn /\ objects'[o].client = objects[o].client /\ objects[o].kind = "conn"
        BY <1>6, <1>7, <3>3
      <4>2. objects[o].client \in clients /\ objects[o].client # objects[conn].client
        BY <1>1, <1>2, <3>1, <3>3, <4>1 DEF Owned
      <4>. QED  BY <1>1, <4>1, <4>2
    <3>4. \A o, p \in DOMAIN objects :
            objects'[o].kind = "conn" /\ objects'[p].kind = "conn" /\ objects'[o].client # 0
            /\ objects'[o].client = objects'[p].client => o = p
      BY <3>1, <3>3 DEF Owned
    <3>. QED  BY <1>1, <1>5, <3>1, <3>2, <3>3, <3>4 DEF Owned
  <2>4. Streams'
    <3> SUFFICES ASSUME NEW o \in DOMAIN objects, objects[o].kind = "stmt", objects'[o].alive,
                        ~objects[o].ended, objects'[o].client # 0
                 PROVE  objects'[o].client = objects'[objects[o].parent].client
      BY <1>5, <1>6 DEF Streams
    <3>1. /\ objects[o].alive /\ objects[o].parent # conn
          /\ objects'[o].client = objects[o].client
      BY <1>4, <1>6, <1>7
    <3>2. objects[o].parent \in DOMAIN objects  BY DEF IInv, Heap, Family
    <3>. QED  BY <1>6, <3>1, <3>2 DEF IInv, Heap, Streams
  <2>5. ListsItsStatements'
    <3>1. Lists  BY EntryByEntry DEF IInv, Heap
    <3>2. \A p : Joining(p)' <=> Joining(p)
      <4>1. thread'[t].at # "join"  BY <1>8 DEF Idle
      <4>. QED  BY <1>1, <1>8, <4>1, SameJoins
    <3>3. ASSUME NEW c \in DOMAIN objects', objects'[c].alive
          PROVE  /\ objects'[c].listed \subseteq DOMAIN objects'
                 /\ \A s \in DOMAIN objects' :
                      s \in objects'[c].listed <=>
                        objects'[s].alive /\ objects'[s].parent = c /\ ~Joining(s)'
      <4>1. /\ c # conn /\ c \in DOMAIN objects /\ objects[c].alive
            /\ objects'[c].listed = objects[c].listed
        BY <1>5, <1>6, <1>7, <3>3
      <4>2. objects[conn].parent # c
        BY <1>1, <1>2, <4>1, ObjectsAre DEF IInv, Heap, Family
      <4>3. \A s \in DOMAIN objects : objects'[s].alive /\ objects'[s].parent = c <=>
                                      objects[s].alive /\ objects[s].parent = c
        BY <1>6, <4>2
      <4>. QED  BY <1>5, <3>1, <3>2, <4>1, <4>3 DEF Lists
    <3>. QED  BY <3>3, EntryByEntryNext DEF Lists
  <2>. QED  BY <2>1, <2>2, <2>3, <2>4, <2>5 DEF Heap
<1>13. ConnectionOf(k) = conn  BY <1>1, <1>2 DEF ConnectionOf
<1>14. ASSUME NEW u \in Threads \ {t}  PROVE ThreadInv(u)'
  <2>1. thread'[u] = thread[u]  BY <1>8 DEF Alone
  <2>2. CallOf(u)' /\ HeldBy(u)'
    <3>1. thread[u].token # 0 => registry'[thread[u].token] = registry[thread[u].token]
      BY <1>2, <1>9, HandleObject
    <3>. QED  BY <1>1, <1>10, <2>1, <3>1, HeldKept
  <2>3. KnownBy(u)'
    <3> DEFINE d == ConnectionOf(thread[u].token)
               i == issued[thread[u].token]
    <3>1. ASSUME thread[u].token # 0
          PROVE  /\ thread[u].at \in {"session", "query"} =>
                      objects'[d].client = objects[d].client
                 /\ objects'[i].ended = objects[i].ended
      <4>1. d \in DOMAIN objects /\ i \in DOMAIN objects
        BY <3>1, HandleConnection, HandleObject
      <4>2. thread[u].at \in {"session", "query"} => Good(u)
        BY <3>1 DEF IInv, ThreadInv, HeldBy, Good
      <4>3. Good(u) => d # conn  BY <1>2, <1>3, <1>13, KeptApart DEF Structural
      <4>. QED  BY <1>6, <4>1, <4>2, <4>3
    <3>2. \A o \in DOMAIN objects' : objects'[o].alive => o \in DOMAIN objects /\ objects[o].alive
      BY <1>5, <1>6, <1>7
    <3>. QED  BY <1>10, <2>1, <3>1, <3>2, KnownKept
  <2>4. \A o \in DOMAIN objects :
          (objects[o].alive /\ \A l \in Tokens : issued[l] # o) => objects'[o].alive
    BY <1>2, <1>6
  <2>5. ~At(t, "insert")'  BY <1>8 DEF Idle, At
  <2>6. FreshOf(u)'  BY <1>1, <1>8, <1>10, <2>4, <2>5, FreshKept
  <2>. QED  BY <2>2, <2>3, <2>6 DEF ThreadInv
<1>15. ThreadInv(t)'  BY <1>8, IdleInv
<1>16. Apart'  BY <1>8, <1>10, ApartKept DEF Idle
<1>17. NoUseOfDestroyed'  BY <1>1 DEF NoUseOfDestroyed, IInv
<1>. QED  BY <1>11, <1>12, <1>14, <1>15, <1>16, <1>17 DEF IInv

\* An object with another list is otherwise the same.
LEMMA Relisted ==
  ASSUME NEW obj \in Object, NEW l \in SUBSET Nat
  PROVE  LET r == [obj EXCEPT !.listed = l]
         IN  /\ r \in Object /\ r.kind = obj.kind /\ r.alive = obj.alive
             /\ r.parent = obj.parent /\ r.listed = l
             /\ r.client = obj.client /\ r.ended = obj.ended
  BY DEF Object

LEMMA EraseStmtStep ==
  ASSUME IInv, NEW t \in Threads, EraseStmt(t), refused' \in Nat
  PROVE  IInv'
<1> DEFINE k == thread[t].token
           stmt == registry[k]
           conn == objects[stmt].parent
<1>1. /\ At(t, "erase") /\ stmt # 0 /\ objects[stmt].kind = "stmt"
      /\ EraseToken(t) /\ mutex = NoThread /\ mutex' = t /\ Uses(Alive(conn))
      /\ objects' = [objects EXCEPT ![conn].listed = @ \ {stmt}]
      /\ thread' = [thread EXCEPT ![t].ptr = stmt, ![t].at = "join"]
      /\ UNCHANGED <<clients, built, nextToken, issued>> /\ thread[t] \in Thread
  BY DEF EraseStmt, Unlisted, MutexFree, IInv, TypeOK
<1>2. /\ k \in Tokens /\ k # 0 /\ Good(t) /\ stmt \in DOMAIN objects
      /\ stmt = issued[k] /\ objects[stmt].alive /\ thread[t].call \in FreeCalls
      /\ RightKind(stmt, thread[t].call)
      /\ \A u \in Threads \ {t} : thread[u].token # 0 /\ thread[u].token = k => FALSE
  BY <1>1, Erasing
<1>3. thread[t].call = "FreeHandle(STMT)"
  BY <1>1, <1>2 DEF RightKind, FreeCalls, ConnCalls
<1>4. conn \in DOMAIN objects /\ objects[conn].alive /\ Alive(conn)
  BY <1>1, <1>2 DEF IInv, Heap, Family, Alive
<1> DEFINE new == [objects[conn] EXCEPT !.listed = @ \ {stmt}]
<1>5. objects[conn] \in Object /\ stmt \in Nat /\ stmt # 0
  <2>1. objects[conn] \in Object  BY <1>4, ObjectsAre DEF IInv
  <2>2. stmt \in Nat  BY <1>2, ObjectsAre DEF IInv
  <2>. QED  BY <1>1, <2>1, <2>2
<1>6. /\ new \in Object /\ new.kind = objects[conn].kind /\ new.alive = objects[conn].alive
      /\ new.parent = objects[conn].parent /\ new.listed = objects[conn].listed \ {stmt}
      /\ new.client = objects[conn].client /\ new.ended = objects[conn].ended
  <2>1. objects[conn].listed \ {stmt} \in SUBSET Nat  BY <1>5 DEF Object
  <2>. QED  BY <1>5, <2>1, Relisted
<1>7. objects' = [objects EXCEPT ![conn] = new]  BY <1>1
<1> HIDE DEF new
<1>8. /\ objects' \in Seq(Object) /\ DOMAIN objects' = DOMAIN objects
      /\ objects'[conn] = new
      /\ \A o \in DOMAIN objects : o # conn => objects'[o] = objects[o]
  BY <1>4, <1>6, <1>7, ChangeEffect DEF IInv
<1>9. \A o \in DOMAIN objects :
        /\ objects'[o].kind = objects[o].kind /\ objects'[o].alive = objects[o].alive
        /\ objects'[o].parent = objects[o].parent /\ objects'[o].client = objects[o].client
        /\ objects'[o].ended = objects[o].ended
        /\ o # conn => objects'[o].listed = objects[o].listed
  BY <1>6, <1>8
<1>10. objects'[conn].listed = objects[conn].listed \ {stmt}  BY <1>6, <1>8
<1>11. /\ thread' \in [Threads -> Thread] /\ Alone(t)
       /\ thread'[t] = [thread[t] EXCEPT !.ptr = stmt, !.at = "join"]
  BY <1>1, <1>5, Holding DEF IInv, Points
<1>12. /\ thread'[t].at = "join" /\ thread'[t].ptr = stmt /\ thread'[t].token = k
       /\ thread'[t].call = thread[t].call /\ thread'[t].stale = thread[t].stale
  BY <1>1, <1>11 DEF Thread
<1>13. /\ registry' \in [Tokens -> Nat] /\ registry'[k] = 0
       /\ \A l \in Tokens : l # k => registry'[l] = registry[l]
  BY <1>1, <1>2 DEF EraseToken, IInv, TypeOK
<1>14. Steady /\ Issued  BY <1>1, <1>8, <1>9 DEF Steady, Issued
<1>15. misused' = FALSE  BY <1>1, <1>4, NotMisused
<1>16. TypeOK'
  <2>1. mutex' \in Threads \cup {NoThread}  BY <1>1
  <2>. QED  BY <1>1, <1>8, <1>11, <1>13, <1>15, <2>1 DEF IInv, TypeOK
<1>17. \A u \in Threads : ~At(u, "join")
  <2> SUFFICES ASSUME NEW u \in Threads, At(u, "join")  PROVE FALSE
    OBVIOUS
  <2>1. mutex = u  BY DEF IInv, ThreadInv, HeldBy
  <2>. QED  BY <1>1, <2>1, LifecycleAssumption
<1>18. Heap'
  <2>1. Family'  BY <1>8, <1>9 DEF IInv, Heap, Family
  <2>2. Given'
    <3>1. ASSUME NEW l \in Tokens, registry'[l] # 0
          PROVE  registry'[l] = issued[l] /\ objects'[registry'[l]].alive
      <4>1. registry'[l] = registry[l]  BY <1>13, <3>1
      <4>2. registry[l] \in DOMAIN objects /\ registry[l] = issued[l]
        BY <3>1, <4>1, RegistryObject
      <4>3. objects[registry[l]].alive  BY <3>1, <4>1 DEF IInv, Heap, Given
      <4>. QED  BY <1>9, <4>1, <4>2, <4>3
    <3>. QED  BY <1>1, <1>8, <3>1 DEF IInv, Heap, Given
  <2>3. Owned'
    <3>1. Owned /\ clients' = clients /\ built' = built
      BY <1>1 DEF IInv, Heap
    <3>2. \A o \in DOMAIN objects :
            objects'[o].client = objects[o].client /\ objects'[o].kind = objects[o].kind
      BY <1>9
    <3>. QED  BY <1>8, <3>1, <3>2 DEF Owned
  <2>4. Streams'
    <3>1. \A o \in DOMAIN objects : objects[o].kind = "stmt" =>
            objects[o].parent \in DOMAIN objects
      BY DEF IInv, Heap, Family
    <3>. QED  BY <1>8, <1>9, <3>1 DEF IInv, Heap, Streams
  <2>5. ListsItsStatements'
    <3>1. Lists  BY EntryByEntry DEF IInv, Heap
    <3>2. \A p : ~Joining(p) /\ (Joining(p)' <=> p = stmt)
      <4>1. \A u \in Threads : At(u, "join")' <=> u = t
        BY <1>11, <1>12, <1>17 DEF Alone, At
      <4>. QED  BY <1>12, <1>17, <4>1 DEF Joining
    <3>3. ASSUME NEW c \in DOMAIN objects', objects'[c].alive
          PROVE  /\ objects'[c].listed \subseteq DOMAIN objects'
                 /\ \A s \in DOMAIN objects' :
                      s \in objects'[c].listed <=>
                        objects'[s].alive /\ objects'[s].parent = c /\ ~Joining(s)'
      <4>1. /\ c \in DOMAIN objects /\ objects[c].alive
            /\ objects'[c].listed = IF c = conn THEN objects[c].listed \ {stmt}
                                    ELSE objects[c].listed
        BY <1>8, <1>9, <1>10, <3>3
      <4>2. \A s \in DOMAIN objects : objects'[s].alive /\ objects'[s].parent = c <=>
                                      objects[s].alive /\ objects[s].parent = c
        BY <1>9
      <4>3. \A s \in DOMAIN objects :
              s \in objects[c].listed <=> objects[s].alive /\ objects[s].parent = c
        BY <3>1, <3>2, <4>1 DEF Lists
      <4>4. objects[c].listed \subseteq DOMAIN objects  BY <3>1, <4>1 DEF Lists
      <4>5. \A s \in DOMAIN objects :
              s \in objects'[c].listed <=>
                objects[s].alive /\ objects[s].parent = c /\ s # stmt
        BY <1>2, <4>1, <4>3
      <4>. QED  BY <1>8, <3>2, <4>1, <4>2, <4>4, <4>5
    <3>. QED  BY <3>3, EntryByEntryNext DEF Lists
  <2>. QED  BY <2>1, <2>2, <2>3, <2>4, <2>5 DEF Heap
<1>19. ASSUME NEW u \in Threads \ {t}  PROVE ThreadInv(u)'
  <2>1. thread'[u] = thread[u]  BY <1>11 DEF Alone
  <2>2. CallOf(u)' /\ HeldBy(u)'
    <3>1. thread[u].token # 0 => registry'[thread[u].token] = registry[thread[u].token]
      BY <1>2, <1>13, HandleObject
    <3>. QED  BY <1>14, <1>17, <2>1, <3>1, HeldKept
  <2>3. KnownBy(u)'
    <3> DEFINE d == ConnectionOf(thread[u].token)
               i == issued[thread[u].token]
    <3>1. ASSUME thread[u].token # 0
          PROVE  objects'[d].client = objects[d].client /\ objects'[i].ended = objects[i].ended
      <4>1. d \in DOMAIN objects /\ i \in DOMAIN objects
        BY <3>1, HandleConnection, HandleObject
      <4>. QED  BY <1>9, <4>1
    <3>2. \A o \in DOMAIN objects' : objects'[o].alive => o \in DOMAIN objects /\ objects[o].alive
      BY <1>8, <1>9
    <3>. QED  BY <1>14, <2>1, <3>1, <3>2, KnownKept
  <2>4. \A o \in DOMAIN objects : objects[o].alive => objects'[o].alive  BY <1>9
  <2>5. ~At(t, "insert")'  BY <1>12 DEF At
  <2>6. FreshOf(u)'  BY <1>1, <1>11, <1>14, <2>4, <2>5, FreshKept
  <2>. QED  BY <2>2, <2>3, <2>6 DEF ThreadInv
<1>20. ThreadInv(t)'
  <2>1. CallOf(t)'  BY <1>2, <1>3, <1>12 DEF CallOf, At
  <2>2. HeldBy(t)'
    <3>1. objects'[stmt].kind = "stmt"  BY <1>1, <1>2, <1>9
    <3>2. issued'[k] = stmt /\ ~thread'[t].stale  BY <1>1, <1>2, <1>12 DEF Good
    <3>. QED
      BY <1>1, <1>3, <1>12, <1>13, <3>1, <3>2 DEF HeldBy, At, RightKind, ConnCalls
  <2>3. KnownBy(t)'  BY <1>3, <1>12 DEF KnownBy, At, Good
  <2>4. FreshOf(t)'  BY <1>12 DEF FreshOf, At
  <2>. QED  BY <2>1, <2>2, <2>3, <2>4 DEF ThreadInv
<1>21. Apart'  BY <1>11, <1>12, <1>14, ApartKept
<1>. QED  BY <1>15, <1>16, <1>18, <1>19, <1>20, <1>21 DEF IInv, NoUseOfDestroyed

LEMMA DestroyStreamStep ==
  ASSUME IInv, NEW t \in Threads, DestroyStream(t), refused' \in Nat
  PROVE  IInv'
<1> DEFINE k == thread[t].token
           stmt == thread[t].ptr
<1>1. /\ At(t, "join") /\ HeldBy(t) /\ k # 0 /\ thread[t].call = "FreeHandle(STMT)"
      /\ objects' = [objects EXCEPT ![stmt] = Destroyed(stmt)]
      /\ mutex' = NoThread /\ Returns(t) /\ UNCHANGED <<clients, built, table, misused>>
  BY DEF DestroyStream, Released, IInv, ThreadInv, CallOf, At
<1>2. /\ k \in Tokens /\ stmt \in DOMAIN objects /\ stmt = issued[k] /\ registry[k] = 0
      /\ objects[stmt].kind \in {"conn", "stmt"} /\ mutex = t
      /\ RightKind(stmt, thread[t].call)
  BY <1>1, HandleObject, ObjectsAre DEF HeldBy, At, Working, IInv, Object
<1>3. objects[stmt].kind = "stmt"
  BY <1>1, <1>2 DEF RightKind, ConnCalls
<1>4. /\ objects' \in Seq(Object) /\ DOMAIN objects' = DOMAIN objects
      /\ objects'[stmt] = Destroyed(stmt)
      /\ \A o \in DOMAIN objects : o # stmt => objects'[o] = objects[o]
  BY <1>1, <1>2, DestroyedIs, ChangeEffect DEF IInv
<1>5. \A o \in DOMAIN objects :
        /\ objects'[o].kind = objects[o].kind /\ objects'[o].parent = objects[o].parent
        /\ objects'[o].ended = objects[o].ended
        /\ o # stmt => /\ objects'[o].client = objects[o].client
                       /\ objects'[o].alive = objects[o].alive
                       /\ objects'[o].listed = objects[o].listed
  BY <1>2, <1>4, DestroyedIs DEF IInv
<1>6. ~objects'[stmt].alive /\ objects'[stmt].client = 0
  BY <1>2, <1>4, DestroyedIs DEF IInv
<1>7. thread' \in [Threads -> Thread] /\ Alone(t) /\ thread'[t] = Idle
  BY <1>1, Returning DEF IInv
<1>8. Steady /\ Issued  BY <1>1, <1>4, <1>5 DEF Steady, Issued, table
<1>9. TypeOK'  BY <1>1, <1>4, <1>7 DEF IInv, TypeOK, table
<1>10. \A u \in Threads \ {t} : ~At(u, "join")
  BY <1>2 DEF IInv, ThreadInv, HeldBy
<1>11. \A o \in DOMAIN objects : objects[o].kind = "stmt" =>
         /\ objects[o].parent \in DOMAIN objects
         /\ objects[objects[o].parent].kind = "conn" /\ objects[o].parent # stmt
  BY <1>3 DEF IInv, Heap, Family
<1>12. Heap'
  <2>1. Family'
    <3> SUFFICES ASSUME NEW o \in DOMAIN objects
                 PROVE  /\ objects[o].kind = "conn" => objects[o].parent = 0 /\ ~objects[o].ended
                        /\ objects[o].kind = "stmt" =>
                             /\ objects[o].parent \in DOMAIN objects
                             /\ objects'[objects[o].parent].kind = "conn"
                             /\ objects'[o].alive => objects'[objects[o].parent].alive
      BY <1>4, <1>5 DEF Family
    <3>1. /\ objects[o].kind = "conn" => objects[o].parent = 0 /\ ~objects[o].ended
          /\ objects[o].kind = "stmt" /\ objects[o].alive =>
               objects[objects[o].parent].alive
      BY DEF IInv, Heap, Family
    <3>2. objects'[o].alive => objects[o].alive  BY <1>5, <1>6
    <3>. QED  BY <1>5, <1>11, <3>1, <3>2
  <2>2. Given'
    <3>1. ASSUME NEW l \in Tokens, registry[l] # 0
          PROVE  registry[l] = issued[l] /\ objects'[registry[l]].alive
      <4>1. registry[l] \in DOMAIN objects /\ registry[l] = issued[l]
        BY <3>1, RegistryObject
      <4>2. objects[registry[l]].alive  BY <3>1 DEF IInv, Heap, Given
      <4>3. registry[l] # stmt
        <5>1. registry[l] = stmt => l = k
          BY <1>2, <3>1, <4>1 DEF IInv, Heap, Given
        <5>. QED  BY <1>2, <3>1, <5>1
      <4>. QED  BY <1>5, <4>1, <4>2, <4>3
    <3>2. nextToken' = nextToken /\ registry' = registry /\ issued' = issued
      BY <1>1 DEF table
    <3>. QED  BY <1>4, <3>1, <3>2 DEF IInv, Heap, Given
  <2>3. Owned'
    <3>1. Owned /\ built \in Nat  BY DEF IInv, Heap, TypeOK
    <3>2. \A o \in DOMAIN objects : objects'[o].client <= built
      <4> SUFFICES ASSUME NEW o \in DOMAIN objects  PROVE objects'[o].client <= built
        OBVIOUS
      <4>1. objects[o].client <= built  BY <3>1 DEF Owned
      <4>2. objects'[o].client \in {0, objects[o].client}  BY <1>5, <1>6
      <4>. QED  BY <3>1, <4>1, <4>2
    <3>3. \A o \in DOMAIN objects : objects'[o].kind = "conn" =>
            objects[o].kind = "conn" /\ objects'[o].client = objects[o].client
      BY <1>3, <1>5
    <3>. QED  BY <1>1, <1>4, <3>1, <3>2, <3>3 DEF Owned
  <2>4. Streams'
    <3> SUFFICES ASSUME NEW o \in DOMAIN objects, objects[o].kind = "stmt", objects'[o].alive,
                        ~objects[o].ended, objects'[o].client # 0
                 PROVE  objects'[o].client = objects'[objects[o].parent].client
      BY <1>4, <1>5 DEF Streams
    <3>1. objects[o].alive /\ objects'[o].client = objects[o].client
      BY <1>5, <1>6
    <3>2. objects'[objects[o].parent].client = objects[objects[o].parent].client
      BY <1>5, <1>11
    <3>. QED  BY <3>1, <3>2 DEF IInv, Heap, Streams
  <2>5. ListsItsStatements'
    <3>1. Lists  BY EntryByEntry DEF IInv, Heap
    <3>2. \A p : ~Joining(p)' /\ (Joining(p) <=> p = stmt)
      <4>1. \A u \in Threads : ~At(u, "join")'
        BY <1>7, <1>10 DEF Alone, At, Idle
      <4>. QED  BY <1>1, <1>10, <4>1 DEF Joining
    <3>3. ASSUME NEW c \in DOMAIN objects', objects'[c].alive
          PROVE  /\ objects'[c].listed \subseteq DOMAIN objects'
                 /\ \A s \in DOMAIN objects' :
                      s \in objects'[c].listed <=>
                        objects'[s].alive /\ objects'[s].parent = c /\ ~Joining(s)'
      <4>1. /\ c \in DOMAIN objects /\ objects[c].alive
            /\ objects'[c].listed = objects[c].listed
        BY <1>4, <1>5, <1>6, <3>3
      <4>2. \A s \in DOMAIN objects : objects'[s].alive /\ objects'[s].parent = c <=>
                                      objects[s].alive /\ objects[s].parent = c /\ s # stmt
        BY <1>5, <1>6
      <4>3. \A s \in DOMAIN objects :
              s \in objects[c].listed <=> objects[s].alive /\ objects[s].parent = c /\ s # stmt
        BY <3>1, <3>2, <4>1 DEF Lists
      <4>4. objects[c].listed \subseteq DOMAIN objects  BY <3>1, <4>1 DEF Lists
      <4>. QED  BY <1>4, <3>2, <4>1, <4>2, <4>3, <4>4
    <3>. QED  BY <3>3, EntryByEntryNext DEF Lists
  <2>. QED  BY <2>1, <2>2, <2>3, <2>4, <2>5 DEF Heap
<1>13. ASSUME NEW u \in Threads \ {t}  PROVE ThreadInv(u)'
  <2>1. thread'[u] = thread[u]  BY <1>7 DEF Alone
  <2>2. CallOf(u)' /\ HeldBy(u)'
    <3>1. thread[u].token # 0 => registry'[thread[u].token] = registry[thread[u].token]
      BY <1>1 DEF table
    <3>. QED  BY <1>8, <1>10, <2>1, <3>1, HeldKept
  <2>3. KnownBy(u)'
    <3> DEFINE d == ConnectionOf(thread[u].token)
               i == issued[thread[u].token]
    <3>1. ASSUME thread[u].token # 0
          PROVE  objects'[d].client = objects[d].client /\ objects'[i].ended = objects[i].ended
      <4>1. d \in DOMAIN objects /\ i \in DOMAIN objects /\ objects[d].kind = "conn"
        BY <3>1, HandleConnection, HandleObject
      <4>. QED  BY <1>3, <1>5, <4>1
    <3>2. \A o \in DOMAIN objects' : objects'[o].alive => o \in DOMAIN objects /\ objects[o].alive
      BY <1>4, <1>5, <1>6
    <3>. QED  BY <1>8, <2>1, <3>1, <3>2, KnownKept
  <2>4. \A o \in DOMAIN objects :
          (objects[o].alive /\ \A l \in Tokens : issued[l] # o) => objects'[o].alive
    BY <1>2, <1>5
  <2>5. ~At(t, "insert")'  BY <1>7 DEF Idle, At
  <2>6. FreshOf(u)'  BY <1>1, <1>7, <1>8, <2>4, <2>5, FreshKept DEF table
  <2>. QED  BY <2>2, <2>3, <2>6 DEF ThreadInv
<1>14. ThreadInv(t)'  BY <1>7, IdleInv
<1>15. Apart'  BY <1>7, <1>8, ApartKept DEF Idle
<1>16. NoUseOfDestroyed'  BY <1>1 DEF NoUseOfDestroyed, IInv
<1>. QED  BY <1>9, <1>12, <1>13, <1>14, <1>15, <1>16 DEF IInv

-----------------------------------------------------------------------------
(* The invariant, and what follows from it.                                *)

\* The invariant is inductive: it holds at first, and every step keeps it.
LEMMA Initially == Init => IInv
<1> SUFFICES ASSUME Init  PROVE IInv
  OBVIOUS
<1>1. DOMAIN objects = {} /\ objects \in Seq(Object)  BY DEF Init
<1>2. Idle \in Thread  BY DEF Idle, Thread, Points, Calls
<1>3. TypeOK  BY <1>1, <1>2 DEF Init, TypeOK
<1>4. Family /\ Owned /\ Streams /\ ListsItsStatements
  BY <1>1 DEF Init, Family, Owned, Streams, ListsItsStatements
<1>5. Given  BY DEF Init, Given, Tokens
<1>6. ASSUME NEW t \in Threads  PROVE thread[t] = Idle
  BY <1>6 DEF Init
<1>7. \A t \in Threads : ThreadInv(t) /\ ~Good(t)
  BY <1>6 DEF Idle, ThreadInv, CallOf, HeldBy, KnownBy, FreshOf, At, Good, Working
<1>8. Apart  BY <1>7 DEF Apart
<1>9. NoUseOfDestroyed  BY DEF Init, NoUseOfDestroyed
<1>. QED  BY <1>3, <1>4, <1>5, <1>7, <1>8, <1>9 DEF IInv, Heap

LEMMA StepKeeps ==
  ASSUME IInv, NEW t \in Threads, Step(t)
  PROVE  IInv'
<1>1. CASE ConnectRefused(t)  BY <1>1, RefusedStep
<1>2. CASE OpenSession(t)  BY <1>2, SessionStep
<1>3. CASE /\ refused' = 0
           /\ \/ Lookup(t) \/ Insert(t)
              \/ BuildConn(t) \/ BuildStmt(t)
              \/ MakeClient(t) \/ Disconnect(t)
              \/ CheckOpen(t) \/ Query(t) \/ Fetch(t)
              \/ EraseNothing(t) \/ EraseConn(t) \/ EraseStmt(t) \/ DestroyStream(t)
  <2>1. refused' \in Nat  BY <1>3
  <2>. QED
    BY <1>3, <2>1, LookupStep, InsertStep, BuildConnStep, BuildStmtStep, MakeClientStep,
       DisconnectStep, CheckOpenStep, QueryStep, FetchStep, EraseNothingStep, EraseConnStep,
       EraseStmtStep, DestroyStreamStep
<1>. QED  BY <1>1, <1>2, <1>3 DEF Step

LEMMA Stuttering ==
  ASSUME IInv, UNCHANGED vars
  PROVE  IInv'
<1>1. /\ objects' = objects /\ clients' = clients /\ built' = built
      /\ registry' = registry /\ nextToken' = nextToken /\ issued' = issued
      /\ mutex' = mutex /\ thread' = thread /\ refused' = refused /\ misused' = misused
  BY DEF vars, heap, table
<1>2. TypeOK' /\ NoUseOfDestroyed'  BY <1>1 DEF IInv, TypeOK, NoUseOfDestroyed
<1>3. Heap'
  BY <1>1 DEF IInv, Heap, Family, Given, Owned, Streams, ListsItsStatements, Alive, At
<1>4. \A t \in Threads : ThreadInv(t)'
  BY <1>1 DEF IInv, ThreadInv, CallOf, FreshOf, HeldBy, KnownBy, At, RightKind, Good
<1>5. Apart'  BY <1>1 DEF IInv, Apart, Good, Conflict, ConnectionOf
<1>. QED  BY <1>2, <1>3, <1>4, <1>5 DEF IInv

\* What the invariant says holds in every state of every run.
THEOREM Invariance == Spec => []IInv
<1>1. ASSUME IInv, [Next]_vars  PROVE IInv'
  <2>1. CASE UNCHANGED vars  BY <1>1, <2>1, Stuttering
  <2>2. CASE Next  BY <1>1, <2>2, BeginStep, StepKeeps DEF Next
  <2>. QED  BY <1>1, <2>1, <2>2
<1>. QED  BY Initially, <1>1, PTL DEF Spec

\* Every field has its type (handles.h, handle_registry.h), whatever the bounds.
THEOREM LifecycleTyping == Spec => []TypeOK
<1>1. IInv => TypeOK  BY DEF IInv
<1>. QED  BY Invariance, <1>1, PTL

(***************************************************************************)
(* No call of an application that keeps to the order of docs/usage.md works *)
(* with an object or a client that is not alive: for any number of threads, *)
(* objects and clients (handles.h, handles.cpp, handle_registry.h get).    *)
(***************************************************************************)
THEOREM NothingDestroyedIsUsed == Spec => []NoUseOfDestroyed
<1>1. IInv => NoUseOfDestroyed  BY DEF IInv
<1>. QED  BY Invariance, <1>1, PTL

(***************************************************************************)
(* A call finds the object its handle was given out for, and a call that   *)
(* begins after the handle was freed finds none (handle_registry.h).       *)
(***************************************************************************)
THEOREM FindsItsObject == Spec => []HandleFindsItsObject
<1>1. ASSUME IInv, NEW t \in Threads
      PROVE  /\ thread[t].stale => thread[t].at \in {"lookup", "erase"}
             /\ thread[t].at \in {"connect", "session", "disconnect", "check", "query",
                                  "fetch", "join"} =>
                  thread[t].ptr = issued[thread[t].token]
  <2>1. CallOf(t) /\ HeldBy(t)  BY <1>1 DEF IInv, ThreadInv
  <2>. QED  BY <2>1 DEF CallOf, HeldBy, Working, At
<1>2. IInv => HandleFindsItsObject  BY <1>1 DEF HandleFindsItsObject
<1>. QED  BY Invariance, <1>2, PTL

(***************************************************************************)
(* A connection lists its statements and no others, but for the one that   *)
(* is being destroyed (handles.h, registerStmt and unregisterStmt).        *)
(***************************************************************************)
THEOREM StatementsAreListed == Spec => []ListsItsStatements
<1>1. IInv => ListsItsStatements  BY DEF IInv, Heap
<1>. QED  BY Invariance, <1>1, PTL
=============================================================================
