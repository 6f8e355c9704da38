------------------------ MODULE QueryExecutionProofs ------------------------
(***************************************************************************)
(* The invariants of QueryExecution, and the steps of its refinement of    *)
(* RowCursor, for every number of polls and of rows.                       *)
(*                                                                         *)
(* What the client may do next depends on what the server has accepted     *)
(* from it, so the invariant ties the program counter to the server's log: *)
(* the log is never longer than two, its first entry is the explain        *)
(* request, its second the query, and an entry that has succeeded stays    *)
(* so.                                                                     *)
(***************************************************************************)
EXTENDS QueryExecution, TLAPS

\* The part of the call the client is in.
InPhase ==
  /\ pc \in {"settings", "quota", "explain", "schema", "submit"} => goal = "explain"
  /\ pc \in {"raw", "static"} => goal = "query"
  /\ pc \in {"endpoint", "session", "read", "starved", "ready", "dropped"} => goal = "fetch"
  /\ pc = "refused" => goal # "fetch"
  /\ initialized => goal = "fetch"

\* The instance in the client's hands is the last the server has accepted.
InHand ==
  /\ pc \in {"settings", "quota", "explain"} => Len(instances) = 0
  /\ goal = "explain" /\ pc \in {"wait", "poll", "task", "schema", "submit"} =>
       Len(instances) = 1 /\ instance = 1
  /\ goal # "explain" => Len(instances) = 2 /\ instance = 2

\* The server's log: the explain request, then the query, and no more.
Log ==
  /\ Len(instances) <= 2
  /\ Len(instances) >= 1 => instances[1].kind = "explain"
  /\ Len(instances) = 2 => instances[2].kind = "query" /\ Succeeded(1)

\* Past a wait, the instance waited for has succeeded.
Waited ==
  /\ pc \in {"schema", "submit"} => Succeeded(1)
  /\ pc \in {"endpoint", "session", "read", "raw", "static"} \/ initialized => Succeeded(2)

\* As long as the client may submit, its hints are those of its submissions.
HintsKept == pc # "refused" => \A i \in DOMAIN instances : instances[i].hints = hints

\* What fetchNextRow has answered: an error is an end, and nothing is fetched after it.
EndKept ==
  /\ failed => endOfStream
  /\ goal = "fetch" /\ pc \in Busy => ~endOfStream

IInv == /\ TypeOK /\ InPhase /\ InHand /\ Log /\ Waited
        /\ HintsKept /\ ExplainedAsRun /\ EndKept

-----------------------------------------------------------------------------
(* The two ways the server's log changes.                                  *)

\* A submission the server accepts is added at the end.
LEMMA AcceptedType ==
  ASSUME TypeOK, NEW kind \in {"explain", "query"}, NEW with \in SUBSET Hints,
         Accept(kind, with)
  PROVE  /\ instances' \in Seq(Instance)
         /\ Len(instances') = Len(instances) + 1
         /\ \A i \in DOMAIN instances : instances'[i] = instances[i]
         /\ instances'[Len(instances')].kind = kind
         /\ instances'[Len(instances')].hints = with
         /\ known' \in InstanceStatus
<1>1. PICK s \in {"Running", "Terminated"}, p \in BOOLEAN :
        /\ p => s = "Terminated"
        /\ instances' = Append(instances,
                          [kind |-> kind, hints |-> with, status |-> s, passed |-> p])
        /\ known' = s
  BY DEF Accept
<1>2. [kind |-> kind, hints |-> with, status |-> s, passed |-> p] \in Instance
  BY <1>1 DEF Instance, InstanceStatus
<1>. QED  BY <1>1, <1>2 DEF TypeOK, InstanceStatus

\* The server's work changes how an instance stands, never what it is, and an
\* instance that has succeeded is not worked on any more.
LEMMA ProgressType ==
  ASSUME TypeOK, NEW n \in DOMAIN instances, Progress(n)
  PROVE  /\ instances' \in Seq(Instance)
         /\ Len(instances') = Len(instances)
         /\ \A i \in DOMAIN instances :
              /\ instances'[i].kind = instances[i].kind
              /\ instances'[i].hints = instances[i].hints
              /\ Succeeded(i) => Succeeded(i)'
<1>1. PICK s \in InstanceStatus, p \in BOOLEAN :
        /\ p => s = "Terminated"
        /\ instances' = [instances EXCEPT ![n].status = s, ![n].passed = p]
  BY DEF Progress
<1>2. instances[n] \in Instance /\ instances[n].status = "Running"
  BY DEF TypeOK, Progress
<1>3. [[instances[n] EXCEPT !.status = s] EXCEPT !.passed = p] \in Instance
  BY <1>1, <1>2 DEF Instance
<1>4. instances' = [instances EXCEPT ![n] = [[instances[n] EXCEPT !.status = s] EXCEPT !.passed = p]]
  BY <1>1 DEF TypeOK
<1>5. instances' \in Seq(Instance) /\ Len(instances') = Len(instances)
  BY <1>3, <1>4 DEF TypeOK
<1>6. ASSUME NEW i \in DOMAIN instances
      PROVE  /\ instances'[i].kind = instances[i].kind
             /\ instances'[i].hints = instances[i].hints
             /\ Succeeded(i) => Succeeded(i)'
  <2>1. CASE i = n
    BY <1>2, <1>4, <2>1 DEF Succeeded, TypeOK, Instance
  <2>2. CASE i # n
    BY <1>4, <2>2 DEF Succeeded, TypeOK
  <2>. QED  BY <2>1, <2>2
<1>. QED  BY <1>5, <1>6

-----------------------------------------------------------------------------
(* Typing.                                                                 *)

LEMMA InvInit == Init => IInv
<1> SUFFICES ASSUME Init
             PROVE  IInv
  OBVIOUS
<1>1. TypeOK
  <2>1. endOfStream \in BOOLEAN /\ initialized \in BOOLEAN /\ failed \in BOOLEAN
    BY Zenon DEF Init
  <2>2. instances \in Seq(Instance) /\ delivered \in Seq(Nat) /\ polls \in 0 .. MaxPolls
    BY QueryAssumption DEF Init
  <2>. QED  BY <2>1, <2>2, Zenon DEF Init, TypeOK, Points, Busy, InstanceStatus
<1>2. Len(instances) = 0 /\ DOMAIN instances = {}
  BY DEF Init
<1>3. InPhase /\ InHand /\ Log /\ Waited /\ EndKept
  BY <1>2 DEF Init, InPhase, InHand, Log, Waited, EndKept
<1>4. HintsKept /\ ExplainedAsRun
  BY <1>2 DEF HintsKept, ExplainedAsRun
<1>. QED  BY <1>1, <1>3, <1>4 DEF IInv

LEMMA TypeStep == TypeOK /\ [Next]_vars => TypeOK'
<1> SUFFICES ASSUME TypeOK, [Next]_vars
             PROVE  TypeOK'
  OBVIOUS
<1>a. hints \cup {"json format"} \in SUBSET Hints /\ hints \in SUBSET Hints
  BY DEF TypeOK, Hints
<1>b. ASSUME Accept("explain", hints \cup {"json format"}) \/ Accept("query", hints)
      PROVE  /\ instances' \in Seq(Instance)
             /\ Len(instances') = Len(instances) + 1
             /\ known' \in InstanceStatus
  BY <1>a, <1>b, AcceptedType
<1>c. ASSUME Explain \/ ExplainLost \/ SubmitQuery \/ QueryLost
      PROVE  /\ instances' \in Seq(Instance)
             /\ Len(instances') = Len(instances) + 1
             /\ known' \in InstanceStatus
  BY <1>b, <1>c, Zenon DEF Explain, ExplainLost, SubmitQuery, QueryLost, LoseAnswer
<1>d. MaxPolls \in Nat \ {0} /\ NoInstance \notin Nat
  BY QueryAssumption
<1> USE <1>d DEF TypeOK, Points, Busy, requestVars, streamVars
<1>1. ASSUME NEW i \in DOMAIN instances, Progress(i)
      PROVE  TypeOK'
  BY <1>1, ProgressType DEF Progress
<1>2. CASE ParseSettings \/ ChooseQuota
  BY <1>2 DEF ParseSettings, ChooseQuota, Hints
<1>3. CASE Explain
  <2>1. hints' \subseteq Hints
    BY <1>3, <1>a, Zenon DEF Explain, SharedHints
  <2>2. UNCHANGED <<config, goal, polls, endOfStream, initialized, delivered, failed>>
    BY <1>3 DEF Explain
  <2>3. instance' = Len(instances') /\ pc' = "wait"
    BY <1>3, Zenon DEF Explain
  <2>. QED  BY <1>3, <1>c, <2>1, <2>2, <2>3
<1>4. CASE ExplainLost
  <2>1. UNCHANGED <<config, goal, hints, instance, polls>>
    BY <1>4 DEF ExplainLost, LoseAnswer
  <2>2. UNCHANGED <<endOfStream, initialized, delivered, failed>>
    BY <1>4 DEF ExplainLost, LoseAnswer
  <2>3. pc' = "refused"
    BY <1>4, Zenon DEF ExplainLost, LoseAnswer, AfterLostAnswer
  <2>. QED  BY <1>4, <1>c, <2>1, <2>2, <2>3
<1>5. CASE SubmitQuery
  <2>1. UNCHANGED <<endOfStream, initialized, delivered, failed>>
    BY <1>5 DEF SubmitQuery
  <2>. QED  BY <1>5, <1>c, <2>1 DEF SubmitQuery
<1>6. CASE QueryLost
  BY <1>6, <1>c DEF QueryLost, LoseAnswer, AfterLostAnswer
<1>7. CASE Fail
  BY <1>7 DEF Fail, EndedByError
<1>8. CASE BeginWait \/ PollAgain \/ PollTerminated \/ TaskPassed
  BY <1>8 DEF BeginWait, PollAgain, PollTerminated, TaskPassed, PollsLeft, PollCounted,
              InstanceStatus
<1>9. CASE ReadSchema \/ ReadRawResult \/ BeginFetch \/ FindEndpoint \/ DropStream
  BY <1>9 DEF ReadSchema, ReadRawResult, BeginFetch, FindEndpoint, DropStream
<1>10. CASE OpenSession \/ ReadRow \/ ReadEnd \/ ReadStarves
  <2>1. endOfStream' \in BOOLEAN /\ initialized' \in BOOLEAN /\ failed' \in BOOLEAN
    BY <1>10, Zenon DEF OpenSession, ReadRow, ReadEnd, ReadStarves
  <2>2. delivered' \in Seq(Nat)
    <3>1. delivered' = delivered \/ delivered' = Append(delivered, Len(delivered))
      BY <1>10, Zenon DEF OpenSession, ReadRow, ReadEnd, ReadStarves
    <3>2. delivered \in Seq(Nat) /\ Len(delivered) \in Nat
      OBVIOUS
    <3>. QED  BY <3>1, <3>2
  <2>3. UNCHANGED <<config, instances, goal, hints, instance, known, polls>>
    BY <1>10 DEF OpenSession, ReadRow, ReadEnd, ReadStarves
  <2>4. pc' \in {"read", "ready", "starved"}
    BY <1>10, Zenon DEF OpenSession, ReadRow, ReadEnd, ReadStarves
  <2>. QED  BY <2>1, <2>2, <2>3, <2>4
<1>11. CASE Done \/ UNCHANGED vars
  <2>1. UNCHANGED vars
    BY <1>11 DEF Done
  <2>. QED  BY <2>1 DEF vars
<1>. QED
  BY <1>1, <1>2, <1>3, <1>4, <1>5, <1>6, <1>7, <1>8, <1>9, <1>10, <1>11
  DEF Next, ClientStep, ExecuteStep, WaitStep, FetchStep, RequestFails, PollFailed,
      GiveUp, TaskFailed

-----------------------------------------------------------------------------
(* The steps of the client that leave the server's log alone.              *)

Quiet ==
  \/ ParseSettings \/ ChooseQuota \/ ReadSchema \/ ReadRawResult
  \/ BeginWait \/ PollAgain \/ PollTerminated \/ (pc \in Busy /\ Fail) \/ TaskPassed
  \/ FindEndpoint \/ OpenSession \/ ReadRow \/ ReadEnd \/ ReadStarves \/ BeginFetch \/ DropStream

LEMMA NextCases ==
  ASSUME [Next]_vars
  PROVE  \/ Explain \/ ExplainLost \/ SubmitQuery \/ QueryLost
         \/ \E i \in DOMAIN instances : Progress(i)
         \/ Quiet
         \/ UNCHANGED vars
BY DEF Next, ClientStep, ExecuteStep, WaitStep, FetchStep, RequestFails, PollFailed, GiveUp,
       TaskFailed, Done, Quiet, Busy

LEMMA QuietLog == Quiet => UNCHANGED <<config, instances, instance>>
BY DEF Quiet, ParseSettings, ChooseQuota, ReadSchema, ReadRawResult, BeginWait, PollAgain,
       PollTerminated, Fail, TaskPassed, FindEndpoint, OpenSession, ReadRow, ReadEnd, ReadStarves,
       BeginFetch, DropStream, requestVars

\* A submission: the log grows by the request, the rest of it stands.
LEMMA SubmissionLog ==
  ASSUME IInv, Explain \/ ExplainLost \/ SubmitQuery \/ QueryLost
  PROVE  /\ Len(instances') = Len(instances) + 1
         /\ DOMAIN instances' = 1 .. Len(instances) + 1
         /\ \A i \in DOMAIN instances :
              instances'[i] = instances[i] /\ (Succeeded(i) => Succeeded(i)')
         /\ LET last == instances'[Len(instances) + 1]
            IN  /\ Explain \/ ExplainLost => last.kind = "explain" /\ pc = "explain"
                                           /\ last.hints = hints \cup {"json format"}
                /\ SubmitQuery \/ QueryLost => last.kind = "query" /\ pc = "submit"
                                             /\ last.hints = hints
<1>1. hints \cup {"json format"} \in SUBSET Hints /\ hints \in SUBSET Hints
  BY DEF IInv, TypeOK, Hints
<1>2. CASE Explain \/ ExplainLost
  <2>1. pc = "explain" /\ Accept("explain", hints \cup {"json format"})
    BY <1>2, Zenon DEF Explain, ExplainLost, LoseAnswer
  <2>2. pc # "submit"
    BY <2>1
  <2>3. ~SubmitQuery /\ ~QueryLost
    BY <2>2, Zenon DEF SubmitQuery, QueryLost
  <2>. DEFINE with == hints \cup {"json format"}
  <2>4. with \in SUBSET Hints /\ Accept("explain", with)
    BY <1>1, <2>1
  <2>. HIDE DEF with
  <2>5. /\ Len(instances') = Len(instances) + 1
        /\ instances' \in Seq(Instance)
        /\ \A i \in DOMAIN instances : instances'[i] = instances[i]
        /\ instances'[Len(instances')].kind = "explain"
        /\ instances'[Len(instances')].hints = with
    BY <2>4, AcceptedType DEF IInv
  <2>6. /\ DOMAIN instances' = 1 .. Len(instances) + 1
        /\ \A i \in DOMAIN instances :
             instances'[i] = instances[i] /\ (Succeeded(i) => Succeeded(i)')
    BY <2>5 DEF Succeeded, IInv, TypeOK
  <2>7. with = hints \cup {"json format"}
    BY DEF with
  <2>. QED  BY <2>1, <2>3, <2>5, <2>6, <2>7, Zenon
<1>3. CASE SubmitQuery \/ QueryLost
  <2>1. pc = "submit" /\ Accept("query", hints)
    BY <1>3, Zenon DEF SubmitQuery, QueryLost, LoseAnswer
  <2>2. pc # "explain"
    BY <2>1
  <2>3. ~Explain /\ ~ExplainLost
    BY <2>2, Zenon DEF Explain, ExplainLost
  <2>5. /\ Len(instances') = Len(instances) + 1
        /\ instances' \in Seq(Instance)
        /\ \A i \in DOMAIN instances : instances'[i] = instances[i]
        /\ instances'[Len(instances')].kind = "query"
        /\ instances'[Len(instances')].hints = hints
    BY <1>1, <2>1, AcceptedType DEF IInv
  <2>. QED  BY <2>1, <2>3, <2>5 DEF Succeeded, IInv, TypeOK
<1>. QED  BY <1>2, <1>3

-----------------------------------------------------------------------------
(* The invariant is kept, one lemma for each of its parts.                 *)

LEMMA PhaseStep == IInv /\ [Next]_vars => InPhase'
<1> SUFFICES ASSUME IInv, [Next]_vars
             PROVE  InPhase'
  OBVIOUS
<1> USE DEF IInv, InPhase
<1>1. CASE Explain \/ ExplainLost \/ SubmitQuery \/ QueryLost
  <2>1. initialized' = initialized
    BY <1>1 DEF Explain, ExplainLost, SubmitQuery, QueryLost, LoseAnswer, streamVars
  <2>2. pc \in {"explain", "submit"}
    BY <1>1 DEF Explain, ExplainLost, SubmitQuery, QueryLost
  <2>3. \/ pc' \in {"refused", "wait"} /\ goal' = goal
        \/ pc' = "ready" /\ goal' = "fetch"
        \/ pc' = "wait" /\ goal' = "query"
    BY <1>1 DEF Explain, ExplainLost, SubmitQuery, QueryLost, LoseAnswer, AfterLostAnswer
  <2>. QED  BY <2>1, <2>2, <2>3
<1>2. ASSUME NEW i \in DOMAIN instances, Progress(i)
      PROVE  InPhase'
  BY <1>2 DEF Progress, streamVars
<1>3. CASE ParseSettings \/ ChooseQuota \/ ReadSchema \/ ReadRawResult
  <2>1. initialized' = initialized
    BY <1>3 DEF ParseSettings, ChooseQuota, ReadSchema, ReadRawResult, streamVars
  <2>2. \/ pc = "raw" /\ pc' = "static" /\ goal' = goal
        \/ pc \in {"settings", "quota", "schema"} /\ goal' = goal
           /\ pc' \in {"quota", "explain", "submit"}
    BY <1>3 DEF ParseSettings, ChooseQuota, ReadSchema, ReadRawResult
  <2>. QED  BY <2>1, <2>2
<1>4. CASE BeginWait \/ PollAgain \/ PollTerminated \/ TaskPassed
  BY <1>4 DEF BeginWait, PollAgain, PollTerminated, TaskPassed, streamVars, TypeOK
<1>5. CASE Fail
  BY <1>5 DEF Fail
<1>6. CASE FindEndpoint \/ OpenSession \/ ReadRow \/ ReadEnd \/ ReadStarves \/ BeginFetch \/ DropStream
  BY <1>6 DEF FindEndpoint, OpenSession, ReadRow, ReadEnd, ReadStarves, BeginFetch, DropStream, streamVars
<1>7. CASE UNCHANGED vars
  BY <1>7 DEF vars, streamVars
<1>. QED  BY <1>1, <1>2, <1>3, <1>4, <1>5, <1>6, <1>7, NextCases DEF Quiet

LEMMA LogStep == IInv /\ [Next]_vars => (InHand /\ Log)'
<1> SUFFICES ASSUME IInv, [Next]_vars
             PROVE  (InHand /\ Log)'
  OBVIOUS
<1>0. Len(instances) \in Nat /\ DOMAIN instances = 1 .. Len(instances)
  BY DEF IInv, TypeOK
<1>1. CASE Explain \/ ExplainLost
  <2>0. /\ Len(instances') = Len(instances) + 1
        /\ instances'[Len(instances) + 1].kind = "explain"
        /\ pc = "explain"
    BY <1>1, SubmissionLog, Zenon
  <2>1. Len(instances) = 0 /\ goal' = goal /\ goal = "explain"
    BY <1>1, <2>0 DEF IInv, InHand, InPhase, Explain, ExplainLost, LoseAnswer
  <2>2. Log'
    BY <1>0, <1>1, <2>1, <2>0 DEF Log
  <2>3. \/ pc' = "refused"
        \/ pc' = "wait" /\ instance' = Len(instances')
    BY <1>1, Zenon DEF Explain, ExplainLost, LoseAnswer, AfterLostAnswer
  <2>4. InHand'
    BY <1>0, <2>0, <2>1, <2>3 DEF InHand
  <2>. QED  BY <2>2, <2>4
<1>2. CASE SubmitQuery \/ QueryLost
  <2>0. /\ Len(instances') = Len(instances) + 1
        /\ \A i \in DOMAIN instances : instances'[i] = instances[i]
        /\ instances'[Len(instances) + 1].kind = "query"
        /\ pc = "submit"
    BY <1>2, SubmissionLog, Zenon
  <2>1. Len(instances) = 1 /\ goal = "explain" /\ Succeeded(1)
    BY <2>0 DEF IInv, InHand, InPhase, Waited
  <2>2. Log'
    BY <1>0, <2>0, <2>1 DEF Log, IInv, Succeeded
  <2>3. \/ pc' = "refused" /\ goal' = goal
        \/ /\ pc' \in {"ready", "wait"}
           /\ goal' # "explain" /\ instance' = Len(instances')
    BY <1>2 DEF SubmitQuery, QueryLost, LoseAnswer, AfterLostAnswer
  <2>4. InHand'
    BY <1>0, <2>0, <2>1, <2>3 DEF InHand
  <2>. QED  BY <2>2, <2>4
<1>3. ASSUME NEW i \in DOMAIN instances, Progress(i)
      PROVE  (InHand /\ Log)'
  <2>1. UNCHANGED <<pc, goal, instance>>
    BY <1>3 DEF Progress, requestVars
  <2>2. Len(instances') = Len(instances)
    BY <1>3, ProgressType, Zenon DEF IInv
  <2>a. \A j \in DOMAIN instances : instances'[j].kind = instances[j].kind
    BY <1>3, ProgressType, Zenon DEF IInv
  <2>b. \A j \in DOMAIN instances : Succeeded(j) => Succeeded(j)'
    BY <1>3, ProgressType, Zenon DEF IInv
  <2>3. InHand'
    BY <2>1, <2>2 DEF IInv, InHand
  <2>4. Log'
    <3>1. Len(instances) >= 1 => instances'[1].kind = "explain"
      BY <1>0, <2>a DEF IInv, Log
    <3>2. ASSUME Len(instances) = 2
          PROVE  instances'[2].kind = "query" /\ Succeeded(1)'
      <4>1. 1 \in DOMAIN instances /\ 2 \in DOMAIN instances
        BY <1>0, <3>2
      <4>2. instances[2].kind = "query" /\ Succeeded(1)
        BY <3>2 DEF IInv, Log
      <4>. QED  BY <2>a, <2>b, <4>1, <4>2, Zenon
    <3>3. Len(instances') <= 2
      BY <2>2 DEF IInv, Log
    <3>. QED  BY <2>2, <3>1, <3>2, <3>3 DEF Log, Succeeded
  <2>. QED  BY <2>3, <2>4
<1>4. CASE Quiet \/ UNCHANGED vars
  <2>1. UNCHANGED <<instances, instance>>
    BY <1>4, QuietLog DEF vars, requestVars
  <2>2. Log'
    BY <2>1 DEF IInv, Log, Succeeded
  <2>3. \/ goal = "explain" /\ pc \in {"settings", "quota"}
        \/ goal' = goal /\ pc' \notin {"settings", "quota", "explain"}
           /\ (pc' # "refused" => pc \notin {"settings", "quota", "explain", "refused"})
        \/ UNCHANGED <<pc, goal>>
    <3>1. CASE UNCHANGED vars
      BY <3>1 DEF vars
    <3>2. CASE Fail
      <4>1. goal' = goal /\ pc' \in {"ready", "refused"}
        BY <3>2 DEF Fail
      <4>2. pc' # "refused" => goal = "fetch"
        BY <3>2 DEF Fail
      <4>. QED  BY <4>1, <4>2 DEF IInv, InPhase
    <3>3. CASE ParseSettings \/ ChooseQuota \/ ReadSchema \/ ReadRawResult
      BY <3>3 DEF ParseSettings, ChooseQuota, ReadSchema, ReadRawResult, IInv, InPhase
    <3>4. CASE BeginWait \/ PollAgain \/ PollTerminated \/ TaskPassed
      BY <3>4 DEF BeginWait, PollAgain, PollTerminated, TaskPassed, IInv, TypeOK
    <3>5. CASE FindEndpoint \/ OpenSession \/ ReadRow \/ ReadEnd \/ ReadStarves \/ BeginFetch \/ DropStream
      BY <3>5 DEF FindEndpoint, OpenSession, ReadRow, ReadEnd, ReadStarves, BeginFetch, DropStream
    <3>. QED  BY <1>4, <3>1, <3>2, <3>3, <3>4, <3>5 DEF Quiet
  <2>4. CASE goal = "explain" /\ pc \in {"settings", "quota"}
    <3>1. pc' \in {"settings", "quota", "explain", "refused"} /\ goal' = goal
      BY <1>4, <2>4 DEF Quiet, ParseSettings, ChooseQuota, ReadSchema, ReadRawResult, vars,
         BeginWait, PollAgain, PollTerminated, TaskPassed, Fail, FindEndpoint, OpenSession,
         ReadRow, ReadEnd, ReadStarves, BeginFetch, DropStream
    <3>. QED  BY <2>1, <2>2, <2>4, <3>1 DEF IInv, InHand
  <2>5. CASE ~(goal = "explain" /\ pc \in {"settings", "quota"})
    <3>1. pc \in Points
      BY DEF IInv, TypeOK
    <3>2. goal = "explain" /\ pc \notin {"settings", "quota", "explain", "refused"} =>
            pc \in {"wait", "poll", "task", "schema", "submit"}
      BY <3>1 DEF Points, Busy, IInv, InPhase
    <3>. QED  BY <2>1, <2>2, <2>3, <2>5, <3>2 DEF IInv, InHand
  <2>. QED  BY <2>4, <2>5
<1>. QED  BY <1>1, <1>2, <1>3, <1>4, NextCases

LEMMA WaitedStep == IInv /\ [Next]_vars => Waited'
<1> SUFFICES ASSUME IInv, [Next]_vars
             PROVE  Waited'
  OBVIOUS
<1>0. Len(instances) \in Nat /\ DOMAIN instances = 1 .. Len(instances)
  BY DEF IInv, TypeOK
<1>1. CASE Explain \/ ExplainLost \/ SubmitQuery \/ QueryLost
  <2>1. goal = "explain" /\ initialized' = initialized
    BY <1>1 DEF Explain, ExplainLost, SubmitQuery, QueryLost, LoseAnswer, streamVars, IInv,
                InPhase
  <2>2. pc' \in {"refused", "wait", "ready"}
    BY <1>1 DEF Explain, ExplainLost, SubmitQuery, QueryLost, LoseAnswer, AfterLostAnswer
  <2>. QED  BY <2>1, <2>2 DEF Waited, IInv, InPhase
<1>2. ASSUME NEW n \in DOMAIN instances, Progress(n)
      PROVE  Waited'
  <2>1. UNCHANGED <<pc, goal, initialized>>
    BY <1>2 DEF Progress, streamVars
  <2>2. \A j \in DOMAIN instances : Succeeded(j) => Succeeded(j)'
    BY <1>2, ProgressType, Zenon DEF IInv
  <2>3. pc \in {"schema", "submit"} => 1 \in DOMAIN instances
    BY <1>0 DEF IInv, InHand, InPhase
  <2>4. pc \in {"endpoint", "session", "read", "raw", "static"} \/ initialized =>
          2 \in DOMAIN instances
    BY <1>0 DEF IInv, InHand, InPhase
  <2>. QED  BY <2>1, <2>2, <2>3, <2>4 DEF IInv, Waited, Succeeded
<1>3. CASE TaskPassed
  <2>1. instances' = instances /\ initialized' = initialized
    BY <1>3 DEF TaskPassed, streamVars
  <2>2. instance = (IF goal = "explain" THEN 1 ELSE 2)
    BY <1>3 DEF TaskPassed, IInv, InHand
  <2>3. instances[instance].status = "Terminated" /\ instances[instance].passed
    <3>1. instances[instance] \in Instance
      BY <1>0, <1>3, <2>2 DEF TaskPassed, IInv, InHand, TypeOK
    <3>. QED  BY <3>1, <1>3 DEF TaskPassed, TasksPassed, Instance
  <2>4. pc' = (IF goal = "explain" THEN "schema" ELSE IF goal = "query" THEN "raw"
               ELSE "endpoint")
    BY <1>3 DEF TaskPassed, IInv, TypeOK
  <2>5. CASE goal = "explain"
    BY <2>1, <2>2, <2>3, <2>4, <2>5 DEF IInv, InPhase, Waited, Succeeded
  <2>6. CASE goal # "explain"
    BY <2>1, <2>2, <2>3, <2>4, <2>6 DEF IInv, TypeOK, Waited, Succeeded
  <2>. QED  BY <2>5, <2>6
<1>4. CASE (Quiet /\ ~TaskPassed) \/ UNCHANGED vars
  <2>1. UNCHANGED instances
    BY <1>4, QuietLog DEF vars
  <2>2. initialized' => initialized \/ pc = "session"
    BY <1>4 DEF Quiet, ParseSettings, ChooseQuota, ReadSchema, ReadRawResult, BeginWait,
       PollAgain, PollTerminated, Fail, FindEndpoint, OpenSession, ReadRow, ReadEnd, ReadStarves,
       BeginFetch, DropStream, vars, streamVars
  <2>3. pc' \in {"schema", "submit"} => pc \in {"schema", "submit"}
    BY <1>4 DEF Quiet, ParseSettings, ChooseQuota, ReadSchema, ReadRawResult, BeginWait,
       PollAgain, PollTerminated, Fail, FindEndpoint, OpenSession, ReadRow, ReadEnd, ReadStarves,
       BeginFetch, DropStream, vars
  <2>4. pc' \in {"endpoint", "session", "read", "raw", "static"} =>
          pc \in {"endpoint", "session", "read", "raw", "static"} \/ initialized
    BY <1>4 DEF Quiet, ParseSettings, ChooseQuota, ReadSchema, ReadRawResult, BeginWait,
       PollAgain, PollTerminated, Fail, FindEndpoint, OpenSession, ReadRow, ReadEnd, ReadStarves,
       BeginFetch, DropStream, vars
  <2>. QED  BY <2>1, <2>2, <2>3, <2>4 DEF IInv, Waited, Succeeded
<1>. QED  BY <1>1, <1>2, <1>3, <1>4, NextCases

LEMMA HintsStep == IInv /\ [Next]_vars => (HintsKept /\ ExplainedAsRun)'
<1> SUFFICES ASSUME IInv, [Next]_vars
             PROVE  (HintsKept /\ ExplainedAsRun)'
  OBVIOUS
<1>0. Len(instances) \in Nat /\ DOMAIN instances = 1 .. Len(instances)
  BY DEF IInv, TypeOK
<1>1. CASE Explain \/ ExplainLost
  <2>. DEFINE with == hints \cup {"json format"}
  <2>1. /\ DOMAIN instances' = 1 .. Len(instances) + 1
        /\ instances'[Len(instances) + 1].hints = with
        /\ pc = "explain"
    BY <1>1, SubmissionLog, Zenon
  <2>2. (pc' = "refused" \/ hints' = with)
    BY <1>1, Zenon DEF Explain, ExplainLost, LoseAnswer, AfterLostAnswer, SharedHints
  <2>. HIDE DEF with
  <2>3. Len(instances) = 0
    BY <2>1 DEF IInv, InHand
  <2>. QED  BY <2>1, <2>2, <2>3 DEF HintsKept, ExplainedAsRun
<1>2. CASE SubmitQuery \/ QueryLost
  <2>1. /\ DOMAIN instances' = 1 .. Len(instances) + 1
        /\ \A i \in DOMAIN instances : instances'[i] = instances[i]
        /\ instances'[Len(instances) + 1].hints = hints
        /\ pc = "submit"
    BY <1>2, SubmissionLog, Zenon
  <2>2. hints' = hints
    BY <1>2 DEF SubmitQuery, QueryLost, LoseAnswer
  <2>3. \A i \in DOMAIN instances' : instances'[i].hints = hints
    BY <1>0, <2>1 DEF IInv, HintsKept
  <2>. QED  BY <2>2, <2>3 DEF HintsKept, ExplainedAsRun
<1>3. ASSUME NEW n \in DOMAIN instances, Progress(n)
      PROVE  (HintsKept /\ ExplainedAsRun)'
  <2>1. UNCHANGED <<pc, hints>>
    BY <1>3 DEF Progress, requestVars
  <2>2. /\ \A j \in DOMAIN instances : instances'[j].hints = instances[j].hints
        /\ DOMAIN instances' = DOMAIN instances
    BY <1>3, ProgressType DEF IInv, TypeOK
  <2>. QED  BY <2>1, <2>2 DEF IInv, HintsKept, ExplainedAsRun
<1>4. CASE Quiet \/ UNCHANGED vars
  <2>1. UNCHANGED instances
    BY <1>4, QuietLog DEF vars
  <2>2. ExplainedAsRun'
    BY <2>1 DEF IInv, ExplainedAsRun
  <2>3. CASE ParseSettings \/ ChooseQuota
    <3>1. Len(instances) = 0
      BY <2>3 DEF ParseSettings, ChooseQuota, IInv, InHand
    <3>. QED  BY <1>0, <2>1, <2>2, <3>1 DEF HintsKept
  <2>4. CASE ~(ParseSettings \/ ChooseQuota)
    <3>1. hints' = hints
      BY <1>4, <2>4 DEF Quiet, ReadSchema, ReadRawResult, BeginWait, PollAgain,
         PollTerminated, Fail, TaskPassed, FindEndpoint, OpenSession, ReadRow, ReadEnd, ReadStarves,
         BeginFetch, DropStream, vars, requestVars
    <3>2. pc' # "refused" => pc # "refused"
      BY <1>4, <2>4 DEF Quiet, ReadSchema, ReadRawResult, BeginWait, PollAgain,
         PollTerminated, Fail, TaskPassed, FindEndpoint, OpenSession, ReadRow, ReadEnd, ReadStarves,
         BeginFetch, DropStream, vars, IInv, InPhase
    <3>. QED  BY <2>1, <2>2, <3>1, <3>2 DEF IInv, HintsKept
  <2>. QED  BY <2>3, <2>4
<1>. QED  BY <1>1, <1>2, <1>3, <1>4, NextCases

LEMMA EndStep == IInv /\ [Next]_vars => EndKept'
<1> SUFFICES ASSUME IInv, [Next]_vars
             PROVE  EndKept'
  OBVIOUS
<1>1. CASE Fail
  <2>1. \/ failed' = TRUE /\ endOfStream' = TRUE /\ pc' = "ready"
        \/ failed' = failed /\ endOfStream' = endOfStream /\ pc' = "refused"
    BY <1>1, Zenon DEF Fail, EndedByError
  <2>2. pc' \notin Busy
    BY <2>1 DEF Busy
  <2>3. failed => endOfStream
    BY DEF IInv, EndKept
  <2>4. failed' => endOfStream'
    <3>1. CASE endOfStream' = TRUE
      BY <3>1, Zenon
    <3>2. CASE failed' = failed /\ endOfStream' = endOfStream
      BY <2>3, <3>2, Zenon
    <3>. QED  BY <2>1, <3>1, <3>2, Zenon
  <2>. QED  BY <2>2, <2>4, Zenon DEF EndKept
<1>2. CASE ReadEnd
  <2>1. endOfStream' = TRUE /\ pc' = "ready"
    BY <1>2, Zenon DEF ReadEnd
  <2>. QED  BY <2>1, Zenon DEF EndKept, Busy
<1>3. CASE Explain \/ ExplainLost \/ SubmitQuery \/ QueryLost
  <2>1. UNCHANGED <<failed, endOfStream>> /\ goal = "explain"
    BY <1>3 DEF Explain, ExplainLost, SubmitQuery, QueryLost, LoseAnswer, streamVars, IInv,
                InPhase
  <2>2. goal' = "fetch" => pc' = "ready"
    BY <1>3, <2>1 DEF Explain, ExplainLost, SubmitQuery, QueryLost, LoseAnswer
  <2>. QED  BY <2>1, <2>2 DEF IInv, EndKept, Busy
<1>4. CASE (Quiet /\ ~Fail /\ ~ReadEnd) \/ UNCHANGED vars
  <2>1. UNCHANGED <<failed, endOfStream, goal>>
    BY <1>4 DEF Quiet, ParseSettings, ChooseQuota, ReadSchema, ReadRawResult, BeginWait,
       PollAgain, PollTerminated, TaskPassed, FindEndpoint, OpenSession, ReadRow, ReadStarves,
       BeginFetch, DropStream, vars, streamVars
  <2>2. pc' \in Busy => pc \in Busy \/ ~endOfStream
    BY <1>4 DEF Quiet, ParseSettings, ChooseQuota, ReadSchema, ReadRawResult, BeginWait,
       PollAgain, PollTerminated, TaskPassed, FindEndpoint, OpenSession, ReadRow, ReadStarves,
       BeginFetch, DropStream, vars, Busy
  <2>. QED  BY <2>1, <2>2 DEF IInv, EndKept
<1>5. ASSUME NEW n \in DOMAIN instances, Progress(n)
      PROVE  EndKept'
  BY <1>5 DEF Progress, streamVars, IInv, EndKept
<1>. QED  BY <1>1, <1>2, <1>3, <1>4, <1>5, NextCases

LEMMA InvStep == IInv /\ [Next]_vars => IInv'
BY TypeStep, PhaseStep, LogStep, WaitedStep, HintsStep, EndStep DEF IInv

THEOREM Invariance == Spec => []IInv
BY InvInit, InvStep, PTL DEF Spec

-----------------------------------------------------------------------------
(* The properties.                                                         *)

\* Type correctness (QueryExecution, TypeOK).
THEOREM QueryTyping == Spec => []TypeOK
<1>1. IInv => TypeOK
  BY DEF IInv
<1>. QED  BY <1>1, Invariance, PTL

\* A download session is opened, and a raw result handed out, only for the
\* query itself and after it has succeeded (QueryExecution, ResultOnlyOfSuccess).
THEOREM ResultsAreOfSuccess == Spec => []ResultOnlyOfSuccess
<1>1. IInv => ResultOnlyOfSuccess
  <2> SUFFICES ASSUME IInv, pc \in {"endpoint", "session", "read", "static"} \/ initialized
               PROVE  /\ instance # NoInstance
                      /\ instances[instance].kind = "query"
                      /\ Succeeded(instance)
    BY DEF ResultOnlyOfSuccess
  <2>1. goal # "explain"
    BY DEF IInv, InPhase
  <2>2. instance = 2 /\ Len(instances) = 2
    BY <2>1 DEF IInv, InHand
  <2>. QED  BY <2>2, QueryAssumption DEF IInv, Log, Waited
<1>. QED  BY <1>1, Invariance, PTL

\* The server runs the query at most once, after it has explained it
\* (QueryExecution, RunsOnce).
THEOREM QueryRunsOnce == Spec => []RunsOnce
<1>1. IInv => RunsOnce
  <2> SUFFICES ASSUME IInv, NEW i \in DOMAIN instances, instances[i].kind = "query"
               PROVE  /\ \A j \in DOMAIN instances : instances[j].kind = "query" => j = i
                      /\ \E k \in DOMAIN instances :
                            instances[k].kind = "explain" /\ Succeeded(k)
    BY DEF RunsOnce
  <2>a. Len(instances) \in Nat /\ DOMAIN instances = 1 .. Len(instances)
    BY DEF IInv, TypeOK
  <2>b. Len(instances) <= 2
    BY DEF IInv, Log
  <2>1. DOMAIN instances = 1 .. Len(instances) /\ Len(instances) \in 0 .. 2
    BY <2>a, <2>b
  <2>2. 1 \in DOMAIN instances /\ instances[1].kind = "explain"
    BY <2>1 DEF IInv, Log
  <2>3. i = 2 /\ Len(instances) = 2
    BY <2>1, <2>2
  <2>. QED  BY <2>1, <2>2, <2>3 DEF IInv, Log
<1>. QED  BY <1>1, Invariance, PTL

\* The query runs with the settings it was explained with (QueryExecution,
\* ExplainedAsRun).
THEOREM QueryExplainedAsRun == Spec => []ExplainedAsRun
<1>1. IInv => ExplainedAsRun
  BY DEF IInv
<1>. QED  BY <1>1, Invariance, PTL

-----------------------------------------------------------------------------
(* The stream of a query with rows is a row cursor.                        *)

\* What a session's count is taken for is a number of rows.
LEMMA CountIsNat ==
  ASSUME config \in Config
  PROVE  recordCount \in Nat
<1>1. ASSUME NEW n \in Nat
      PROVE  AsCount(n) \in Nat
  <2>. DEFINE low == n % IntRange
  <2>1. low \in 0 .. IntRange - 1
    BY QueryAssumption
  <2>. HIDE DEF low
  <2>2. CountRange - IntRange + low \in Nat
    BY <2>1, QueryAssumption
  <2>3. AsCount(n) = IF 2 * low < IntRange THEN low ELSE CountRange - IntRange + low
    BY DEF AsCount, low
  <2>. QED  BY <2>1, <2>2, <2>3, QueryAssumption
<1>2. config.rows \in Nat
  BY QueryAssumption DEF Config
<1>. QED  BY <1>1, <1>2 DEF recordCount

LEMMA StreamStep == IInv /\ [Next]_vars => [Cursor!CursorNext]_(Cursor!cursorVars)
<1> SUFFICES ASSUME IInv, [Next]_vars
             PROVE  Cursor!CursorNext \/ UNCHANGED Cursor!cursorVars
  OBVIOUS
<1>0. recordCount' = recordCount
  <2>1. config' = config
    BY DEF Next, ClientStep, ExecuteStep, WaitStep, FetchStep, RequestFails, PollFailed,
       GiveUp, TaskFailed, Done, ParseSettings, ChooseQuota, Explain, ExplainLost,
       SubmitQuery, QueryLost, LoseAnswer, ReadSchema, ReadRawResult, BeginWait, PollAgain,
       PollTerminated, Fail, TaskPassed, FindEndpoint, OpenSession, ReadRow, ReadEnd,
       ReadStarves, BeginFetch, DropStream, Progress, vars
  <2>. QED  BY <2>1 DEF recordCount
<1> USE <1>0 DEF CursorStatus
<1>1. CASE BeginFetch
  <2>1. ~failed /\ goal = "fetch"
    BY <1>1 DEF BeginFetch, IInv, InPhase, EndKept
  <2>2. Cursor!Request
    BY <1>1, <2>1 DEF BeginFetch, streamVars, Cursor!Request, Busy
  <2>. QED  BY <2>2 DEF Cursor!CursorNext
<1>2. CASE ReadRow
  <2>1. Cursor!ServeRow
    BY <1>2 DEF ReadRow, IInv, InPhase, Cursor!ServeRow, Busy
  <2>. QED  BY <2>1 DEF Cursor!CursorNext
<1>3. CASE ReadEnd
  <2>1. ~failed /\ goal = "fetch"
    BY <1>3 DEF ReadEnd, IInv, InPhase, EndKept, Busy
  <2>2. Cursor!Exhaust
    BY <1>3, <2>1 DEF ReadEnd, Cursor!Exhaust, Busy
  <2>. QED  BY <2>2 DEF Cursor!CursorNext
<1>4. CASE DropStream
  <2>1. Cursor!Drop
    BY <1>4 DEF DropStream, streamVars, Cursor!Drop, Busy
  <2>. QED  BY <2>1 DEF Cursor!CursorNext
<1>5. ASSUME UNCHANGED <<delivered, failed, endOfStream>>,
             (goal = "fetch" /\ pc \in Busy) <=> (goal' = "fetch" /\ pc' \in Busy),
             pc = "dropped" <=> pc' = "dropped"
      PROVE  UNCHANGED Cursor!cursorVars
  BY <1>5 DEF Cursor!cursorVars
<1>6. CASE pc \in Busy /\ Fail
  <2>1. CASE goal = "fetch"
    <3>1. Cursor!Fail
      BY <1>6, <2>1 DEF Fail, Cursor!Fail, Busy
    <3>. QED  BY <3>1 DEF Cursor!CursorNext
  <2>2. CASE goal # "fetch"
    <3>1. /\ UNCHANGED <<delivered, failed, endOfStream, goal>>
          /\ pc' = "refused" /\ pc # "dropped"
      BY <1>6, <2>2 DEF Fail, Busy
    <3>. QED  BY <1>5, <2>2, <3>1
  <2>. QED  BY <2>1, <2>2
<1>7. CASE Explain \/ ExplainLost \/ SubmitQuery \/ QueryLost
  <2>1. UNCHANGED <<delivered, failed, endOfStream>> /\ goal = "explain"
    BY <1>7 DEF Explain, ExplainLost, SubmitQuery, QueryLost, LoseAnswer, streamVars, IInv,
                InPhase
  <2>2. /\ goal' = "fetch" => pc' = "ready"
        /\ pc # "dropped" /\ pc' # "dropped"
    BY <1>7, <2>1 DEF Explain, ExplainLost, SubmitQuery, QueryLost, LoseAnswer,
       AfterLostAnswer
  <2>. QED  BY <1>5, <2>1, <2>2 DEF Busy
<1>8. ASSUME NEW n \in DOMAIN instances, Progress(n)
      PROVE  UNCHANGED Cursor!cursorVars
  BY <1>5, <1>8 DEF Progress, streamVars
<1>9. CASE ParseSettings \/ ChooseQuota \/ ReadSchema \/ ReadRawResult \/ BeginWait
           \/ PollAgain \/ PollTerminated \/ TaskPassed \/ FindEndpoint \/ OpenSession
           \/ ReadStarves
  <2>1. UNCHANGED <<delivered, failed, endOfStream, goal>>
    BY <1>9 DEF ParseSettings, ChooseQuota, ReadSchema, ReadRawResult, BeginWait, PollAgain,
       PollTerminated, TaskPassed, FindEndpoint, OpenSession, ReadStarves, streamVars
  <2>2. goal = "fetch" => pc \in Busy /\ pc' \in Busy
    BY <1>9 DEF ParseSettings, ChooseQuota, ReadSchema, ReadRawResult, BeginWait, PollAgain,
       PollTerminated, TaskPassed, FindEndpoint, OpenSession, ReadStarves, IInv, InPhase, Busy
  <2>3. pc # "dropped" /\ pc' # "dropped"
    BY <1>9 DEF ParseSettings, ChooseQuota, ReadSchema, ReadRawResult, BeginWait, PollAgain,
       PollTerminated, TaskPassed, FindEndpoint, OpenSession, ReadStarves, IInv, TypeOK
  <2>. QED  BY <1>5, <2>1, <2>2, <2>3
<1>10. CASE UNCHANGED vars
  BY <1>5, <1>10 DEF vars, streamVars
<1>. QED  BY <1>1, <1>2, <1>3, <1>4, <1>6, <1>7, <1>8, <1>9, <1>10, NextCases DEF Quiet

\* The stream behaves as a row cursor, whatever fails and whenever its lazy
\* initialisation does, over the rows the session was understood to have
\* (QueryExecution, ImplementsCursorSafe).
THEOREM StreamImplementsCursor == Spec => ImplementsCursorSafe
<1>1. Init => Cursor!CursorInit
  BY CountIsNat DEF Init, Cursor!CursorInit, CursorStatus
<1>. QED  BY <1>1, Invariance, StreamStep, PTL DEF Spec, ImplementsCursorSafe, Cursor!CursorSafe
=============================================================================
