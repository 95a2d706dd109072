---------------------------- MODULE SystemProofs ----------------------------
(***************************************************************************)
(* Proofs about System: what its clients see of crashes, shutdowns and     *)
(* restarts, for any number of requests and of processes.                  *)
(***************************************************************************)
EXTENDS System, SubscriptionRefinementProofs

-----------------------------------------------------------------------------
(* The inductive invariant                                                 *)

\* A request that is in the storage in the process there is holds a connection.
HoldersInv ==
  \A r \in Requests \ lost : call[r].pc \in Holding => r \in conns

\* A process has not ended, and closes the pool after Stop has returned: nil
\* when no request was under way, and none has come since.
ClosingInv ==
  /\ main # "off" => exit = "none"
  /\ main = "closing" => stop \in {"nil", "deadline"}
  /\ main = "closing" /\ stop = "nil" => Running = {}

SystemInv == RefinementInv /\ HoldersInv /\ ClosingInv

-----------------------------------------------------------------------------
(* Every step is one of the service, or the end of a process               *)

LEMMA ServiceStep ==
  ASSUME [SystemNext]_systemVars
  PROVE  [Next]_vars \/ Abandons
  <1> USE DEF serviceVars
  <1>1. ASSUME NEW r \in Requests, Accepts(r) \/ Runs(r) \/ Settles(r)
        PROVE  Next
    BY <1>1 DEF Accepts, Runs, Settles, CallSteps, Next, StorageStep
  <1>2. CASE ProcessSteps(Process!LifecycleStep(Idle, Released))
    BY <1>2 DEF ProcessSteps
  <1>3. CASE DayPasses
    BY <1>3 DEF DayPasses, Next
  <1>4. CASE Stays \/ UNCHANGED systemVars
    BY <1>4 DEF Stays, systemVars
  <1> QED BY <1>1, <1>2, <1>3, <1>4 DEF SystemNext

\* The invariant of the service says nothing of who has a connection.
LEMMA ConnectionsIrrelevant ==
  ASSUME RefinementInv, Abandons
  PROVE  RefinementInv'
  <1> USE DEF Abandons
  <1>1. TypeInv' /\ LocalInv'
    BY RefinementInvParts
       DEF TypeInv, TypeOK, CallOK, At, LocalInv, LocalOK, MethodOK,
           ProgressOK, AnswerOK, StagedOK
  <1>2. IDInv'
    BY RefinementInvParts DEF IDInv
  <1>3. WriteInv'
    BY RefinementInvParts
       DEF WriteInv, StagedWritesAreCurrent, Locks, Unlocked, Live, RemoveOK,
           OverwriteOK, MissingOK, Gone
  <1>4. StoredSubsAreValid' /\ CallsAreValid'
    BY RefinementInvParts DEF ValidInv, StoredSubsAreValid, CallsAreValid
  <1>5. \A r \in Requests : ResultOK(r)' /\ MissedOK(r)'
    BY DEF RefinementInv, ResultOK, MissedOK, At, Gone
  <1> QED
    BY <1>1, <1>2, <1>3, <1>4, <1>5 DEF RefinementInv, ValidInv, SafetyInv

LEMMA SystemRefinementNext ==
  ASSUME RefinementInv, [SystemNext]_systemVars
  PROVE  RefinementInv'
  BY ServiceStep, ConnectionsIrrelevant, RefinementNext

-----------------------------------------------------------------------------
(* Connections                                                             *)

LEMMA HoldersStep ==
  ASSUME TypeInv, NEW r \in Requests, Step(r), NEW q \in Requests,
         call[q].pc \in Holding => q \in conns, call'[q].pc \in Holding
  PROVE  q \in conns'
  <1>1. CASE Handles(r)
    <2>1. UNCHANGED conns
      BY <1>1
         DEF Handles, BindFails, PostSubscriptions, PatchSubscriptionsId,
             DeleteSubscriptionsId, GetSubscriptionsId, GetSubscriptions,
             GetSubscriptionsTotalCost, Start, Reject, storageVars
    <2>2. q # r => call'[q] = call[q]
      BY Frame
    <2>3. call'[q] = call[q] \/ call'[q].pc = "begin"
      BY <1>1, <2>2, HandlesCall
    <2> QED BY <2>1, <2>3 DEF Holding
  <1>2. CASE Continues(r)
    <2>1. UNCHANGED conns
          /\ \/ UNCHANGED call
             \/ \E id, sub :
                  call' = [call EXCEPT ![r] = Invocation("Update", id, sub, Nil)]
      BY <1>2
         DEF Continues, PostAnswers, PatchUpdates, PatchAnswers, DeleteAnswers,
             GetAnswers, ListAnswers, TotalCostAnswers, Answer, storageVars
    <2>2. call'[q] = call[q] \/ call'[q].pc = "begin"
      BY <2>1, InvocationFields DEF TypeInv, TypeOK
    <2> QED BY <2>1, <2>2 DEF Holding
  <1>3. CASE StorageOnly(r)
    <2>1. CASE TakeConnection(r)
      BY <2>1, Frame DEF TakeConnection, Holding
    <2>2. CASE GiveConnection(r) /\ \E err, rows : Return(r, err, rows)
      BY <2>2, ReturnFields, Frame DEF GiveConnection, Holding
    <2>3. CASE UNCHANGED conns /\ call[r].pc \in Holding
      BY <2>3, Frame
    <2>4. CASE UNCHANGED conns
               /\ (UNCHANGED call \/ \E err, rows : Return(r, err, rows))
      BY <2>4, ReturnFields, Frame DEF Holding
    <2> QED
      BY <1>3, <2>1, <2>2, <2>3, <2>4
         DEF StorageOnly, StorageStep, CallProceeds, CallFails, DbEnds,
             BeginTx, ExecInsert, ExecUpdate, ExecRemove, Exec, SendCommit,
             CommitReturns, AcquireForQuery, QueryRow, Query, BeginFails,
             ExecFails, CommitFails, QueryFails, DbCommit, DbAbort, At, Holding
  <1> QED BY <1>1, <1>2, <1>3 DEF Step

\* Whoever is in the storage when its process ends is one of those it abandons.
LEMMA HoldersNext ==
  ASSUME RefinementInv, HoldersInv, [SystemNext]_systemVars
  PROVE  HoldersInv'
  <1>1. TypeInv /\ LocalInv
    BY RefinementInvParts
  <1>2. ASSUME NEW r \in Requests, Accepts(r) \/ Runs(r) \/ Settles(r)
        PROVE  HoldersInv'
    <2>1. Step(r) /\ UNCHANGED lost
      BY <1>2 DEF Accepts, Runs, Settles, CallSteps, Step, StorageOnly,
                  StorageStep
    <2> QED BY <1>1, <2>1, HoldersStep DEF HoldersInv
  <1>3. CASE Abandons
    <2>1. ASSUME NEW r \in Requests \ lost', call[r].pc \in Holding
          PROVE  FALSE
      <3>1. req[r].pc # "running"
        BY <1>3, <2>1 DEF Abandons, Running
      <3>2. req[r].pc \in {"new", "running", "answered"} /\ AnswerOK(r)
        BY <1>1 DEF TypeInv, TypeOK, Request, LocalInv, LocalOK
      <3> QED BY <2>1, <3>1, <3>2 DEF AnswerOK, NoCall, Holding
    <2> QED BY <1>3, <2>1 DEF HoldersInv, Abandons
  <1>4. CASE UNCHANGED <<call, conns, lost>>
    BY <1>4 DEF HoldersInv
  <1> QED
    BY <1>2, <1>3, <1>4
       DEF SystemNext, ProcessSteps, DayPasses, Tick, Stays, systemVars, vars,
           storageVars

-----------------------------------------------------------------------------
(* The end of the process                                                  *)

LEMMA ClosingProcess ==
  ASSUME ClosingInv, Process!LifecycleStep(Idle, Released), Running' = Running
  PROVE  ClosingInv'
  <1>1. CASE Process!StartsProcess
    BY <1>1 DEF Process!StartsProcess, ClosingInv
  <1>2. CASE \E how : Process!Ends(how)
    BY <1>2 DEF Process!Ends, ClosingInv
  <1>3. CASE Process!ShutdownReturns(Idle)
    BY <1>3 DEF Process!ShutdownReturns, Process!StopReturns, Idle, ClosingInv
  <1>4. CASE \/ UNCHANGED <<main, stop, exit>>
             \/ main # "off" /\ main' # "closing" /\ UNCHANGED exit
    BY <1>4 DEF ClosingInv
  <1> QED
    BY <1>1, <1>2, <1>3, <1>4
       DEF Process!LifecycleStep, Process!Progress, Process!StartUp,
           Process!Listens, Process!WindsDown, Process!Connected,
           Process!NotConnected, Process!MigrationsOver, Process!Launches,
           Process!ServerStarts, Process!ServerClosed, Process!SendsDone,
           Process!ReceivesDone, Process!StopsServer, Process!ClosesPool,
           Process!Signal, Process!Killed, Process!processVars

LEMMA ClosingNext ==
  ASSUME TypeInv, ClosingInv, [SystemNext]_systemVars
  PROVE  ClosingInv'
  <1>1. ASSUME NEW r \in Requests, Accepts(r)
        PROVE  ClosingInv'
    BY <1>1 DEF Accepts, Process!ShutDown, ClosingInv, lifeVars
  \* A step of a request under way brings none that was not.
  <1>2. ASSUME Running' \subseteq Running, UNCHANGED lifeVars
        PROVE  ClosingInv'
    BY <1>2 DEF ClosingInv, lifeVars
  <1>3. ASSUME NEW r \in Requests, Runs(r)
        PROVE  ClosingInv'
    <2>1. Step(r) /\ UNCHANGED <<lost, lifeVars>> /\ r \in Running
      BY <1>3 DEF Runs, CallSteps, Step, StorageOnly, StorageStep
    <2>2. \A q \in Requests : q # r => req'[q] = req[q]
      BY <2>1, Frame
    <2>3. Running' \subseteq Running
      BY <2>1, <2>2 DEF Running
    <2> QED BY <1>2, <2>1, <2>3
  <1>4. CASE UNCHANGED <<req, lost, lifeVars>>
    BY <1>2, <1>4 DEF Running
  <1>5. CASE ProcessSteps(Process!LifecycleStep(Idle, Released))
    <2>1. CASE main # "off" /\ main' = "off"
      BY <1>5, <2>1 DEF ClosingInv
    <2>2. CASE UNCHANGED <<vars, lost>>
      <3>1. Running' = Running
        BY <2>2 DEF vars, Running
      <3> QED BY <1>5, <3>1, ClosingProcess DEF ProcessSteps
    <2> QED BY <1>5, <2>1, <2>2 DEF ProcessSteps
  <1> QED
    BY <1>1, <1>3, <1>4, <1>5
       DEF SystemNext, Settles, DayPasses, Tick, Stays, systemVars, vars,
           serviceVars

-----------------------------------------------------------------------------
(* What follows                                                            *)

LEMMA SystemInvInit == SystemInit => SystemInv
  <1> SUFFICES ASSUME SystemInit
               PROVE  SystemInv
    OBVIOUS
  <1>1. RefinementInv
    BY RefinementInit DEF SystemInit
  <1>2. HoldersInv
    BY DEF SystemInit, Init, StorageInit, HoldersInv, Holding, NoCall
  <1>3. ClosingInv
    BY DEF SystemInit, Process!LifecycleInit, ClosingInv
  <1> QED BY <1>1, <1>2, <1>3 DEF SystemInv

LEMMA SystemInvNext == SystemInv /\ [SystemNext]_systemVars => SystemInv'
  <1> SUFFICES ASSUME SystemInv, [SystemNext]_systemVars
               PROVE  SystemInv'
    OBVIOUS
  <1>1. TypeInv
    BY RefinementInvParts DEF SystemInv
  <1> QED
    BY <1>1, SystemRefinementNext, HoldersNext, ClosingNext DEF SystemInv

LEMMA SystemCorrect == SystemSpec => []SystemInv
  BY SystemInvInit, SystemInvNext, PTL DEF SystemSpec

\* Clients of a process that is killed, shut down and started again, any number
\* of times and anywhere, see the same atomic service: an operation that was
\* acknowledged has taken effect for good, an abandoned one does so later or
\* never, but once and in one step.
THEOREM SystemIsDurablyLinearizable == SystemSpec => DurablyLinearizable
  <1>1. SystemInit => Atomic!Init
    BY InitRefines DEF SystemInit
  <1>2. SystemInv /\ [SystemNext]_systemVars => [Atomic!Next]_(Atomic!vars)
    <2> SUFFICES ASSUME SystemInv, [SystemNext]_systemVars
                 PROVE  [Atomic!Next]_(Atomic!vars)
      OBVIOUS
    <2>1. CASE [Next]_vars
      BY <2>1, NextRefines DEF SystemInv
    <2>2. CASE Abandons
      BY <2>2 DEF Abandons, Atomic!vars, Committed, SeenRows, Seen, At
    <2> QED BY <2>1, <2>2, ServiceStep
  <1> QED
    BY <1>1, <1>2, SystemCorrect, PTL
       DEF SystemSpec, DurablyLinearizable, Linearizable, Atomic!Spec

\* main returns after a shutdown only when every request that is still without
\* an answer has ended its transaction, or has been told that it cannot know;
\* and when Shutdown has returned nil, there is no such request.
THEOREM OrderlyExit == SystemSpec => OrderlyExitSettles
  <1> DEFINE A == main = "closing" /\ exit' = "returned" =>
                    \A r \in Running :
                      /\ stop = "deadline"
                      /\ tx[r].state \in {"open", "committing"} =>
                           call[r].err = "error"
  <1>1. SystemInv /\ [SystemNext]_systemVars => A
    <2> SUFFICES ASSUME SystemInv, [SystemNext]_systemVars, main = "closing",
                        exit' = "returned", NEW r \in Running
                 PROVE  /\ stop = "deadline"
                        /\ tx[r].state \in {"open", "committing"} =>
                             call[r].err = "error"
      OBVIOUS
    <2>1. exit = "none" /\ stop = "deadline"
      BY DEF SystemInv, ClosingInv
    <2>2. Released
      <3>1. Process!LifecycleStep(Idle, Released)
        BY <2>1 DEF SystemNext, Accepts, Runs, Settles, ProcessSteps, DayPasses,
                    Stays, systemVars, lifeVars
      <3> QED
        BY <2>1, <3>1
           DEF Process!LifecycleStep, Process!Progress, Process!StartUp,
               Process!StartsProcess, Process!Listens, Process!WindsDown,
               Process!Connected, Process!NotConnected, Process!MigrationsOver,
               Process!Launches, Process!ServerStarts, Process!ServerClosed,
               Process!SendsDone, Process!ReceivesDone, Process!StopsServer,
               Process!ShutdownReturns, Process!StopReturns,
               Process!ClosesPool, Process!Signal, Process!Killed,
               Process!Ends, Process!processVars
    <2>3. /\ r \in Requests \ lost /\ ProgressOK(r)
          /\ call[r].pc \notin Holding
      BY <2>2, RefinementInvParts
         DEF SystemInv, Running, LocalInv, LocalOK, HoldersInv, Released
    <2>4. tx[r].state \in {"open", "committing"} => call[r].err = "error"
      BY <2>3 DEF ProgressOK, Holding
    <2> QED BY <2>1, <2>4
  <1> QED
    BY <1>1, SystemCorrect, PTL DEF SystemSpec, OrderlyExitSettles

\* An acknowledged answer survives crashes and restarts, and so does what is in
\* the table: whatever a dead process left behind, every subscription obeys the
\* rules of the domain model and is that of one request, as a whole.
THEOREM WhatIsStoredSurvives ==
  SystemSpec => [](AnswersAreFinal /\ StoredSubsAreValid /\ NoTornSubscription)
  <1>1. SystemInit => WholeInv
    BY WholeInit DEF SystemInit
  <1>2. WholeInv /\ [SystemNext]_systemVars /\ SystemInv' => WholeInv'
    <2> SUFFICES ASSUME WholeInv, [SystemNext]_systemVars, SystemInv'
                 PROVE  WholeInv'
      OBVIOUS
    <2>1. CASE [Next]_vars
      BY <2>1, WholeNext
    <2>2. CASE Abandons
      <3>1. SafetyInv'
        BY DEF SystemInv, RefinementInv, ValidInv
      <3>2. TableIsAuthored' /\ RowsAreAuthored' /\ BodiesAreAuthored'
        BY <2>2
           DEF Abandons, WholeInv, TableIsAuthored, RowsAreAuthored,
               BodiesAreAuthored, Authored
      <3> QED BY <3>1, <3>2 DEF WholeInv
    <2> QED BY <2>1, <2>2, ServiceStep
  <1>3. SystemInv /\ WholeInv
          => AnswersAreFinal /\ StoredSubsAreValid /\ NoTornSubscription
    BY AnswersFollow, WholeFollows
       DEF SystemInv, RefinementInv, ValidInv
  <1> QED BY <1>1, <1>2, <1>3, SystemCorrect, PTL DEF SystemSpec

\* What a dead process still had under way may be written after its end, but
\* only for requests it had not answered or had answered 500; and nobody, in
\* whichever process, writes to a deleted row.
THEOREM LateWrites ==
  SystemSpec => OnlyUndecidedRequestsWrite /\ DeletedRowsAreFrozen
  <1>1. SystemInv /\ [SystemNext]_systemVars
          => WritesIfUndecided /\ FreezesDeleted
    <2> SUFFICES ASSUME SystemInv, [SystemNext]_systemVars
                 PROVE  WritesIfUndecided /\ FreezesDeleted
      OBVIOUS
    <2>1. CASE [Next]_vars
      BY <2>1, WritesStep DEF SystemInv, RefinementInv, ValidInv
    <2>2. CASE Abandons
      BY <2>2 DEF Abandons, WritesIfUndecided, FreezesDeleted
    <2> QED BY <2>1, <2>2, ServiceStep
  <1>2. UNCHANGED systemVars => UNCHANGED vars
    BY DEF systemVars
  <1> QED
    BY <1>1, <1>2, SystemCorrect, PTL
       DEF SystemSpec, OnlyUndecidedRequestsWrite, DeletedRowsAreFrozen,
           WritesIfUndecided, FreezesDeleted
=============================================================================
