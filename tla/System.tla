------------------------------- MODULE System -------------------------------
(***************************************************************************)
(* The service inside its process: requests come in while the server       *)
(* serves, a signal stops it while some are under way, a crash or an exit  *)
(* abandons them, and the process may be started again on the database as  *)
(* it was left, with transactions of the dead process still pending.       *)
(***************************************************************************)
EXTENDS SubscriptionRefinement

CONSTANTS   \* of Lifecycle
  ConnectAttempts, DelayFragment, AttemptTimeout, ReadyTimes,
  LastVersion, ShouldMigrate, MaxStarts

VARIABLES
  main, listener, done, stop, exit, starts,   \* of Lifecycle
  try, clock, ready, schema, migrate,         \* of Lifecycle
  lost    \* the requests whose process ended before it answered them

Process == INSTANCE Lifecycle

lifeVars == <<main, listener, done, stop, exit, starts,
              try, clock, ready, schema, migrate>>
systemVars == <<vars, lifeVars, lost>>

\* Requests under way in the process there is now.
Running == {r \in Requests : req[r].pc = "running"} \ lost

SystemInit ==
  /\ Init
  /\ Process!LifecycleInit
  /\ lost = {}

-----------------------------------------------------------------------------
(* The steps of requests                                                   *)

\* A connection is accepted until Shutdown closes the listener.
Accepts(r) ==
  /\ listener = "serving"
  /\ ~Process!ShutDown
  /\ Handles(r)
  /\ UNCHANGED <<lifeVars, lost>>

\* Close makes the pool refuse connections, to those that wait for one too.
PoolIsClosed == main = "closing"

CallSteps(r) ==
  \/ CallProceeds(r) /\ (PoolIsClosed => conns' \subseteq conns)
  \/ CallFails(r)

Runs(r) ==
  /\ r \in Running
  /\ \/ Continues(r)
     \/ CallSteps(r) /\ UNCHANGED serviceVars
  /\ UNCHANGED <<lifeVars, lost>>

\* PostgreSQL ends a transaction, of whichever process.
Settles(r) ==
  /\ DbEnds(r)
  /\ UNCHANGED <<serviceVars, lifeVars, lost>>

-----------------------------------------------------------------------------
(* The steps of the process                                                *)

\* A mistake: the deferred Close is omitted, and main returns at once.
ReleasedOrNot == TRUE

Released == conns = {}

\* A mistake: Close instead of Shutdown, which waits for nobody.
IdleOrNot == TRUE

Idle == Running = {}

\* What the requests of a process that ends leave behind: nobody answers them,
\* their connections break, their transactions are the database's to end.
Abandons ==
  /\ lost' = lost \cup Running
  /\ conns' = {}
  /\ UNCHANGED <<now, req, table, tx, call>>

ProcessSteps(step) ==
  /\ step
  /\ IF main # "off" /\ main' = "off"
     THEN Abandons
     ELSE UNCHANGED <<vars, lost>>

DayPasses == Tick /\ UNCHANGED <<lifeVars, lost>>

Stays ==
  /\ Running = {} /\ main \in {"off", "waiting"}
  /\ UNCHANGED systemVars

SystemNext ==
  \/ \E r \in Requests : Accepts(r) \/ Runs(r) \/ Settles(r)
  \/ ProcessSteps(Process!LifecycleStep(Idle, Released))
  \/ DayPasses
  \/ Stays

SystemSpec == SystemInit /\ [][SystemNext]_systemVars

-----------------------------------------------------------------------------
(* Fairness: that of the service for the requests under way, to which a    *)
(* closed pool is reported, and that of the process.                       *)

RunsOn(r) ==
  /\ r \in Running
  /\ \/ Proceeds(r) /\ (PoolIsClosed => conns' \subseteq conns)
     \/ PoolIsClosed /\ BeginFails(r) /\ UNCHANGED serviceVars
  /\ UNCHANGED <<lifeVars, lost>>

SystemFairness ==
  /\ \A r \in Requests :
       /\ WF_systemVars(RunsOn(r))
       /\ WF_systemVars(DbSettles(r) /\ UNCHANGED <<lifeVars, lost>>)
  /\ WF_systemVars(ProcessSteps(Process!StartUp \/ Process!WindsDown(Idle, Released)))
  /\ WF_systemVars(ProcessSteps(Process!Listens))

FairSystemSpec == SystemSpec /\ SystemFairness

-----------------------------------------------------------------------------
(* Properties                                                              *)

\* Crashes, shutdowns and restarts are invisible to clients but for answers
\* that do not come: every operation still takes effect in one step, an
\* acknowledged one for good, an abandoned one later or never, but once.
DurablyLinearizable == Linearizable

\* A shutdown that reports success has abandoned nobody, and one that ran into
\* its deadline nobody whose change may yet appear: such a request had ended
\* its transaction, or learnt that it could not tell.
OrderlyExitSettles ==
  [][main = "closing" /\ exit' = "returned" =>
       \A r \in Running :
         /\ stop = "deadline"
         /\ tx[r].state \in {"open", "committing"} => call[r].err = "error"]_systemVars

\* Every request that was accepted is answered, or its process is gone: the
\* rows a dead process has locked do not hold up its successor for ever.  (A
\* request comes once, so one that never ended would keep Running from being
\* empty again.)
EveryRequestEnds == Running # {} ~> Running = {}

\* A signal ends a process that serves, whatever its requests are doing: the
\* deferred Close waits for connections, and each of them comes back.
SignalEndsTheProcess ==
  main = "waiting" /\ done = 1 ~> main = "off"
=============================================================================
