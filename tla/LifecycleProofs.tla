-------------------------- MODULE LifecycleProofs ---------------------------
(***************************************************************************)
(* Proofs about Lifecycle, for any number of attempts, migrations and      *)
(* starts.                                                                 *)
(***************************************************************************)
EXTENDS Lifecycle, InductionLemmas

-----------------------------------------------------------------------------
(* The inductive invariant                                                 *)

\* An attempt is left as long as the loop of doWithTries runs.
AttemptsInv == try.pc \in {"trying", "sleeping"} => try.left > 0

\* A schema that is not marked dirty is what its version says; one that is
\* being migrated is marked until its script is in effect.
SchemaInv ==
  /\ ~schema.dirty => schema.applied = schema.version
  /\ migrate \in {"running", "clearing"} => schema.dirty
  /\ migrate = "clearing" => schema.applied = schema.version
  /\ migrate = "choosing" => ~schema.dirty
  /\ migrate = "done" => Migrated

Launched == {"launching", "waiting", "stopping", "draining", "closing"}

\* Whoever has got as far as launching the server has a migrated schema, which
\* nobody changes from then on, and there is no server before.
LaunchInv ==
  /\ main \in Launched /\ ShouldMigrate => Migrated
  /\ listener # "none" => main \in Launched

IInv == TypeOK /\ AttemptsInv /\ SchemaInv /\ LaunchInv

LEMMA InvInit == Init => IInv
  <1> SUFFICES ASSUME Init PROVE IInv
    OBVIOUS
  <1>1. TypeOK
    BY ConnectingAssumption, VersionAssumption, LifecycleAssumption
    DEF Init, LifecycleInit, ConnectInit, MigrateInit, TypeOK, MainPCs,
        ListenerPCs, Exits, Try, Schema, MigratePCs
  <1>2. AttemptsInv /\ SchemaInv /\ LaunchInv
    BY DEF Init, LifecycleInit, ConnectInit, MigrateInit, AttemptsInv,
           SchemaInv, LaunchInv, Launched
  <1> QED BY <1>1, <1>2 DEF IInv

-----------------------------------------------------------------------------
(* The steps                                                               *)

\* The process ends, however it does.
LEMMA InvEnds ==
  ASSUME IInv, NEW how \in Exits, Ends(how)
  PROVE  IInv'
  <1>1. TypeOK'
    BY DEF IInv, TypeOK, Ends, MainPCs, ListenerPCs, Exits, Try, MigratePCs
  <1>2. AttemptsInv'
    BY DEF IInv, TypeOK, Ends, AttemptsInv, Try
  <1>3. SchemaInv'
    BY DEF IInv, Ends, SchemaInv, Migrated
  <1>4. LaunchInv'
    BY DEF Ends, LaunchInv, Launched
  <1> QED BY <1>1, <1>2, <1>3, <1>4 DEF IInv

LEMMA ProductType == ASSUME NEW m \in Nat, NEW n \in Nat PROVE m * n \in Nat
  OBVIOUS

\* A step of NewClient.
LEMMA InvConnectStep ==
  ASSUME IInv, ConnectStep, UNCHANGED <<processVars, migrateVars>>
  PROVE  IInv'
  <1> USE DEF IInv
  <1>1. try' \in Try /\ clock' \in Nat /\ ready' \in Nat /\ AttemptsInv'
    <2>1. CASE AttemptSucceeds
      BY <2>1, ConnectingAssumption
      DEF AttemptSucceeds, Attempt, TypeOK, Try, AttemptsInv
    <2>2. CASE AttemptFails
      BY <2>2, ConnectingAssumption
      DEF AttemptFails, Attempt, TypeOK, Try, AttemptsInv
    <2>3. CASE WakesUp
      <3>1. try.left - 1 \in 0..ConnectAttempts
        BY <2>3, ConnectingAssumption DEF WakesUp, TypeOK, Try, AttemptsInv
      <3>2. try.factor + 1 \in Nat /\ try.delay \in Nat
        BY DEF TypeOK, Try
      <3>3. try.delay * (try.factor + 1) \in Nat
        BY <3>2, ProductType
      <3>4. try' \in Try
        BY <2>3, <3>1, <3>2, <3>3 DEF WakesUp, Try
      <3>5. clock' \in Nat /\ ready' \in Nat
        BY <2>3, <3>2 DEF WakesUp, TypeOK
      <3>6. try'.left = try.left - 1
            /\ (try.left - 1 = 0 => try'.pc = "gave_up")
        BY <2>3, Zenon DEF WakesUp
      <3>7. AttemptsInv'
        <4>1. CASE try.left - 1 = 0
          BY <4>1, <3>6 DEF AttemptsInv
        <4>2. CASE try.left - 1 # 0
          <5>1. try'.left \in 0..ConnectAttempts /\ try'.left # 0
            BY <4>2, <3>1, <3>6
          <5>2. try'.left > 0
            BY <5>1, ConnectingAssumption
          <5> QED BY <5>2 DEF AttemptsInv
        <4> QED BY <4>1, <4>2
      <3> QED BY <3>4, <3>5, <3>7
    <2> QED BY <2>1, <2>2, <2>3 DEF ConnectStep
  <1>2. TypeOK'
    BY <1>1 DEF TypeOK, processVars, migrateVars
  <1>3. SchemaInv' /\ LaunchInv'
    BY DEF SchemaInv, LaunchInv, Migrated, processVars, migrateVars
  <1> QED BY <1>1, <1>2, <1>3

\* A step of RunMigrations.
LEMMA InvMigrateStep ==
  ASSUME IInv, main = "migrating", MigrateStep,
         UNCHANGED <<processVars, connectVars>>
  PROVE  IInv'
  <1> USE DEF IInv
  <1>1. schema \in Schema /\ migrate \in MigratePCs
    BY DEF TypeOK
  <1>2. schema' \in Schema /\ migrate' \in MigratePCs /\ SchemaInv'
    <2> USE VersionAssumption DEF Schema, MigratePCs, SchemaInv, Migrated
    <2>1. CASE Opens
      BY <2>1, <1>1 DEF Opens
    <2>2. CASE NoChange
      <3>1. ~schema.dirty /\ schema.applied = schema.version
        BY <2>2 DEF NoChange
      <3>2. schema = [version |-> schema.version, dirty |-> FALSE,
                      applied |-> schema.version]
        BY <3>1, <1>1
      <3> QED BY <2>2, <3>2, <1>1 DEF NoChange
    <2>3. CASE MarksDirty
      <3>1. schema.version + 1 \in 0..LastVersion
        BY <2>3, <1>1 DEF MarksDirty
      <3>2. schema' = [version |-> schema.version + 1, dirty |-> TRUE,
                       applied |-> schema.applied]
        BY <2>3, <1>1 DEF MarksDirty
      <3>3. schema' \in Schema
        BY <3>1, <3>2, <1>1
      <3> QED BY <2>3, <3>2, <3>3 DEF MarksDirty
    <2>4. CASE RunsScript
      BY <2>4, <1>1 DEF RunsScript
    <2>5. CASE ClearsDirty
      BY <2>5, <1>1 DEF ClearsDirty
    <2>6. CASE MigrationFails
      BY <2>6, <1>1 DEF MigrationFails
    <2> QED BY <2>1, <2>2, <2>3, <2>4, <2>5, <2>6 DEF MigrateStep
  <1>3. TypeOK' /\ AttemptsInv'
    BY <1>2 DEF TypeOK, AttemptsInv, processVars, connectVars
  <1>4. LaunchInv'
    BY DEF LaunchInv, Launched, processVars
  <1> QED BY <1>2, <1>3, <1>4

\* main() and the goroutine up to the server's end, while the process lives on
\* and its connection and the schema are left alone.
LEMMA InvMainStep ==
  ASSUME IInv, UNCHANGED <<connectVars, schema>>,
         main' \in MainPCs, listener' \in ListenerPCs, done' \in 0..1,
         stop' \in {"none", "nil", "deadline"}, exit' \in Exits,
         starts' \in 0..MaxStarts, migrate' \in MigratePCs,
         migrate' = migrate \/ migrate' = "opening",
         main' \in Launched => main \in Launched \/ migrate = "done"
                               \/ ~ShouldMigrate,
         listener' # "none" => main' \in Launched
  PROVE  IInv'
  <1>1. TypeOK' /\ AttemptsInv'
    BY DEF IInv, TypeOK, AttemptsInv, connectVars
  <1>2. SchemaInv'
    BY DEF IInv, SchemaInv, Migrated
  <1>3. LaunchInv'
    BY DEF IInv, SchemaInv, LaunchInv, Migrated
  <1> QED BY <1>1, <1>2, <1>3 DEF IInv

\* Every step of the process, whatever its requests are doing.
LEMMA InvStep ==
  ASSUME IInv, NEW idle \in BOOLEAN, NEW released \in BOOLEAN,
         LifecycleStep(idle, released)
  PROVE  IInv'
  <1>1. CASE StartsProcess
    <2>1. TypeOK'
      BY <1>1, ConnectingAssumption, LifecycleAssumption
      DEF StartsProcess, ConnectStarts, migrateVars, IInv, TypeOK, MainPCs,
          Exits, Try
    <2>2. AttemptsInv'
      BY <1>1, ConnectingAssumption
      DEF StartsProcess, ConnectStarts, AttemptsInv
    <2>3. SchemaInv' /\ LaunchInv'
      BY <1>1 DEF StartsProcess, migrateVars, IInv, SchemaInv, LaunchInv,
                  Launched, Migrated
    <2> QED BY <2>1, <2>2, <2>3 DEF IInv
  <1>2. CASE main = "connecting" /\ ConnectStep
             /\ UNCHANGED <<processVars, migrateVars>>
    BY <1>2, InvConnectStep
  <1>3. CASE main = "migrating" /\ MigrateStep
             /\ UNCHANGED <<processVars, connectVars>>
    BY <1>3, InvMigrateStep
  <1>4. CASE NotConnected
    BY <1>4, InvEnds DEF NotConnected, Exits
  <1>5. CASE main = "migrating" /\ migrate = "failed" /\ Ends("returned")
    BY <1>5, InvEnds DEF Exits
  <1>6. CASE ClosesPool(released)
    BY <1>6, InvEnds DEF ClosesPool, Exits
  <1>7. CASE Killed
    BY <1>7, InvEnds DEF Killed, Exits
  <1>8. CASE Signal
    <2>1. CASE Ends("killed")
      BY <2>1, InvEnds DEF Exits
    <2>2. CASE main \in Launched /\ done' = 1
               /\ UNCHANGED <<main, listener, stop, exit, starts, connectVars,
                              migrateVars>>
      BY <2>2, InvMainStep DEF IInv, TypeOK, LaunchInv, migrateVars
    <2> QED BY <1>8, <2>1, <2>2 DEF Signal, Launched
  <1>9. CASE Connected
    BY <1>9, InvMainStep
    DEF Connected, IInv, TypeOK, LaunchInv, Launched, MainPCs, MigratePCs
  <1>10. CASE main = "migrating" /\ migrate = "done" /\ main' = "launching"
              /\ UNCHANGED <<listener, done, stop, exit, starts, connectVars,
                             migrateVars>>
    BY <1>10, InvMainStep
    DEF IInv, TypeOK, LaunchInv, Launched, MainPCs, migrateVars
  <1>11. CASE Launches
    BY <1>11, InvMainStep
    DEF Launches, IInv, TypeOK, LaunchInv, Launched, MainPCs, ListenerPCs,
        migrateVars
  <1>12. CASE Listens
    BY <1>12, InvMainStep
    DEF Listens, ServerStarts, ServerClosed, SendsDone, IInv, TypeOK,
        LaunchInv, ListenerPCs, migrateVars
  <1>13. CASE ReceivesDone \/ StopsServer \/ ShutdownReturns(idle)
    BY <1>13, InvMainStep
    DEF ReceivesDone, StopsServer, ShutdownReturns, StopReturns, IInv, TypeOK,
        LaunchInv, Launched, MainPCs, migrateVars
  <1> QED
    BY <1>1, <1>2, <1>3, <1>4, <1>5, <1>6, <1>7, <1>8, <1>9, <1>10, <1>11,
       <1>12, <1>13
    DEF LifecycleStep, Progress, StartUp, WindsDown, MigrationsOver

LEMMA InvNext == IInv /\ [Next]_lifeVars => IInv'
  <1> SUFFICES ASSUME IInv, [Next]_lifeVars PROVE IInv'
    OBVIOUS
  <1>1. CASE LifecycleStep(TRUE, TRUE)
    BY <1>1, InvStep
  <1>2. CASE UNCHANGED lifeVars
    BY <1>2
    DEF lifeVars, processVars, connectVars, migrateVars, IInv, TypeOK,
        AttemptsInv, SchemaInv, LaunchInv, Migrated
  <1> QED BY <1>1, <1>2 DEF Next, LifecycleStep

LEMMA InvAlways == Spec => []IInv
  BY InvInit, InvNext, PTL DEF Spec

-----------------------------------------------------------------------------
\* Every variable has its type in every reachable state: the loop of attempts
\* ends with none left, and the channel done never holds two signals.
THEOREM TypeCorrect == Spec => []TypeOK
  <1>1. IInv => TypeOK
    BY DEF IInv
  <1> QED BY <1>1, InvAlways, PTL

\* A process configured to migrate serves requests on a fully migrated schema
\* only, whatever starts before it failed or were killed at whichever step.
THEOREM OnlyMigratedIsServed == Spec => []ServesOnlyMigrated
  <1>1. IInv => ServesOnlyMigrated
    BY DEF IInv, LaunchInv, ServesOnlyMigrated
  <1> QED BY <1>1, InvAlways, PTL

-----------------------------------------------------------------------------
(* How long the program waits                                              *)

\* What the recursive definition of Factorial defines.
LEMMA FactorialDef ==
  /\ Factorial[0] = 1
  /\ \A n \in Nat : Factorial[n] \in Nat
  /\ \A n \in Nat : Factorial[n + 1] = (n + 1) * Factorial[n]
  <1> DEFINE h == [p \in Nat \X Nat |-> p[1] * p[2]]
  <1>1. IsStep(h, Nat) /\ 1 \in Nat
    BY ProductType DEF IsStep
  <1> HIDE DEF h
  <1>2. PICK f \in [Nat -> Nat] : IsRecursion(f, 1, h)
    BY <1>1, RecursiveFunctionExists
  <1>3. f = [n \in Nat |-> IF n = 0 THEN 1 ELSE n * f[n - 1]]
    <2>1. \A n \in Nat : n # 0 => h[<<n, f[n - 1]>>] = n * f[n - 1]
      BY DEF h
    <2> QED BY <1>2, <2>1 DEF IsRecursion
  <1>4. Factorial = [n \in Nat |-> IF n = 0 THEN 1 ELSE n * Factorial[n - 1]]
    BY <1>3, Zenon DEF Factorial
  <1>5. Factorial[0] = 1
    BY <1>4
  <1>6. \A n \in Nat : Factorial[n + 1] = (n + 1) * Factorial[n]
    BY <1>4
  <1>7. \A n \in Nat : Factorial[n] \in Nat
    <2> DEFINE X == {n \in Nat : Factorial[n] \in Nat}
    <2>1. 0 \in X
      BY <1>5
    <2>2. ASSUME NEW n \in Nat, n \in X PROVE n + 1 \in X
      BY <2>2, <1>6, ProductType
    <2> HIDE DEF X
    <2>3. Nat \subseteq X
      BY <2>1, <2>2, Induction
    <2> QED BY <2>3 DEF X
  <1> QED BY <1>5, <1>6, <1>7

\* And that of Waited.
LEMMA WaitedDef ==
  /\ Waited[0] = 0
  /\ \A n \in Nat : Waited[n] \in Nat
  /\ \A n \in Nat :
       Waited[n + 1] = Waited[n] + DelayFragment * Factorial[n + 1]
  <1> DEFINE delay == [n \in Nat |-> DelayFragment * Factorial[n]]
             h == [p \in Nat \X Nat |-> p[2] + delay[p[1]]]
  <1>1. \A n \in Nat : delay[n] = DelayFragment * Factorial[n]
    OBVIOUS
  <1>2. \A n \in Nat : delay[n] \in Nat
    BY FactorialDef, ConnectingAssumption, ProductType
  <1> HIDE DEF delay
  <1>3. IsStep(h, Nat) /\ 0 \in Nat
    BY <1>2 DEF IsStep
  <1> HIDE DEF h
  <1>4. PICK f \in [Nat -> Nat] : IsRecursion(f, 0, h)
    BY <1>3, RecursiveFunctionExists
  <1>5. f = [n \in Nat |-> IF n = 0 THEN 0
                           ELSE f[n - 1] + DelayFragment * Factorial[n]]
    <2>1. \A n \in Nat : n # 0 => h[<<n, f[n - 1]>>] = f[n - 1] + delay[n]
      BY DEF h
    <2> QED BY <1>1, <1>4, <2>1 DEF IsRecursion
  <1>6. Waited = [n \in Nat |-> IF n = 0 THEN 0
                                ELSE Waited[n - 1] + DelayFragment * Factorial[n]]
    BY <1>5, Zenon DEF Waited
  <1>7. Waited[0] = 0
    BY <1>6
  <1>8. \A n \in Nat :
          Waited[n + 1] = Waited[n] + DelayFragment * Factorial[n + 1]
    BY <1>6
  <1>9. \A n \in Nat : Waited[n] \in Nat
    <2> DEFINE X == {n \in Nat : Waited[n] \in Nat}
    <2>1. 0 \in X
      BY <1>7
    <2>2. ASSUME NEW n \in Nat, n \in X PROVE n + 1 \in X
      <3>1. delay[n + 1] \in Nat /\ Waited[n + 1] = Waited[n] + delay[n + 1]
        BY <1>1, <1>2, <1>8
      <3> QED BY <2>2, <3>1
    <2> HIDE DEF X
    <2>3. Nat \subseteq X
      BY <2>1, <2>2, Induction
    <2> QED BY <2>3 DEF X
  <1> QED BY <1>7, <1>8, <1>9

\* The time waited before an attempt is at least that of the delays before it,
\* and the database was not ready for good when an attempt that failed began.
PatienceInv ==
  /\ try.pc \in {"trying", "sleeping"} =>
       /\ try.factor = (ConnectAttempts - try.left) + 1
       /\ try.delay = DelayFragment * Factorial[try.factor]
       /\ clock >= Waited[ConnectAttempts - try.left]
  /\ try.pc = "sleeping" => ready > Waited[ConnectAttempts - try.left]
  /\ GivesUpOnlyAfterPatience

LEMMA Reassociate ==
  ASSUME NEW a \in Nat, NEW b \in Nat, NEW c \in Nat
  PROVE  (a * b) * c = a * (c * b)
  OBVIOUS

LEMMA PatienceInit == Init => PatienceInv
  BY DEF Init, LifecycleInit, ConnectInit, PatienceInv,
         GivesUpOnlyAfterPatience

LEMMA PatienceWakesUp ==
  ASSUME IInv, PatienceInv, WakesUp
  PROVE  PatienceInv'
  <1> DEFINE n == ConnectAttempts - try.left
  <1>1. n \in Nat /\ try.left \in Nat \ {0} /\ try.left - 1 \in Nat
        /\ ConnectAttempts \in Nat
    BY ConnectingAssumption DEF WakesUp, IInv, TypeOK, AttemptsInv, Try
  <1>2. try.factor = n + 1 /\ try.delay = DelayFragment * Factorial[n + 1]
        /\ clock >= Waited[n] /\ ready > Waited[n]
    BY DEF WakesUp, PatienceInv
  <1>3. /\ clock' = clock + try.delay
        /\ ready' = ready
        /\ try'.left = try.left - 1
        /\ try'.factor = try.factor + 1
        /\ try'.delay = try.delay * (try.factor + 1)
        /\ try'.pc = IF try.left - 1 = 0 THEN "gave_up" ELSE "trying"
    BY DEF WakesUp
  <1>4. ConnectAttempts - try'.left = n + 1
    BY <1>1, <1>3
  <1> HIDE DEF n
  <1>5. try'.factor = (n + 1) + 1
    BY <1>2, <1>3
  <1>6. try'.delay = DelayFragment * Factorial[(n + 1) + 1]
    <2>1. n + 1 \in Nat /\ (n + 1) + 1 \in Nat /\ Factorial[n + 1] \in Nat
          /\ DelayFragment \in Nat
      BY <1>1, FactorialDef, ConnectingAssumption
    <2>2. Factorial[(n + 1) + 1] = ((n + 1) + 1) * Factorial[n + 1]
      BY <2>1, FactorialDef
    <2>3. try'.delay = (DelayFragment * Factorial[n + 1]) * ((n + 1) + 1)
      BY <1>2, <1>3
    <2> QED BY <2>1, <2>2, <2>3, Reassociate
  <1>7. clock' >= Waited[n + 1]
    <2>1. Waited[n + 1] = Waited[n] + try.delay /\ Waited[n] \in Nat
      BY <1>1, <1>2, WaitedDef
    <2>2. try.delay \in Nat /\ clock \in Nat
      BY DEF IInv, TypeOK, Try
    <2> QED BY <1>2, <1>3, <2>1, <2>2
  <1>8. try'.pc = "gave_up" => ready' > Patience
    <2> SUFFICES ASSUME try'.pc = "gave_up" PROVE ready' > Patience
      OBVIOUS
    <2>1. try.left - 1 = 0
      BY <1>3
    <2>2. n = ConnectAttempts - 1
      BY <1>1, <2>1 DEF n
    <2> QED BY <1>2, <1>3, <2>2 DEF Patience
  <1>9. try'.pc # "sleeping"
    BY <1>3
  <1> QED
    BY <1>4, <1>5, <1>6, <1>7, <1>8, <1>9
    DEF PatienceInv, GivesUpOnlyAfterPatience

LEMMA PatienceNext == IInv /\ PatienceInv /\ [Next]_lifeVars => PatienceInv'
  <1> SUFFICES ASSUME IInv, PatienceInv, [Next]_lifeVars PROVE PatienceInv'
    OBVIOUS
  <1>1. CASE StartsProcess
    BY <1>1, FactorialDef, WaitedDef, ConnectingAssumption
    DEF StartsProcess, ConnectStarts, PatienceInv, GivesUpOnlyAfterPatience
  <1>2. CASE AttemptSucceeds
    BY <1>2
    DEF AttemptSucceeds, Attempt, IInv, TypeOK, Try, PatienceInv,
        GivesUpOnlyAfterPatience
  <1>3. CASE AttemptFails
    <2>1. /\ try.pc = "trying" /\ try'.pc = "sleeping"
          /\ try'.left = try.left /\ try'.factor = try.factor
          /\ try'.delay = try.delay /\ ready' > clock
      BY <1>3 DEF AttemptFails, Attempt, IInv, TypeOK, Try
    <2>2. PICK d \in 0..AttemptTimeout : clock' = clock + d
      BY <1>3 DEF AttemptFails, Attempt
    <2>3. ConnectAttempts - try.left \in Nat
      BY ConnectingAssumption DEF IInv, TypeOK, Try
    <2>4. Waited[ConnectAttempts - try.left] \in Nat
      BY <2>3, WaitedDef
    <2>5. clock >= Waited[ConnectAttempts - try.left]
      BY <2>1 DEF PatienceInv
    <2>6. clock' >= Waited[ConnectAttempts - try.left]
          /\ ready' > Waited[ConnectAttempts - try.left]
      <3>1. clock \in Nat /\ ready' \in Nat
        BY <1>3 DEF AttemptFails, IInv, TypeOK
      <3> QED BY <2>1, <2>2, <2>4, <2>5, <3>1, ConnectingAssumption
    <2> QED BY <2>1, <2>6 DEF PatienceInv, GivesUpOnlyAfterPatience
  <1>4. CASE WakesUp
    BY <1>4, PatienceWakesUp
  <1>5. CASE UNCHANGED connectVars
    BY <1>5
    DEF connectVars, PatienceInv, GivesUpOnlyAfterPatience
  <1>6. CASE \E how \in Exits : Ends(how)
    BY <1>6
    DEF Ends, IInv, TypeOK, Try, PatienceInv, GivesUpOnlyAfterPatience
  <1>7. Next => StartsProcess \/ ConnectStep \/ UNCHANGED connectVars
                \/ \E how \in Exits : Ends(how)
    BY DEF Next, Progress, StartUp, Listens, WindsDown, Connected,
           NotConnected, MigrationsOver, Launches, ServerStarts, ServerClosed,
           SendsDone, ReceivesDone, StopsServer, ShutdownReturns, StopReturns,
           ClosesPool, Signal, Killed, Exits, lifeVars
  <1> QED
    BY <1>1, <1>2, <1>3, <1>4, <1>5, <1>6, <1>7 DEF ConnectStep, lifeVars

\* The program gives up on a database only if it refused an attempt begun after
\* all the delays before the last attempt, however quickly the attempts
\* themselves fail and whether or not it had been ready in between.
THEOREM GivesUpNoEarlier == Spec => []GivesUpOnlyAfterPatience
  <1>1. PatienceInv => GivesUpOnlyAfterPatience
    BY DEF PatienceInv
  <1> QED BY <1>1, PatienceInit, PatienceNext, InvAlways, PTL DEF Spec
=============================================================================
