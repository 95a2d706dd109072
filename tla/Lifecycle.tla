----------------------------- MODULE Lifecycle ------------------------------
(***************************************************************************)
(* The life of the process: main() of src/src/cmd/main.go, the goroutine   *)
(* that runs the HTTP server (Start and Stop of                            *)
(* src/src/internal/http/api/impl.go), and the channel between them.  The  *)
(* process may be started again; what the database holds stays.            *)
(*                                                                         *)
(* An operator whose comment begins "A mistake" is a faulty variant of the *)
(* one that follows and no part of the specification.                      *)
(***************************************************************************)
EXTENDS Connecting, Migrations

CONSTANTS
  ShouldMigrate,   \* should-migrate of the configuration
  MaxStarts        \* how often the process is started: a bound of the model

ASSUME LifecycleAssumption == ShouldMigrate \in BOOLEAN /\ MaxStarts \in Nat

VARIABLES
  main,       \* where main() is; "off": there is no process
  listener,   \* where the goroutine is that calls srv.Start()
  done,       \* how many signals the channel done holds; its capacity is 1
  stop,       \* what srv.Stop(ctx) has returned, "none" before it has
  exit,       \* how the last process ended
  starts

processVars == <<main, listener, done, stop, exit, starts>>
lifeVars == <<processVars, connectVars, migrateVars>>

MainPCs == {"off", "connecting", "migrating", "launching", "waiting",
            "stopping", "draining", "closing"}
ListenerPCs == {"none", "starting", "serving", "sending", "ended"}
Exits == {"none", "returned", "os.Exit", "killed"}

LifecycleInit ==
  /\ main = "off"
  /\ listener = "none"
  /\ done = 0
  /\ stop = "none"
  /\ exit = "none"
  /\ starts = 0
  /\ ConnectInit
  /\ MigrateInit

\* The process ends: whatever it had in memory is gone.
Ends(how) ==
  /\ main' = "off"
  /\ listener' = "none"
  /\ done' = 0
  /\ stop' = "none"
  /\ exit' = how
  /\ try' = [try EXCEPT !.pc = "idle"]
  /\ migrate' = "idle"
  /\ UNCHANGED <<starts, clock, ready, schema>>

-----------------------------------------------------------------------------
(* Start-up                                                                *)

StartsProcess ==
  /\ main = "off"
  /\ starts < MaxStarts
  /\ main' = "connecting"
  /\ exit' = "none"
  /\ starts' = starts + 1
  /\ ConnectStarts
  /\ UNCHANGED <<listener, done, stop, migrateVars>>

\* NewClient has returned to mustInitStorage.
Connected ==
  /\ main = "connecting"
  /\ try.pc = "connected"
  /\ IF ShouldMigrate
     THEN main' = "migrating" /\ migrate' = "opening"
     ELSE main' = "launching" /\ UNCHANGED migrate
  /\ UNCHANGED <<listener, done, stop, exit, starts, connectVars, schema>>

NotConnected ==
  /\ main = "connecting"
  /\ try.pc = "gave_up"
  /\ Ends("os.Exit")

\* A mistake: the error of RunMigrations is logged, and main goes on.
MigrationsOverAnyway ==
  /\ main = "migrating"
  /\ migrate \in {"done", "failed"}
  /\ main' = "launching"
  /\ UNCHANGED <<listener, done, stop, exit, starts, connectVars, migrateVars>>

\* RunMigrations has returned.  After an error main returns; the deferred Close
\* of the pool finds every connection idle.
MigrationsOver ==
  /\ main = "migrating"
  /\ \/ /\ migrate = "done"
        /\ main' = "launching"
        /\ UNCHANGED <<listener, done, stop, exit, starts, connectVars,
                       migrateVars>>
     \/ migrate = "failed" /\ Ends("returned")

\* signal.Notify, and the goroutine is started.
Launches ==
  /\ main = "launching"
  /\ main' = "waiting"
  /\ listener' = "starting"
  /\ UNCHANGED <<done, stop, exit, starts, connectVars, migrateVars>>

-----------------------------------------------------------------------------
(* The goroutine                                                           *)

\* Stop has been called: Shutdown closes the listener, and a server that has
\* not begun to serve never does.
ShutDown == main \in {"draining", "closing"}

\* echo.Start: it serves, unless the address is taken.
ServerStarts ==
  /\ listener = "starting"
  /\ \/ listener' = "serving" /\ ~ShutDown
     \/ listener' = "sending"
  /\ UNCHANGED <<main, done, stop, exit, starts, connectVars, migrateVars>>

\* Shutdown makes Start return ErrServerClosed, an error like any other here.
ServerClosed ==
  /\ listener = "serving"
  /\ ShutDown
  /\ listener' = "sending"
  /\ UNCHANGED <<main, done, stop, exit, starts, connectVars, migrateVars>>

\* A mistake: the goroutine logs the error and does not tell main.
SendsNothing ==
  /\ listener = "sending"
  /\ listener' = "ended"
  /\ UNCHANGED <<main, done, stop, exit, starts, connectVars, migrateVars>>

\* done <- syscall.SIGINT, which waits while the channel is full.
SendsDone ==
  /\ listener = "sending"
  /\ done = 0
  /\ done' = 1
  /\ listener' = "ended"
  /\ UNCHANGED <<main, stop, exit, starts, connectVars, migrateVars>>

-----------------------------------------------------------------------------
(* The end                                                                 *)

\* SIGINT or SIGTERM.  Before signal.Notify it ends the process; after it, the
\* runtime puts it into done, or drops it when done is full.
Signal ==
  \/ /\ main \in {"connecting", "migrating", "launching"}
     /\ Ends("killed")
  \/ /\ main \in {"waiting", "stopping", "draining", "closing"}
     /\ done' = 1
     /\ UNCHANGED <<main, listener, stop, exit, starts, connectVars,
                    migrateVars>>

\* <-done
ReceivesDone ==
  /\ main = "waiting"
  /\ done = 1
  /\ done' = 0
  /\ main' = "stopping"
  /\ UNCHANGED <<listener, stop, exit, starts, connectVars, migrateVars>>

\* srv.Stop(ctx) calls Shutdown.
StopsServer ==
  /\ main = "stopping"
  /\ main' = "draining"
  /\ UNCHANGED <<listener, done, stop, exit, starts, connectVars, migrateVars>>

StopReturns(result) ==
  /\ main = "draining"
  /\ stop' = result
  /\ main' = "closing"
  /\ UNCHANGED <<listener, done, exit, starts, connectVars, migrateVars>>

\* Shutdown returns nil once every connection is idle, or the error of its
\* context after 10 s.
ShutdownReturns(idle) == (idle /\ StopReturns("nil")) \/ StopReturns("deadline")

\* The deferred pgClient.Close() returns when every connection has been given
\* back, and main with it.
ClosesPool(released) == main = "closing" /\ released /\ Ends("returned")

\* SIGKILL, a panic, a power failure.
Killed == main # "off" /\ Ends("killed")

-----------------------------------------------------------------------------
(* What the process does by itself, with requests that leave the server    *)
(* idle or not and the pool released or not.                               *)

StartUp ==
  \/ /\ main = "connecting"
     /\ ConnectStep
     /\ UNCHANGED <<processVars, migrateVars>>
  \/ /\ main = "migrating"
     /\ MigrateStep
     /\ UNCHANGED <<processVars, connectVars>>
  \/ Connected \/ NotConnected \/ MigrationsOver \/ Launches

Listens == ServerStarts \/ ServerClosed \/ SendsDone

WindsDown(idle, released) ==
  \/ ReceivesDone \/ StopsServer
  \/ ShutdownReturns(idle) \/ ClosesPool(released)

Progress(idle, released) == StartUp \/ Listens \/ WindsDown(idle, released)

LifecycleStep(idle, released) ==
  StartsProcess \/ Progress(idle, released) \/ Signal \/ Killed

\* The process on its own, no request ever under way.
Init == LifecycleInit
Next ==
  \/ StartsProcess
  \/ Progress(TRUE, TRUE)
  \/ Signal
  \/ Killed
  \/ main = "off" /\ starts = MaxStarts /\ UNCHANGED lifeVars
Spec == Init /\ [][Next]_lifeVars

\* main() and the goroutine are scheduled, and calls to the database return.
\* That the process is started, signalled or killed is never assumed.
FairSpec == Spec /\ WF_lifeVars(StartUp) /\ WF_lifeVars(Listens)
                 /\ WF_lifeVars(WindsDown(TRUE, TRUE))

-----------------------------------------------------------------------------
(* Properties                                                              *)

\* Every variable has its type.
TypeOK ==
  /\ main \in MainPCs
  /\ listener \in ListenerPCs
  /\ done \in 0..1
  /\ stop \in {"none", "nil", "deadline"}
  /\ exit \in Exits
  /\ starts \in 0..MaxStarts
  /\ try \in Try /\ clock \in Nat /\ ready \in Nat
  /\ schema \in Schema /\ migrate \in MigratePCs

\* A process configured to migrate never serves a request on a schema that is
\* old, half migrated or marked dirty, whichever start left it like that.
ServesOnlyMigrated == listener = "serving" /\ ShouldMigrate => Migrated

\* Every start comes to an end: the server serves, or the process is gone.  It
\* does not linger without a server, not even when the address is taken.
StartsServeOrEnd ==
  main = "connecting" ~> listener = "serving" \/ main = "off"
=============================================================================
