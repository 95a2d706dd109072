----------------------------- MODULE Connecting -----------------------------
(***************************************************************************)
(* NewClient of src/src/pkg/storage/postgresql/postgresql.go: the first    *)
(* connection to PostgreSQL, tried again with growing delays by            *)
(* doWithTries, because the database starts beside the program.            *)
(*                                                                         *)
(* Times are multiples of a unit; the clock counts from the start of the   *)
(* process and is read only here.                                          *)
(*                                                                         *)
(* An operator whose comment begins "A mistake" is a faulty variant of the *)
(* one that follows and no part of the specification.                      *)
(***************************************************************************)
EXTENDS Integers

CONSTANTS
  ConnectAttempts,   \* PostgresConfig.ConnectAttempts, 5 in main.go
  DelayFragment,     \* the first delay, 5 s
  AttemptTimeout,    \* the deadline of one attempt, 5 s
  ReadyTimes         \* when PostgreSQL may begin to accept this client

ASSUME ConnectingAssumption ==
  /\ ConnectAttempts \in Nat \ {0}
  /\ DelayFragment \in Nat \ {0}
  /\ AttemptTimeout \in Nat
  /\ ReadyTimes \subseteq Nat

VARIABLES
  try,     \* the local variables of doWithTries, and where it is
  clock,
  ready    \* PostgreSQL accepts every attempt begun from this time on, as far
           \* as the attempts made so far show

connectVars == <<try, clock, ready>>

Try == [pc: {"idle", "trying", "sleeping", "connected", "gave_up"},
        left: 0..ConnectAttempts, delay: Nat, factor: Nat]

ConnectInit ==
  /\ try = [pc |-> "idle", left |-> 0, delay |-> 0, factor |-> 0]
  /\ clock = 0
  /\ ready = 0

\* NewClient is called, in a process that has just started.
ConnectStarts ==
  /\ try' = [pc |-> "trying", left |-> ConnectAttempts,
             delay |-> DelayFragment, factor |-> 1]
  /\ clock' = 0
  /\ ready' \in ReadyTimes

\* fn() takes from no time at all to its deadline.  Whether it finds a
\* database that becomes ready meanwhile is open.
Attempt(pc) ==
  /\ try.pc = "trying"
  /\ \E d \in 0..AttemptTimeout : clock' = clock + d
  /\ try' = [try EXCEPT !.pc = pc]

AttemptSucceeds == Attempt("connected") /\ ready <= clock' /\ UNCHANGED ready

\* Any error of Connect fails the attempt, also one of a database that had been
\* ready before it began: it turns out not to be ready for good.
AttemptFails ==
  /\ Attempt("sleeping")
  /\ ready' = IF clock < ready THEN ready ELSE clock + 1

\* A mistake: the delay does not grow.
WakesUpAfterFixedDelay ==
  LET left == try.left - 1 IN
  /\ try.pc = "sleeping"
  /\ clock' = clock + try.delay
  /\ try' = [try EXCEPT !.pc = IF left = 0 THEN "gave_up" ELSE "trying",
                        !.left = left]
  /\ UNCHANGED ready

\* A mistake: the loop runs while attempts >= 0.
WakesUpOnceMore ==
  LET left == try.left - 1
      factor == try.factor + 1
  IN
  /\ try.pc = "sleeping"
  /\ clock' = clock + try.delay
  /\ try' = [pc |-> IF left < 0 THEN "gave_up" ELSE "trying",
             left |-> left, delay |-> try.delay * factor, factor |-> factor]
  /\ UNCHANGED ready

\* time.Sleep(delay), also after the last attempt, and the rest of the loop.
WakesUp ==
  LET left == try.left - 1
      factor == try.factor + 1
  IN
  /\ try.pc = "sleeping"
  /\ clock' = clock + try.delay
  /\ try' = [pc |-> IF left = 0 THEN "gave_up" ELSE "trying",
             left |-> left, delay |-> try.delay * factor, factor |-> factor]
  /\ UNCHANGED ready

ConnectStep == AttemptSucceeds \/ AttemptFails \/ WakesUp

-----------------------------------------------------------------------------
\* The time between the first attempt and the last when every one is refused at
\* once: delays of 1!, 2!, 3!, ... fragments.
Factorial[n \in Nat] == IF n = 0 THEN 1 ELSE n * Factorial[n - 1]
Waited[n \in Nat] ==
  IF n = 0 THEN 0 ELSE Waited[n - 1] + DelayFragment * Factorial[n]
Patience == Waited[ConnectAttempts - 1]

\* The program gives up only on a database that refused an attempt begun after
\* Patience: for the five attempts of main.go, 165 s, enough for PostgreSQL to
\* initialise an empty volume.  Whatever failed before, a database that accepts
\* connections from then on is connected to.
GivesUpOnlyAfterPatience == try.pc = "gave_up" => ready > Patience
=============================================================================
