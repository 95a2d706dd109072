----------------------- MODULE SubscriptionRefinement -----------------------
(***************************************************************************)
(* The service implements AtomicSubscriptions: a write takes effect when   *)
(* the database commits it, a read when its SELECT runs.                   *)
(***************************************************************************)
EXTENDS SubscriptionService

\* What the storage has returned to a request that only reads.
Seen(r) ==
  IF /\ req[r].op \in {"GET", "LIST", "TOTAL"}
     /\ At(r, "returned")
     /\ call[r].err # "error"
  THEN call[r].rows
  ELSE Nil

Committed == [r \in Requests |-> tx[r].state = "committed"]
SeenRows == [r \in Requests |-> Seen(r)]

Atomic == INSTANCE AtomicSubscriptions WITH
  done <- Committed,
  seen <- SeenRows

\* Every operation appears to take effect in one step between its arrival and
\* its answer, although it reads, stages, commits and answers in steps of its
\* own, concurrently with others and with failures at each of them.
Linearizable == Atomic!Spec
=============================================================================
