-------------------------- MODULE StorageInterface --------------------------
(***************************************************************************)
(* The vocabulary of src/src/internal/storage/storage.go: what the table   *)
(* keeps of a subscription, the filter of Find, and what a query returns.  *)
(***************************************************************************)
EXTENDS Subscription, FiniteSets

CONSTANTS
  Requests,         \* HTTP requests; each is in at most one storage call
  SubscriptionID,   \* UUIDs
  SeedRows          \* rows the table may hold from an earlier run

Row == [sub: Sub, deleted: BOOLEAN]

ASSUME RequestAssumption == IsFiniteSet(Requests)

\* nil is no row, subscription or UUID.
ASSUME NilRowAssumption ==
  Nil \notin Row /\ Nil \notin Sub /\ Nil \notin SubscriptionID

\* SubscriptionsFilter; NilUUID, Empty and Nil leave a field unconstrained.
Filter == [owner: PersonID, service: ServiceName,
           from: OptionalDate, to: OptionalDate]

\* The WHERE clause Find builds from its filter.
Matches(f, s) ==
  /\ f.owner # NilUUID => s.owner = f.owner
  /\ f.service # Empty => s.service = f.service
  /\ f.from # Nil => s.start >= f.from
  /\ f.to # Nil => s.start <= f.to

\* What a query returns: rows[id] is the subscription of id, Nil if id is not
\* among the rows.
ResultRows == [SubscriptionID -> Sub \cup {Nil}]

ASSUME NilResultAssumption == Nil \notin ResultRows

NoRows == [id \in SubscriptionID |-> Nil]
OneRow(id, sub) == [NoRows EXCEPT ![id] = sub]
=============================================================================
