----------------------------- MODULE TotalCost ------------------------------
(***************************************************************************)
(* What Query and TotalCostAnswers of the service take for one step each:  *)
(* the loop in which Find of                                               *)
(* src/src/internal/storage/postgresql/subscriptions.go reads the rows of  *)
(* its SELECT off the connection, any of which may be the last that        *)
(* arrives, and the loop in which CalculateTotalSubscriptionsPrice of      *)
(* src/src/internal/service/impl.go adds up their prices in an int64.      *)
(*                                                                         *)
(* One request.  The SELECT sees one snapshot of the table, so the table   *)
(* does not change.  The order of the rows, ORDER BY id, is left open.     *)
(*                                                                         *)
(* An operator whose comment begins "A mistake" is a faulty variant of the *)
(* one that follows and no part of the specification.                      *)
(***************************************************************************)
EXTENDS StorageInterface, Sequences, FiniteSetsExt

CONSTANTS
  CostQueries,   \* the filters of the requests
  MaxInt64       \* math.MaxInt64, the largest price and the largest total

ASSUME CostQueryAssumption == CostQueries \subseteq Filter

ASSUME Int64Assumption ==
  /\ MaxInt64 \in Nat \ {0}
  /\ \A row \in SeedRows : row \in Row /\ row.sub.price \in 0..MaxInt64

VARIABLES
  table,    \* table[id]: the row of id in the snapshot, or Nil
  filter,   \* the filter of the request
  pc,
  rows,     \* the rows of the result that have not been read
  rowsErr,  \* rows.Err() # nil
  subs,     \* the slice Find returns, by the IDs of its elements
  added,    \* how many of them the service has added up
  total,    \* totalCost
  exact,    \* the same sum in integers without bound: not in the code
  answer    \* the status of the answer, 0 before it

vars == <<table, filter, pc, rows, rowsErr, subs, added, total, exact, answer>>

Int64 == (-MaxInt64 - 1)..MaxInt64
Modulus == 2 * (MaxInt64 + 1)

\* A mistake: the sum is not kept to its width.
PlusUnbounded(a, b) == a + b

\* A mistake: the sum is kept in half the width.
PlusInt32(a, b) ==
  IF a + b > MaxInt64 \div 2 THEN a + b - (MaxInt64 + 1) ELSE a + b

\* + of int64 for a price b, which is not negative.
Plus(a, b) == IF a + b > MaxInt64 THEN a + b - Modulus ELSE a + b

Selected ==
  {id \in SubscriptionID :
     /\ table[id] # Nil
     /\ ~table[id].deleted
     /\ Matches(filter, table[id].sub)}

Init ==
  /\ table \in [SubscriptionID -> SeedRows \cup {Nil}]
  /\ filter \in CostQueries
  /\ pc = "query"
  /\ rows = {}
  /\ rowsErr = FALSE
  /\ subs = << >>
  /\ added = 0
  /\ total = 0
  /\ exact = 0
  /\ answer = 0

Answers(status) ==
  /\ pc' = "answered"
  /\ answer' = status

-----------------------------------------------------------------------------
(* Find                                                                    *)

QueryReturns ==
  /\ pc = "query"
  /\ pc' = "next"
  /\ rows' = Selected
  /\ UNCHANGED <<table, filter, rowsErr, subs, added, total, exact, answer>>

QueryFails ==
  /\ pc = "query"
  /\ Answers(500)
  /\ UNCHANGED <<table, filter, rows, rowsErr, subs, added, total, exact>>

\* rows.Next() returns true and rows.Scan() nil.
RowScanned ==
  /\ pc = "next"
  /\ \E id \in rows :
       /\ subs' = Append(subs, id)
       /\ rows' = rows \ {id}
  /\ UNCHANGED <<table, filter, pc, rowsErr, added, total, exact, answer>>

\* rows.Scan() returns an error, and the loop goes on.  pgx has closed the rows
\* by then and keeps the error for rows.Err().
ScanFails ==
  /\ pc = "next"
  /\ rows # {}
  /\ rows' = {}
  /\ rowsErr' = TRUE
  /\ UNCHANGED <<table, filter, pc, subs, added, total, exact, answer>>

\* rows.Next() returns false although rows are missing, or their end is: the
\* connection is lost, the context cancelled, the statement terminated.
ResultBreaksOff ==
  /\ pc = "next"
  /\ ~rowsErr
  /\ pc' = "fetched"
  /\ rowsErr' = TRUE
  /\ UNCHANGED <<table, filter, rows, subs, added, total, exact, answer>>

\* rows.Next() returns false after the last row.
RowsEnd ==
  /\ pc = "next"
  /\ rows = {}
  /\ pc' = "fetched"
  /\ UNCHANGED <<table, filter, rows, rowsErr, subs, added, total, exact, answer>>

\* A mistake: rows.Err() is not looked at after the loop.
FindReturnsUnchecked ==
  /\ pc = "fetched"
  /\ pc' = "adding"
  /\ UNCHANGED <<table, filter, rows, rowsErr, subs, added, total, exact, answer>>

\* rows.Err() is looked at; its error is the service's ErrInternal.
FindReturns ==
  /\ pc = "fetched"
  /\ IF rowsErr THEN Answers(500) ELSE pc' = "adding" /\ UNCHANGED answer
  /\ UNCHANGED <<table, filter, rows, rowsErr, subs, added, total, exact>>

-----------------------------------------------------------------------------
(* CalculateTotalSubscriptionsPrice after Find                             *)

AddsPrice ==
  /\ pc = "adding"
  /\ added < Len(subs)
  /\ LET price == table[subs[added + 1]].sub.price
     IN total' = Plus(total, price) /\ exact' = exact + price
  /\ added' = added + 1
  /\ UNCHANGED <<table, filter, pc, rows, rowsErr, subs, answer>>

\* A mistake: the loop ends one element early.
AnswersTotalEarly ==
  /\ pc = "adding"
  /\ added >= Len(subs) - 1
  /\ Answers(200)
  /\ UNCHANGED <<table, filter, rows, rowsErr, subs, added, total, exact>>

\* The answer carries the total.
AnswersTotal ==
  /\ pc = "adding"
  /\ added = Len(subs)
  /\ Answers(200)
  /\ UNCHANGED <<table, filter, rows, rowsErr, subs, added, total, exact>>

Answered == pc = "answered" /\ UNCHANGED vars

Next ==
  \/ QueryReturns \/ QueryFails
  \/ RowScanned \/ ScanFails \/ ResultBreaksOff \/ RowsEnd \/ FindReturns
  \/ AddsPrice \/ AnswersTotal
  \/ Answered

Spec == Init /\ [][Next]_vars

-----------------------------------------------------------------------------
(* Properties                                                              *)

\* Every variable has its type; total keeps to its 64 bits.
TypeOK ==
  /\ table \in [SubscriptionID -> SeedRows \cup {Nil}]
  /\ filter \in CostQueries
  /\ pc \in {"query", "next", "fetched", "adding", "answered"}
  /\ rows \subseteq SubscriptionID
  /\ rowsErr \in BOOLEAN
  /\ subs \in Seq(SubscriptionID)
  /\ added \in 0..Len(subs)
  /\ total \in Int64
  /\ exact \in Nat
  /\ answer \in {0, 200, 500}

\* A total is that of every subscription the filter selects, each added once:
\* a result that broke off at any row, or a row that could not be read, ends in
\* a 500 although the loop "continues", and never in the total of the others.
EveryRowOnce ==
  answer = 200 =>
    /\ added = Len(subs)
    /\ {subs[k] : k \in 1..Len(subs)} = Selected
    /\ \A j, k \in 1..Len(subs) : subs[j] = subs[k] => j = k

\* As long as the sum of the prices is an int64 the total is that sum, whatever
\* the order in which the rows came.  (Each price is an int64; their sum need
\* not be, and nothing in the code looks.)
ExactUntilItWraps == exact <= MaxInt64 => total = exact

\* The number that is answered is the sum of the prices of the subscriptions
\* selected, reduced to an int64.
AnswerIsTheTotal ==
  answer = 200 =>
    total % Modulus =
      MapThenSumSet(LAMBDA id : table[id].sub.price, Selected) % Modulus
=============================================================================
