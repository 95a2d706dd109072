---------------------------- MODULE MCTotalCost -----------------------------
(***************************************************************************)
(* TotalCost with integers of three bits, so that a total wraps around     *)
(* after two or three of the largest prices.                               *)
(***************************************************************************)
EXTENDS TotalCost

CONSTANTS s1, s2, s3, alice, bob

MCPersonID == {alice, bob, NilUUID}
MCServiceName == {"", "tv"}
MCTrim == [n \in MCServiceName |-> n]

Sub1(owner, price, start) ==
  [owner |-> owner, service |-> "tv", price |-> price, start |-> start,
   end |-> Nil]

\* Subscriptions of alice, one of them too early for the filter with dates, one
\* of bob, and a deleted one.
MCSeedRows ==
  {[sub |-> Sub1(alice, p, 2), deleted |-> FALSE] : p \in 0..MaxInt64}
  \cup {[sub |-> Sub1(alice, 1, 0), deleted |-> FALSE],
        [sub |-> Sub1(bob, 2, 2), deleted |-> FALSE],
        [sub |-> Sub1(alice, 2, 2), deleted |-> TRUE]}

MCCostQueries ==
  {[owner |-> alice, service |-> "tv", from |-> Nil, to |-> Nil],
   [owner |-> alice, service |-> "tv", from |-> 1, to |-> 2]}
=============================================================================
