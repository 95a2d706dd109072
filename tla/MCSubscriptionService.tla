----------------------- MODULE MCSubscriptionService -----------------------
(***************************************************************************)
(* SubscriptionService on small instances.  The values are chosen so that  *)
(* every check of the code has a request that passes it and one that does  *)
(* not: two days, of which a body may start on one that has not come yet;  *)
(* names with a blank to trim, of nothing but blanks, and empty; bodies    *)
(* that leave fields out.                                                  *)
(***************************************************************************)
EXTENDS SubscriptionRefinement, TLC

CONSTANTS s1, s2, s3, stray, r1, r2, r3, alice, bob

MCPersonID == {alice, bob, NilUUID}
MCServiceName == {"", " ", "tv", " tv"}
MCTrim == [n \in MCServiceName |->
             CASE n \in {"", " "} -> "" [] n \in {"tv", " tv"} -> "tv"]

Body(owner, service, price, start, end) ==
  [owner |-> owner, service |-> service, price |-> price,
   start |-> start, end |-> end]

\* A running subscription; one that ended; one of tomorrow; one whose end
\* precedes its start; bodies without an owner, with an empty name, with a
\* name of blanks, without a price and a start; a negative price.
Running == Body(alice, " tv", 1, 1, Nil)
Ended == Body(bob, "tv", 2, 0, 1)
Tomorrow == Body(alice, "tv", 0, 2, 2)
Backwards == Body(alice, "tv", 1, 1, 0)
Ownerless == Body(Nil, "tv", 1, 0, Nil)
Nameless == Body(alice, "", 1, 0, Nil)
Blank == Body(alice, " ", 1, 0, Nil)
Bare == Body(alice, "tv", Nil, Nil, Nil)
Negative == Body(alice, "tv", -1, 0, Nil)

AllBodies ==
  {Running, Ended, Tomorrow, Backwards, Ownerless, Nameless, Blank, Bare,
   Negative}
TwoBodies == {Running, Ended}

Cost(owner, service, from, to) ==
  [owner |-> owner, service |-> service, from |-> from, to |-> to]
MCCostQueries ==
  {Cost(alice, "tv", Nil, Nil), Cost(alice, "tv", 1, 2),
   Cost(alice, "tv", 1, 1), Cost(NilUUID, "tv", 0, Nil), Cost(alice, "", Nil, 1)}
OneCostQuery == {Cost(alice, "tv", Nil, Nil)}

SeedSub == Body(alice, "tv", 1, 0, 0)
MCSeedRows ==
  {[sub |-> SeedSub, deleted |-> FALSE], [sub |-> SeedSub, deleted |-> TRUE]}
LiveSeed == {[sub |-> SeedSub, deleted |-> FALSE]}

RequestSymmetry == Permutations(Requests)
=============================================================================
