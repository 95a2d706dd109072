------------------------------ MODULE MCSystem ------------------------------
(***************************************************************************)
(* System on small instances: one attempt to connect and no migration,     *)
(* which Lifecycle is checked with at full length.                         *)
(***************************************************************************)
EXTENDS System, TLC

CONSTANTS s1, stray, r1, r2, alice

MCPersonID == {alice, NilUUID}
MCServiceName == {"", "tv"}
MCTrim == [n \in MCServiceName |-> n]

Cheap == [owner |-> alice, service |-> "tv", price |-> 1, start |-> 0,
          end |-> Nil]
Dear == [Cheap EXCEPT !.price = 2]

MCPayloads == {Dear}
MCSeedRows == {[sub |-> Cheap, deleted |-> FALSE]}

RequestSymmetry == Permutations(Requests)

\* For liveness there is a row to compete for, and every request is for it.
MCInit == SystemInit /\ table[s1] # Nil

MCNext ==
  \/ \E r \in Requests : Accepts(r) /\ req'[r].id # stray
  \/ \E r \in Requests : Runs(r) \/ Settles(r)
  \/ ProcessSteps(Process!LifecycleStep(Idle, Released))
  \/ DayPasses
  \/ Stays

MCFairSpec == MCInit /\ [][MCNext]_systemVars /\ SystemFairness
=============================================================================
