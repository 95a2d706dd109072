--------------------- MODULE SubscriptionContentProofs ---------------------
(***************************************************************************)
(* Proofs about what the rows of the table hold: every subscription is     *)
(* valid, and is the whole of what one request asked for.                  *)
(***************************************************************************)
EXTENDS SubscriptionSafetyProofs

-----------------------------------------------------------------------------
(* Valid subscriptions                                                     *)

\* What NewSubscription and the mutators accept is valid, that day and later.
LEMMA NewSubscriptionValid ==
  ASSUME NEW a \in Sub, NEW d \in Nat, NewSubscriptionAccepted(a, d)
  PROVE  ValidSub(NewSubscription(a), d)
  BY DEF Sub, NewSubscriptionAccepted, NewSubscription, ValidSub, OptionalDate

LEMMA UpdateValid ==
  ASSUME NEW s \in Sub, NEW u \in Sub, NEW d \in Nat, UpdateAccepted(s, u, d)
  PROVE  ValidSub(u, d)
  BY DEF Sub, UpdateAccepted, Restarted, ResetEndTime, ChangeOwner,
         ChangeOwnerAccepted, ChangeStartTimeAccepted, ChangeStartTime,
         ChangeEndTimeAccepted, ChangePriceAccepted,
         ChangeServiceNameAccepted, ValidSub

LEMMA StillValid ==
  ASSUME NEW s \in Sub, NEW d \in Nat, NEW e \in Nat, d <= e, ValidSub(s, d)
  PROVE  ValidSub(s, e)
  BY DEF Sub, ValidSub, Date

CallsAreValid ==
  \A r \in Requests :
    call[r].method \in {"Add", "Update"} => ValidSub(call[r].sub, now)

ValidInv == SafetyInv /\ StoredSubsAreValid /\ CallsAreValid

\* The subscription of a call changes only when a call to store it begins.
LEMMA CallSubStep ==
  ASSUME TypeInv, LocalInv, NEW r \in Requests, Step(r),
         call'[r].method \in {"Add", "Update"},
         ~(call'[r].method = call[r].method /\ call'[r].sub = call[r].sub)
  PROVE  ValidSub(call'[r].sub, now)
  <1>1. \A method, id, sub, filter :
          /\ Invocation(method, id, sub, filter).method = method
          /\ Invocation(method, id, sub, filter).sub = sub
    BY DEF Invocation, NoCall
  <1>2. CASE Handles(r)
    <2>1. ASSUME NEW op, NEW id, NEW args, NEW method, NEW sub, NEW filter,
                 Start(r, op, id, args, Invocation(method, id, sub, filter))
          PROVE  call'[r].method = method /\ call'[r].sub = sub
      BY <1>1, <2>1 DEF Start, TypeInv, TypeOK
    <2>2. ASSUME NEW op, NEW id, NEW args, Reject(r, op, id, args)
          PROVE  FALSE
      BY <2>2 DEF Reject, storageVars
    <2>3. CASE BindFails(r)
      BY <2>2, <2>3 DEF BindFails
    <2>4. CASE PostSubscriptions(r)
      <3> PICK a \in Bodies :
            \/ /\ NewSubscriptionAccepted(a, now)
               /\ \E id \in FreshIDs :
                    Start(r, "POST", id, a,
                          Invocation("Add", id, NewSubscription(a), Nil))
            \/ Reject(r, "POST", Nil, a)
        BY <2>4 DEF PostSubscriptions
      <3>1. NewSubscriptionAccepted(a, now)
            /\ call'[r].sub = NewSubscription(a)
        BY <2>1, <2>2
      <3> QED
        BY <3>1, BodiesType, NewSubscriptionValid DEF TypeInv, TypeOK
    <2>5. CASE PatchSubscriptionsId(r)
      BY <2>1, <2>5 DEF PatchSubscriptionsId
    <2>6. CASE DeleteSubscriptionsId(r)
      BY <2>1, <2>6 DEF DeleteSubscriptionsId
    <2>7. CASE GetSubscriptionsId(r)
      BY <2>1, <2>7 DEF GetSubscriptionsId
    <2>8. CASE GetSubscriptions(r)
      BY <2>1, <2>8 DEF GetSubscriptions
    <2>9. CASE GetSubscriptionsTotalCost(r)
      BY <2>1, <2>2, <2>9 DEF GetSubscriptionsTotalCost
    <2> QED
      BY <1>2, <2>3, <2>4, <2>5, <2>6, <2>7, <2>8, <2>9 DEF Handles
  <1>3. CASE Continues(r)
    <2>1. PatchUpdates(r)
      BY <1>3
         DEF Continues, PostAnswers, PatchAnswers, DeleteAnswers, GetAnswers,
             ListAnswers, TotalCostAnswers, Answer, storageVars
    <2> DEFINE id == req[r].id
               found == call[r].rows[id]
               u == req[r].args
    <2>2. /\ call[r].err = "nil" /\ UpdateAccepted(found, u, now)
          /\ call' = [call EXCEPT ![r] =
                        Invocation("Update", id, Updated(found, u), Nil)]
      BY <2>1 DEF PatchUpdates, Answer, storageVars
    <2>3. found \in Sub /\ u \in Sub
      BY <2>1, <2>2 DEF PatchUpdates, Returned, TypeInv, CallOK
    <2>4. call'[r].sub = Updated(found, u)
      BY <1>1, <2>2 DEF TypeInv, TypeOK
    <2>5. Updated(found, u) = u
      BY <2>3, UpdateOverwrites
    <2> QED BY <2>2, <2>3, <2>4, <2>5, UpdateValid DEF TypeInv, TypeOK
  <1>4. CASE StorageOnly(r)
    <2>1. ASSUME NEW pc, Goto(r, pc)
          PROVE  FALSE
      BY <2>1 DEF Goto, Call, TypeInv, TypeOK
    <2>2. ASSUME NEW err, NEW rows, Return(r, err, rows)
          PROVE  FALSE
      BY <2>2 DEF Return, Call, TypeInv, TypeOK
    <2>3. \/ UNCHANGED call \/ (\E pc : Goto(r, pc))
          \/ (\E err, rows : Return(r, err, rows))
      BY <1>4
         DEF StorageOnly, StorageStep, CallProceeds, CallFails, DbEnds,
             BeginTx, ExecInsert, ExecUpdate, ExecRemove, Exec, SendCommit,
             CommitReturns, AcquireForQuery, QueryRow, Query, BeginFails,
             ExecFails, CommitFails, QueryFails, DbCommit, DbAbort
    <2> QED BY <2>1, <2>2, <2>3
  <1> QED BY <1>2, <1>3, <1>4 DEF Step

LEMMA ClockStep ==
  ASSUME TypeInv, [Next]_vars
  PROVE  /\ now' \in Nat /\ now <= now'
         /\ \/ \E r \in Requests : Step(r)
            \/ UNCHANGED <<table, tx, conns, call, req>>
  <1>1. ASSUME NEW r \in Requests, Step(r)
        PROVE  UNCHANGED now
    <2>1. CASE Handles(r)
      BY <2>1
         DEF Handles, BindFails, PostSubscriptions, PatchSubscriptionsId,
             DeleteSubscriptionsId, GetSubscriptionsId, GetSubscriptions,
             GetSubscriptionsTotalCost, Start, Reject
    <2>2. CASE Continues(r)
      BY <2>2
         DEF Continues, PostAnswers, PatchUpdates, PatchAnswers, DeleteAnswers,
             GetAnswers, ListAnswers, TotalCostAnswers, Answer
    <2>3. CASE StorageOnly(r)
      BY <2>3 DEF StorageOnly, serviceVars
    <2> QED BY <1>1, <2>1, <2>2, <2>3 DEF Step
  <1>2. CASE Tick \/ UNCHANGED vars
    BY <1>2 DEF Tick, vars, storageVars, TypeInv, TypeOK
  <1>3. CASE \E r \in Requests : Step(r)
    BY <1>1, <1>3 DEF TypeInv, TypeOK
  <1> QED BY <1>2, <1>3 DEF Next, Quiet, Step, StorageOnly

LEMMA ValidNext ==
  ASSUME ValidInv, [Next]_vars
  PROVE  ValidInv'
  <1>1. SafetyInv /\ TypeInv /\ LocalInv /\ now \in Nat
    BY DEF ValidInv, SafetyInv, TypeInv, TypeOK
  <1>2. SafetyInv'
    BY <1>1, SafetyNext
  <1>3. now' \in Nat /\ now <= now'
    BY <1>1, ClockStep
  <1>4. ASSUME NEW id \in SubscriptionID, table'[id] # Nil
        PROVE  ValidSub(table'[id].sub, now')
    <2>1. table'[id].sub \in Sub
      BY <1>2, <1>4 DEF SafetyInv, TypeInv, TypeOK, Row
    <2>2. CASE table'[id] = table[id]
      BY <1>1, <1>3, <1>4, <2>1, <2>2, StillValid
         DEF ValidInv, StoredSubsAreValid
    <2>3. CASE table'[id] # table[id]
      <3>1. PICK r \in Requests : Step(r)
        BY <1>1, <2>3, ClockStep
      <3>2. /\ tx[r].state = "committing" /\ tx[r].row # Nil
            /\ tx[r].id = id /\ table'[id] = tx[r].row
        BY <1>1, <2>3, <3>1, RowStep
      <3>3. call[r].method \in WriteMethods /\ StagedOK(r) /\ MethodOK(r)
        BY <1>1, <3>2 DEF LocalInv, LocalOK, ProgressOK
      <3>4. CASE call[r].method \in {"Add", "Update"}
        <4>1. tx[r].row.sub = call[r].sub
          BY <3>2, <3>3, <3>4 DEF StagedOK, MethodOK
        <4>2. ValidSub(tx[r].row.sub, now)
          BY <3>4, <4>1 DEF ValidInv, CallsAreValid
        <4> QED BY <1>1, <1>3, <2>1, <3>2, <4>2, StillValid
      <3>5. CASE call[r].method = "RemoveByID"
        <4>1. tx[r].row.sub = table[id].sub /\ table[id] # Nil
          BY <1>1, <3>2, <3>5 DEF SafetyInv, WriteInv, RemoveOK, OverwriteOK,
                                         Pending
        <4>2. ValidSub(tx[r].row.sub, now)
          BY <4>1 DEF ValidInv, StoredSubsAreValid
        <4> QED BY <1>1, <1>3, <2>1, <3>2, <4>2, StillValid
      <3> QED BY <3>3, <3>4, <3>5 DEF WriteMethods
    <2> QED BY <2>2, <2>3
  <1>5. ASSUME NEW r \in Requests, call'[r].method \in {"Add", "Update"}
        PROVE  ValidSub(call'[r].sub, now')
    <2>1. call'[r].sub \in Sub
      BY <1>2, <1>5 DEF SafetyInv, TypeInv, CallOK
    <2>2. CASE call'[r].method = call[r].method /\ call'[r].sub = call[r].sub
      BY <1>1, <1>3, <1>5, <2>1, <2>2, StillValid DEF ValidInv, CallsAreValid
    <2>3. CASE ~(call'[r].method = call[r].method /\ call'[r].sub = call[r].sub)
      <3>1. PICK p \in Requests : Step(p)
        BY <1>1, <2>3, ClockStep
      <3>2. p = r
        BY <1>1, <2>3, <3>1, Frame
      <3>3. ValidSub(call'[r].sub, now)
        BY <1>1, <1>5, <2>3, <3>1, <3>2, CallSubStep
      <3> QED BY <1>1, <1>3, <2>1, <3>3, StillValid
    <2> QED BY <2>2, <2>3
  <1> QED
    BY <1>2, <1>4, <1>5 DEF ValidInv, StoredSubsAreValid, CallsAreValid

\* The table holds only valid subscriptions, for any clients, however late a
\* transaction commits after its values were checked.
THEOREM StoredSubsValid == Spec => []StoredSubsAreValid
  <1>1. Init => ValidInv
    <2> SUFFICES ASSUME Init
                 PROVE  ValidInv
      OBVIOUS
    <2>1. SafetyInv
      BY SafetyInit
    <2>2. StoredSubsAreValid
      BY SeedAssumption DEF Init, StorageInit, StoredSubsAreValid
    <2>3. CallsAreValid
      BY DEF Init, StorageInit, CallsAreValid, NoCall
    <2> QED BY <2>1, <2>2, <2>3 DEF ValidInv
  <1>2. ValidInv /\ [Next]_vars => ValidInv'
    BY ValidNext
  <1>3. ValidInv => StoredSubsAreValid
    BY DEF ValidInv
  <1> QED BY <1>1, <1>2, <1>3, PTL DEF Spec

-----------------------------------------------------------------------------
(* Whole subscriptions                                                     *)

ReadOps == {"GET", "LIST", "TOTAL"}

TableIsAuthored ==
  \A id \in SubscriptionID : table[id] # Nil => Authored(id, table[id].sub)
RowsAreAuthored ==
  \A r \in Requests : \A id \in SubscriptionID :
    call[r].rows[id] # Nil => Authored(id, call[r].rows[id])
BodiesAreAuthored ==
  \A r \in Requests : \A id \in SubscriptionID :
    req[r].op \in ReadOps /\ req[r].body[id] # Nil
      => Authored(id, req[r].body[id])

WholeInv == SafetyInv /\ TableIsAuthored /\ RowsAreAuthored /\ BodiesAreAuthored

\* A request that is no longer new keeps what it was asked for.
LEMMA RequestStep ==
  ASSUME TypeInv, NEW r \in Requests, Step(r), req[r].pc # "new"
  PROVE  /\ req'[r].op = req[r].op /\ req'[r].id = req[r].id
         /\ req'[r].args = req[r].args
  <1>1. req[r] \in Request
    BY DEF TypeInv, TypeOK
  <1>2. ~Handles(r)
    BY DEF Handles, BindFails, PostSubscriptions, PatchSubscriptionsId,
           DeleteSubscriptionsId, GetSubscriptionsId, GetSubscriptions,
           GetSubscriptionsTotalCost, Arrives
  <1>3. CASE Continues(r)
    BY <1>1, <1>3
       DEF Continues, PostAnswers, PatchUpdates, PatchAnswers, DeleteAnswers,
           GetAnswers, ListAnswers, TotalCostAnswers, Answer, TypeInv, TypeOK,
           Request
  <1> QED BY <1>2, <1>3 DEF Step, StorageOnly, serviceVars

\* Whoever has written a subscription has, from then on.
LEMMA AuthoredStable ==
  ASSUME TypeInv, LocalInv, NEW p \in Requests, Step(p), NEW id, NEW sub,
         Authored(id, sub)
  PROVE  Authored(id, sub)'
  <1>1. CASE \E row \in SeedRows : sub = row.sub
    BY <1>1 DEF Authored
  <1>2. ASSUME NEW r \in Requests, req[r].id = id, tx[r].state = "committed",
               \/ req[r].op = "POST" /\ sub = NewSubscription(req[r].args)
               \/ req[r].op = "PATCH" /\ sub = req[r].args
        PROVE  Authored(id, sub)'
    <2>1. req[r].pc # "new"
      BY <1>2 DEF LocalInv, LocalOK, AnswerOK, NoTx
    <2>2. /\ req'[r].op = req[r].op /\ req'[r].id = req[r].id
          /\ req'[r].args = req[r].args
      BY <2>1, RequestStep, Frame
    <2>3. tx'[r].state = "committed"
      <3>1. CASE p # r
        BY <1>2, <3>1, Frame
      <3>2. CASE p = r
        BY <1>2, <3>2, TxStep
      <3> QED BY <3>1, <3>2
    <2> QED BY <1>2, <2>2, <2>3 DEF Authored
  <1> QED BY <1>1, <1>2 DEF Authored

\* The result of a call is what it had, nothing, or rows of the table.
LEMMA RowsStep ==
  ASSUME TypeInv, NEW r \in Requests, Step(r)
  PROVE  \/ call'[r].rows = call[r].rows
         \/ call'[r].rows = NoRows
         \/ \E ids \in SUBSET LiveIDs : call'[r].rows = SubsOf(ids)
  <1>1. ASSUME NEW method, NEW id, NEW sub, NEW filter,
               call' = [call EXCEPT ![r] = Invocation(method, id, sub, filter)]
        PROVE  call'[r].rows = NoRows
    <2>1. Invocation(method, id, sub, filter).rows = NoRows
      BY DEF Invocation, NoCall
    <2> QED BY <1>1, <2>1 DEF TypeInv, TypeOK
  <1>2. CASE Handles(r)
    <2>1. ASSUME NEW op, NEW id, NEW args, NEW method, NEW sub, NEW filter,
                 Start(r, op, id, args, Invocation(method, id, sub, filter))
          PROVE  call'[r].rows = NoRows
      BY <1>1, <2>1 DEF Start
    <2>2. ASSUME NEW op, NEW args, Reject(r, op, Nil, args)
          PROVE  UNCHANGED call
      BY <2>2 DEF Reject, storageVars
    <2> QED BY <1>2, <2>1, <2>2, HandlesForm
  <1>3. CASE Continues(r)
    BY <1>1, <1>3
       DEF Continues, PostAnswers, PatchUpdates, PatchAnswers, DeleteAnswers,
           GetAnswers, ListAnswers, TotalCostAnswers, Answer, storageVars
  <1>4. CASE StorageOnly(r)
    <2>1. ASSUME NEW pc, Goto(r, pc)
          PROVE  call'[r].rows = call[r].rows
      BY <2>1 DEF Goto, Call, TypeInv, TypeOK
    <2>2. ASSUME NEW err, NEW rows, Return(r, err, rows)
          PROVE  call'[r].rows = rows
      BY <2>2 DEF Return, Call, TypeInv, TypeOK
    <2>3. CASE QueryRow(r)
      BY <2>2, <2>3 DEF QueryRow
    <2>4. CASE Query(r)
      BY <2>2, <2>4 DEF Query
    <2>5. CASE CallFails(r) \/ CommitReturns(r)
      BY <2>2, <2>5
         DEF CallFails, BeginFails, ExecFails, CommitFails, QueryFails,
             CommitReturns
    <2>6. CASE \/ BeginTx(r) \/ ExecInsert(r) \/ ExecUpdate(r) \/ ExecRemove(r)
               \/ SendCommit(r) \/ AcquireForQuery(r)
      BY <2>1, <2>6
         DEF BeginTx, ExecInsert, ExecUpdate, ExecRemove, Exec, SendCommit,
             AcquireForQuery
    <2>7. CASE DbEnds(r)
      BY <2>7 DEF DbEnds, DbCommit, DbAbort
    <2> QED
      BY <1>4, <2>3, <2>4, <2>5, <2>6, <2>7
         DEF StorageOnly, StorageStep, CallProceeds
  <1> QED BY <1>2, <1>3, <1>4 DEF Step

\* The body of the answer to a read is what the storage returned.
LEMMA BodyStep ==
  ASSUME TypeInv, NEW r \in Requests, Step(r), req'[r].op \in ReadOps
  PROVE  \/ req'[r].op = req[r].op /\ req'[r].body = req[r].body
         \/ req'[r].body = NoRows
         \/ req'[r].body = call[r].rows
  <1> USE DEF ReadOps
  <1>1. req[r] \in Request
    BY DEF TypeInv, TypeOK
  <1>2. CASE Handles(r)
    <2>1. ASSUME NEW op, NEW id, NEW args, NEW invocation,
                 Start(r, op, id, args, invocation)
          PROVE  req'[r].body = NoRows
      BY <2>1 DEF Start, NoRequest, TypeInv, TypeOK
    <2>2. ASSUME NEW op, NEW args, Reject(r, op, Nil, args)
          PROVE  req'[r].body = NoRows
      BY <2>2 DEF Reject, NoRequest, TypeInv, TypeOK
    <2> QED BY <1>2, <2>1, <2>2, HandlesForm
  <1>3. CASE Continues(r)
    <2>1. ASSUME NEW status, NEW body, Answer(r, status, body)
          PROVE  req'[r].body = body /\ req'[r].op = req[r].op
      BY <1>1, <2>1 DEF Answer, TypeInv, TypeOK, Request
    <2>2. CASE PostAnswers(r) \/ PatchAnswers(r) \/ PatchUpdates(r)
      BY <1>1, <2>1, <2>2
         DEF PostAnswers, PatchAnswers, PatchUpdates, Returned
    <2>3. CASE \/ DeleteAnswers(r) \/ GetAnswers(r) \/ ListAnswers(r)
               \/ TotalCostAnswers(r)
      BY <2>1, <2>3
         DEF DeleteAnswers, GetAnswers, ListAnswers, TotalCostAnswers
    <2> QED BY <1>3, <2>2, <2>3 DEF Continues
  <1>4. CASE StorageOnly(r)
    BY <1>4 DEF StorageOnly, serviceVars
  <1> QED BY <1>2, <1>3, <1>4 DEF Step

LEMMA NoRowsEmpty ==
  ASSUME NEW id \in SubscriptionID
  PROVE  NoRows[id] = Nil
  BY DEF NoRows

\* The row a commit leaves is the whole of what its request asked for, or a
\* removed row, which keeps what was there.
LEMMA TableAuthoredStep ==
  ASSUME WholeInv, NEW p \in Requests, Step(p),
         NEW id \in SubscriptionID, table'[id] # Nil
  PROVE  Authored(id, table[id].sub)'
  <1>1. SafetyInv /\ TypeInv /\ LocalInv
    BY DEF WholeInv, SafetyInv
  <1>2. CASE table'[id] = table[id]
    <2>1. PICK sub : sub = table[id].sub
      OBVIOUS
    <2>2. Authored(id, sub)
      BY <1>2, <2>1 DEF WholeInv, TableIsAuthored
    <2>3. Authored(id, sub)'
      BY <1>1, <2>2, AuthoredStable
    <2> QED BY <1>2, <2>1, <2>3 DEF Authored
  <1>3. CASE table'[id] # table[id]
    <2>1. /\ tx[p].state = "committing" /\ tx'[p].state = "committed"
          /\ tx[p].id = id /\ req[p].id = id /\ UNCHANGED req
          /\ tx[p].row # Nil /\ table'[id] = tx[p].row
      BY <1>1, <1>3, RowStep
    <2>2. call[p].method \in WriteMethods /\ StagedOK(p) /\ MethodOK(p)
      BY <1>1, <2>1 DEF LocalInv, LocalOK, ProgressOK
    <2>3. CASE call[p].method \in {"Add", "Update"}
      <3>1. \/ req[p].op = "POST" /\ tx[p].row.sub = NewSubscription(req[p].args)
            \/ req[p].op = "PATCH" /\ tx[p].row.sub = req[p].args
        BY <2>1, <2>2, <2>3 DEF StagedOK, MethodOK
      <3> QED BY <2>1, <3>1 DEF Authored
    <2>4. CASE call[p].method = "RemoveByID"
      <3>1. tx[p].row.sub = table[id].sub /\ table[id] # Nil
        BY <1>1, <2>1, <2>4 DEF SafetyInv, WriteInv, RemoveOK, OverwriteOK,
                                         Pending
      <3>2. PICK sub : sub = table[id].sub
        OBVIOUS
      <3>3. Authored(id, sub)
        BY <3>1, <3>2 DEF WholeInv, TableIsAuthored
      <3>4. Authored(id, sub)'
        BY <1>1, <3>3, AuthoredStable
      <3> QED BY <2>1, <3>1, <3>2, <3>4 DEF Authored
    <2> QED BY <2>2, <2>3, <2>4 DEF WriteMethods
  <1> QED BY <1>2, <1>3

LEMMA RowsAuthoredStep ==
  ASSUME WholeInv, NEW p \in Requests, Step(p), NEW r \in Requests,
         NEW id \in SubscriptionID, call'[r].rows[id] # Nil
  PROVE  Authored(id, call[r].rows[id])'
  <1>1. TypeInv /\ LocalInv
    BY DEF WholeInv, SafetyInv
  <1>2. PICK sub : sub = call'[r].rows[id]
    OBVIOUS
  <1>3. Authored(id, sub)
    <2>1. CASE call'[r].rows = call[r].rows
      BY <1>2, <2>1 DEF WholeInv, RowsAreAuthored
    <2>2. ASSUME NEW ids \in SUBSET LiveIDs, call'[r].rows = SubsOf(ids)
          PROVE  Authored(id, sub)
      <3>1. id \in ids /\ sub = table[id].sub
        BY <1>2, <2>2 DEF SubsOf
      <3> QED BY <3>1 DEF LiveIDs, Live, WholeInv, TableIsAuthored
    <2>3. call'[r].rows # NoRows
      BY NoRowsEmpty
    <2> QED BY <1>1, <2>1, <2>2, <2>3, RowsStep, Frame
  <1>4. Authored(id, sub)'
    BY <1>1, <1>3, AuthoredStable
  <1> QED BY <1>2, <1>4 DEF Authored

LEMMA BodyAuthoredStep ==
  ASSUME WholeInv, NEW p \in Requests, Step(p), NEW r \in Requests,
         NEW id \in SubscriptionID, req'[r].op \in ReadOps,
         req'[r].body[id] # Nil
  PROVE  Authored(id, req[r].body[id])'
  <1>1. TypeInv /\ LocalInv
    BY DEF WholeInv, SafetyInv
  <1>2. PICK sub : sub = req'[r].body[id]
    OBVIOUS
  <1>3. Authored(id, sub)
    <2>1. CASE req'[r].op = req[r].op /\ req'[r].body = req[r].body
      BY <1>2, <2>1 DEF WholeInv, BodiesAreAuthored
    <2>2. CASE req'[r].body = call[r].rows
      BY <1>2, <2>2 DEF WholeInv, RowsAreAuthored
    <2>3. req'[r].body # NoRows
      BY NoRowsEmpty
    <2> QED BY <1>1, <2>1, <2>2, <2>3, BodyStep, Frame
  <1>4. Authored(id, sub)'
    BY <1>1, <1>3, AuthoredStable
  <1> QED BY <1>2, <1>4 DEF Authored

LEMMA WholeNext ==
  ASSUME WholeInv, [Next]_vars
  PROVE  WholeInv'
  <1>1. SafetyInv'
    BY SafetyNext DEF WholeInv
  <1>2. ASSUME NEW p \in Requests, Step(p)
        PROVE  TableIsAuthored' /\ RowsAreAuthored' /\ BodiesAreAuthored'
    <2>1. TableIsAuthored'
      BY <1>2, TableAuthoredStep DEF TableIsAuthored, Authored
    <2>2. RowsAreAuthored'
      BY <1>2, RowsAuthoredStep DEF RowsAreAuthored, Authored
    <2>3. BodiesAreAuthored'
      BY <1>2, BodyAuthoredStep DEF BodiesAreAuthored, Authored
    <2> QED BY <2>1, <2>2, <2>3
  <1>3. CASE UNCHANGED <<table, tx, conns, call, req>>
    <2>1. TableIsAuthored'
      BY <1>3 DEF WholeInv, TableIsAuthored, Authored
    <2>2. RowsAreAuthored'
      BY <1>3 DEF WholeInv, RowsAreAuthored, Authored
    <2>3. BodiesAreAuthored'
      BY <1>3 DEF WholeInv, BodiesAreAuthored, Authored
    <2> QED BY <1>1, <2>1, <2>2, <2>3 DEF WholeInv
  <1> QED BY <1>1, <1>2, <1>3, NextSteps DEF WholeInv

LEMMA WholeInit == Init => WholeInv
  <1> SUFFICES ASSUME Init
               PROVE  WholeInv
    OBVIOUS
  <1>1. SafetyInv
    BY SafetyInit
  <1>2. TableIsAuthored
    BY DEF Init, StorageInit, TableIsAuthored, Authored
  <1>3. RowsAreAuthored
    BY NoRowsEmpty DEF Init, StorageInit, RowsAreAuthored, NoCall
  <1>4. BodiesAreAuthored
    BY NoRowsEmpty DEF Init, BodiesAreAuthored, NoRequest
  <1> QED BY <1>1, <1>2, <1>3, <1>4 DEF WholeInv

LEMMA WholeFollows == WholeInv => NoTornSubscription
  BY DEF WholeInv, TableIsAuthored, BodiesAreAuthored, NoTornSubscription,
         ReadOps

\* No row and no answer to a read mixes what different requests asked for, or
\* shows what was never committed, for any number of concurrent requests.
THEOREM SubscriptionsWhole == Spec => []NoTornSubscription
  <1>1. WholeInv /\ [Next]_vars => WholeInv'
    BY WholeNext
  <1> QED BY <1>1, WholeInit, WholeFollows, PTL DEF Spec
=============================================================================
