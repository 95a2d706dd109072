--------------------- MODULE SubscriptionServiceProofs ---------------------
(***************************************************************************)
(* Proofs about SubscriptionService, for any number of requests, IDs,      *)
(* connections, bodies and days.                                           *)
(***************************************************************************)
EXTENDS SubscriptionService, FiniteSetTheorems, TLAPS

-----------------------------------------------------------------------------
(* The domain model                                                        *)

\* NewSubscription makes a subscription of the arguments of a create.
LEMMA NewSubscriptionType ==
  ASSUME NEW a \in Sub
  PROVE  NewSubscription(a) \in Sub
  BY NameAssumption DEF NewSubscription, Sub

\* Binding yields the arguments of a create or an update.
LEMMA BodiesType == Bodies \subseteq Sub
  <1> SUFFICES ASSUME NEW p \in Payload PROVE Decode(p) \in Sub
    BY ClientAssumption DEF Bodies
  <1> QED
    BY PersonAssumption, NameAssumption
    DEF Decode, Payload, Sub, Date, OptionalDate

\* UpdateExistingSubscription stores what the client sent, whatever it read:
\* the mutators leave no field of the row behind, ResetEndTime included, and
\* whether they accept the arguments does not depend on the row either.  So
\* two PATCHes that race cannot mix their fields.
THEOREM UpdateOverwrites ==
  ASSUME NEW s \in Sub, NEW t \in Sub, NEW u \in Sub, NEW d \in Nat
  PROVE  /\ Updated(s, u) = u
         /\ UpdateAccepted(s, u, d) <=> UpdateAccepted(t, u, d)
  <1>1. Updated(s, u) = u
    BY DEF Updated, Restarted, ResetEndTime, ChangeOwner, ChangeStartTime,
           ChangeEndTime, ChangePrice, ChangeServiceName, Sub
  <1>2. UpdateAccepted(s, u, d) <=> UpdateAccepted(t, u, d)
    BY DEF UpdateAccepted, Restarted, ResetEndTime, ChangeOwner,
           ChangeOwnerAccepted, ChangeStartTimeAccepted, ChangeStartTime,
           ChangeEndTimeAccepted, ChangePriceAccepted,
           ChangeServiceNameAccepted, Sub
  <1> QED BY <1>1, <1>2

-----------------------------------------------------------------------------
(* Types.  What a call carries is typed by its method, which the records   *)
(* of TypeOK do not say.                                                   *)

CallOK ==
  \A r \in Requests :
    /\ req[r].pc = "new" => call[r].method = "none"
    /\ call[r].method \in {"Add", "Update", "RemoveByID", "FindByID"} =>
         call[r].id \in SubscriptionID /\ call[r].id = req[r].id
    /\ call[r].method \in {"Add", "Update"} => call[r].sub \in Sub
    /\ call[r].method = "FindByID" /\ At(r, "returned") /\ call[r].err = "nil"
         => call[r].rows[call[r].id] \in Sub
    /\ call[r].pc \in {"exec", "executed", "committing"}
         => call[r].method \in WriteMethods
    /\ call[r].pc = "query" => call[r].method \in ReadMethods
    /\ req[r].op = "PATCH" /\ req[r].pc = "running" => req[r].args \in Sub

TypeInv == TypeOK /\ CallOK

LEMMA NoRowsType == NoRows \in ResultRows
  BY DEF NoRows, ResultRows

LEMMA OneRowType ==
  ASSUME NEW id, NEW sub \in Sub
  PROVE  OneRow(id, sub) \in ResultRows
  BY NoRowsType DEF OneRow, ResultRows

LEMMA SubsOfType ==
  ASSUME TypeOK, NEW ids \in SUBSET LiveIDs
  PROVE  /\ SubsOf(ids) \in ResultRows
         /\ \A id \in ids : SubsOf(ids)[id] \in Sub
  BY DEF TypeOK, SubsOf, ResultRows, LiveIDs, Live, Row

\* A step that only moves the program counter of a call.
LEMMA GotoType ==
  ASSUME TypeInv, NEW r \in Requests,
         NEW pc \in {"exec", "executed", "committing", "query"},
         pc = "query" => call[r].method \in ReadMethods,
         pc # "query" => call[r].method \in WriteMethods,
         Goto(r, pc), UNCHANGED req
  PROVE  call' \in [Requests -> Call] /\ CallOK'
  <1>1. call' \in [Requests -> Call]
    BY DEF TypeInv, TypeOK, Goto, Call
  <1>2. CallOK'
    BY DEF TypeInv, TypeOK, CallOK, Goto, Call, At
  <1> QED BY <1>1, <1>2

\* A return from the storage.
LEMMA ReturnType ==
  ASSUME TypeInv, NEW r \in Requests,
         NEW err \in {"nil", "not_found", "error"}, NEW rows \in ResultRows,
         call[r].method = "FindByID" /\ err = "nil" => rows[call[r].id] \in Sub,
         Return(r, err, rows), UNCHANGED req
  PROVE  call' \in [Requests -> Call] /\ CallOK'
  <1> DEFINE c == [call[r] EXCEPT !.pc = "returned", !.err = err,
                                  !.rows = rows]
  <1>1. call' \in [Requests -> Call]
    <2>1. call[r] \in Call
      BY DEF TypeInv, TypeOK
    <2>2. c \in Call
      BY <2>1 DEF Call
    <2>3. call' = [call EXCEPT ![r] = c]
      BY DEF Return
    <2> HIDE DEF c
    <2> QED BY <2>2, <2>3 DEF TypeInv, TypeOK
  <1>2. CallOK'
    BY DEF TypeInv, TypeOK, CallOK, Return, Call, At
  <1> QED BY <1>1, <1>2

\* A statement stages a row, or none.
LEMMA ExecType ==
  ASSUME TypeInv, NEW r \in Requests, NEW method, NEW row \in Row \cup {Nil},
         Exec(r, method, row), UNCHANGED serviceVars
  PROVE  TypeInv'
  <1>1. call' \in [Requests -> Call] /\ CallOK'
    BY GotoType DEF Exec, serviceVars, At, TypeInv, CallOK
  <1>2. tx' \in [Requests -> Tx]
    BY DEF TypeInv, TypeOK, Exec, Tx
  <1> QED
    BY <1>1, <1>2 DEF TypeInv, TypeOK, Exec, serviceVars

LEMMA StorageType ==
  ASSUME TypeInv, NEW r \in Requests, StorageStep(r), UNCHANGED serviceVars
  PROVE  TypeInv'
  <1> USE DEF serviceVars
  <1>1. CASE BeginTx(r)
    <2>1. call' \in [Requests -> Call] /\ CallOK'
      BY <1>1, GotoType DEF BeginTx
    <2>2. tx' \in [Requests -> Tx]
      <3>1. [NoTx EXCEPT !.state = "open", !.id = call[r].id] \in Tx
        BY DEF TypeInv, TypeOK, Tx, NoTx, Call
      <3> QED BY <1>1, <3>1 DEF BeginTx, TypeInv, TypeOK
    <2> QED BY <1>1, <2>1, <2>2 DEF BeginTx, TakeConnection, TypeInv, TypeOK
  <1>2. CASE ExecInsert(r)
    <2>1. [sub |-> call[r].sub, deleted |-> FALSE] \in Row
      BY <1>2 DEF ExecInsert, Exec, TypeInv, CallOK, Row
    <2> QED BY <1>2, <2>1, ExecType DEF ExecInsert
  <1>3. CASE ExecUpdate(r)
    <2> DEFINE id == call[r].id
               row == IF Live(id) THEN [table[id] EXCEPT !.sub = call[r].sub]
                      ELSE Nil
    <2>1. id \in SubscriptionID /\ call[r].sub \in Sub
      BY <1>3 DEF ExecUpdate, Exec, TypeInv, CallOK
    <2>2. row \in Row \cup {Nil}
      BY <2>1 DEF Live, TypeInv, TypeOK, Row
    <2> QED BY <1>3, <2>2, ExecType DEF ExecUpdate
  <1>4. CASE ExecRemove(r)
    <2> DEFINE id == call[r].id
               row == IF Live(id) THEN [table[id] EXCEPT !.deleted = TRUE]
                      ELSE Nil
    <2>1. id \in SubscriptionID
      BY <1>4 DEF ExecRemove, Exec, TypeInv, CallOK
    <2>2. row \in Row \cup {Nil}
      BY <2>1 DEF Live, TypeInv, TypeOK, Row
    <2> QED BY <1>4, <2>2, ExecType DEF ExecRemove
  <1>5. CASE SendCommit(r)
    <2>1. call' \in [Requests -> Call] /\ CallOK'
      BY <1>5, GotoType DEF SendCommit, At, TypeInv, CallOK
    <2>2. tx' \in [Requests -> Tx]
      BY <1>5 DEF SendCommit, TypeInv, TypeOK, Tx
    <2> QED BY <1>5, <2>1, <2>2 DEF SendCommit, TypeInv, TypeOK
  <1>6. CASE CommitReturns(r)
    <2>1. call[r].method # "FindByID"
      BY <1>6 DEF CommitReturns, At, TypeInv, CallOK, WriteMethods
    <2>2. call' \in [Requests -> Call] /\ CallOK'
      BY <1>6, <2>1, NoRowsType, ReturnType DEF CommitReturns
    <2> QED
      BY <1>6, <2>2 DEF CommitReturns, GiveConnection, TypeInv, TypeOK
  <1>7. CASE AcquireForQuery(r)
    <2>1. call' \in [Requests -> Call] /\ CallOK'
      BY <1>7, GotoType DEF AcquireForQuery
    <2> QED
      BY <1>7, <2>1 DEF AcquireForQuery, TakeConnection, TypeInv, TypeOK
  <1>8. CASE QueryRow(r)
    <2> DEFINE found == {call[r].id} \cap LiveIDs
               err == IF found = {} THEN "not_found" ELSE "nil"
    <2>1. SubsOf(found) \in ResultRows
      BY SubsOfType DEF TypeInv
    <2>2. err = "nil" => SubsOf(found)[call[r].id] \in Sub
      BY SubsOfType DEF TypeInv
    <2>3. Return(r, err, SubsOf(found))
      BY <1>8 DEF QueryRow
    <2>4. call' \in [Requests -> Call] /\ CallOK'
      BY <2>1, <2>2, <2>3, ReturnType
    <2> QED
      BY <1>8, <2>4 DEF QueryRow, GiveConnection, TypeInv, TypeOK
  <1>9. CASE Query(r)
    <2> DEFINE found == {id \in LiveIDs :
                           Matches(call[r].filter, table[id].sub)}
    <2>1. SubsOf(found) \in ResultRows
      BY SubsOfType DEF TypeInv
    <2>2. call[r].method # "FindByID" /\ Return(r, "nil", SubsOf(found))
      BY <1>9 DEF Query
    <2>3. call' \in [Requests -> Call] /\ CallOK'
      BY <2>1, <2>2, ReturnType
    <2> QED
      BY <1>9, <2>3 DEF Query, GiveConnection, TypeInv, TypeOK
  <1>10. CASE CallFails(r)
    <2>1. Return(r, "error", NoRows)
      BY <1>10 DEF CallFails, BeginFails, ExecFails, CommitFails, QueryFails
    <2>2. call' \in [Requests -> Call] /\ CallOK'
      BY <2>1, NoRowsType, ReturnType
    <2>3. tx' \in [Requests -> Tx]
      BY <1>10 DEF CallFails, BeginFails, ExecFails, CommitFails, QueryFails,
                   TypeInv, TypeOK, Tx
    <2>4. UNCHANGED table /\ conns' \subseteq conns
      BY <1>10 DEF CallFails, BeginFails, ExecFails, CommitFails, QueryFails,
                   GiveConnection
    <2> QED BY <2>2, <2>3, <2>4 DEF TypeInv, TypeOK
  <1>11. CASE DbCommit(r)
    <2>1. tx' \in [Requests -> Tx]
      BY <1>11 DEF DbCommit, TypeInv, TypeOK, Tx
    <2>2. table' \in [SubscriptionID -> Row \cup {Nil}]
      BY <1>11 DEF DbCommit, TypeInv, TypeOK, Tx
    <2> QED BY <1>11, <2>1, <2>2 DEF DbCommit, TypeInv, TypeOK, CallOK, At
  <1>12. CASE DbAbort(r)
    <2>1. tx' \in [Requests -> Tx]
      BY <1>12 DEF DbAbort, TypeInv, TypeOK, Tx
    <2> QED BY <1>12, <2>1 DEF DbAbort, TypeInv, TypeOK, CallOK, At
  <1> QED
    BY <1>1, <1>2, <1>3, <1>4, <1>5, <1>6, <1>7, <1>8, <1>9, <1>10, <1>11, <1>12
       DEF StorageStep, CallProceeds, DbEnds

LEMMA InvocationType ==
  ASSUME NEW method \in WriteMethods \cup ReadMethods,
         NEW id \in SubscriptionID \cup {Nil}, NEW sub \in Sub \cup {Nil},
         NEW filter \in Filter \cup {Nil}
  PROVE  /\ Invocation(method, id, sub, filter) \in Call
         /\ Invocation(method, id, sub, filter).pc = "begin"
         /\ Invocation(method, id, sub, filter).method = method
         /\ Invocation(method, id, sub, filter).id = id
         /\ Invocation(method, id, sub, filter).sub = sub
  BY NoRowsType DEF Invocation, NoCall, Call, WriteMethods, ReadMethods

LEMMA StartType ==
  ASSUME TypeInv, NEW r \in Requests, NEW op \in Ops,
         NEW id \in SubscriptionID \cup {Nil}, NEW args \in Args,
         NEW method \in WriteMethods \cup ReadMethods,
         NEW sub \in Sub \cup {Nil}, NEW filter \in Filter \cup {Nil},
         method # "Find" => id \in SubscriptionID,
         method \in {"Add", "Update"} => sub \in Sub,
         op = "PATCH" => args \in Sub,
         Start(r, op, id, args, Invocation(method, id, sub, filter))
  PROVE  TypeInv'
  <1> DEFINE c == Invocation(method, id, sub, filter)
             q == [NoRequest EXCEPT !.pc = "running", !.op = op, !.id = id,
                                    !.args = args]
  <1>1. /\ c \in Call /\ c.pc = "begin" /\ c.method = method
        /\ c.id = id /\ c.sub = sub
    BY InvocationType
  <1>2. /\ q \in Request /\ q.pc = "running"
        /\ q.op = op /\ q.id = id /\ q.args = args
    BY NoRowsType DEF Request, NoRequest, Statuses
  <1>3. call' = [call EXCEPT ![r] = c] /\ req' = [req EXCEPT ![r] = q]
    BY DEF Start
  <1> HIDE DEF c, q
  <1>4. call' \in [Requests -> Call] /\ req' \in [Requests -> Request]
    BY <1>1, <1>2, <1>3 DEF TypeInv, TypeOK
  <1>5. CallOK'
    <2> SUFFICES ASSUME NEW p \in Requests
                 PROVE  CallOK!(p)'
      BY DEF CallOK
    <2>1. CASE p = r
      BY <1>1, <1>2, <1>3, <2>1
         DEF TypeInv, TypeOK, CallOK, At, WriteMethods, ReadMethods
    <2>2. CASE p # r
      BY <1>3, <2>2 DEF TypeInv, TypeOK, CallOK, At
    <2> QED BY <2>1, <2>2
  <1> QED BY <1>4, <1>5 DEF Start, TypeInv, TypeOK

LEMMA RejectType ==
  ASSUME TypeInv, NEW r \in Requests, NEW op \in Ops,
         NEW id \in SubscriptionID \cup {Nil}, NEW args \in Args,
         req[r].pc = "new", Reject(r, op, id, args)
  PROVE  TypeInv'
  <1> DEFINE q == [NoRequest EXCEPT !.pc = "answered", !.op = op, !.id = id,
                                    !.args = args, !.status = 400]
  <1>1. q \in Request /\ q.pc = "answered"
    <2>1. 0 \in Statuses /\ 400 \in Statuses
      BY DEF Statuses
    <2> QED BY <2>1, NoRowsType DEF Request, NoRequest
  <1>2. req' = [req EXCEPT ![r] = q]
    BY DEF Reject
  <1> HIDE DEF q
  <1>3. req' \in [Requests -> Request]
    BY <1>1, <1>2 DEF TypeInv, TypeOK
  <1>4. CallOK'
    <2> SUFFICES ASSUME NEW p \in Requests
                 PROVE  CallOK!(p)'
      BY DEF CallOK
    <2>1. CASE p = r
      BY <1>1, <1>2, <2>1 DEF TypeInv, TypeOK, CallOK, At, Reject, storageVars,
                              WriteMethods, ReadMethods
    <2>2. CASE p # r
      BY <1>2, <2>2 DEF TypeInv, TypeOK, CallOK, At, Reject, storageVars
    <2> QED BY <2>1, <2>2
  <1> QED BY <1>3, <1>4 DEF Reject, storageVars, TypeInv, TypeOK

LEMMA AnswerType ==
  ASSUME TypeInv, NEW r \in Requests, req[r].pc = "running",
         NEW status \in Statuses, NEW body \in ResultRows,
         Answer(r, status, body)
  PROVE  TypeInv'
  <1> DEFINE q == [req[r] EXCEPT !.pc = "answered", !.status = status,
                                 !.body = body]
  <1>1. req' \in [Requests -> Request]
    <2>1. req[r] \in Request
      BY DEF TypeInv, TypeOK
    <2>2. q \in Request
      BY <2>1 DEF Request
    <2>3. req' = [req EXCEPT ![r] = q]
      BY DEF Answer
    <2> HIDE DEF q
    <2> QED BY <2>2, <2>3 DEF TypeInv, TypeOK
  <1>2. CallOK'
    BY DEF TypeInv, TypeOK, CallOK, At, Answer, storageVars, Request
  <1> QED BY <1>1, <1>2 DEF Answer, storageVars, TypeInv, TypeOK

LEMMA HandlesType ==
  ASSUME TypeInv, NEW r \in Requests, Handles(r)
  PROVE  TypeInv'
  <1> USE DEF Ops, Args, WriteMethods, ReadMethods
  <1>1. CASE BindFails(r)
    BY <1>1, RejectType DEF BindFails, Arrives
  <1>2. CASE PostSubscriptions(r)
    <2> PICK a \in Bodies :
          \/ /\ NewSubscriptionAccepted(a, now)
             /\ \E id \in FreshIDs :
                  Start(r, "POST", id, a,
                        Invocation("Add", id, NewSubscription(a), Nil))
          \/ /\ ~NewSubscriptionAccepted(a, now)
             /\ Reject(r, "POST", Nil, a)
      BY <1>2 DEF PostSubscriptions
    <2>1. a \in Sub /\ NewSubscription(a) \in Sub
      BY BodiesType, NewSubscriptionType
    <2>2. CASE Reject(r, "POST", Nil, a)
      BY <1>2, <2>1, <2>2, RejectType DEF PostSubscriptions, Arrives
    <2>3. ASSUME NEW id \in FreshIDs,
                 Start(r, "POST", id, a,
                       Invocation("Add", id, NewSubscription(a), Nil))
          PROVE  TypeInv'
      BY <2>1, <2>3, StartType DEF FreshIDs
    <2> QED BY <2>2, <2>3
  <1>3. CASE PatchSubscriptionsId(r)
    <2> PICK id \in NamedIDs, a \in Bodies :
          Start(r, "PATCH", id, a, Invocation("FindByID", id, Nil, Nil))
      BY <1>3 DEF PatchSubscriptionsId
    <2> QED BY ClientAssumption, BodiesType, StartType DEF NamedIDs
  <1>4. CASE DeleteSubscriptionsId(r)
    <2> PICK id \in NamedIDs :
          Start(r, "DELETE", id, Nil, Invocation("RemoveByID", id, Nil, Nil))
      BY <1>4 DEF DeleteSubscriptionsId
    <2> QED BY ClientAssumption, StartType DEF NamedIDs
  <1>5. CASE GetSubscriptionsId(r)
    <2> PICK id \in NamedIDs :
          Start(r, "GET", id, Nil, Invocation("FindByID", id, Nil, Nil))
      BY <1>5 DEF GetSubscriptionsId
    <2> QED BY ClientAssumption, StartType DEF NamedIDs
  <1>6. CASE GetSubscriptions(r)
    <2>1. NoFilter \in Filter
      BY PersonAssumption, NameAssumption DEF NoFilter, Filter, OptionalDate
    <2> QED BY <1>6, <2>1, StartType DEF GetSubscriptions
  <1>7. CASE GetSubscriptionsTotalCost(r)
    <2> PICK f \in CostQueries :
          \/ Start(r, "TOTAL", Nil, f, Invocation("Find", Nil, Nil, f))
          \/ Reject(r, "TOTAL", Nil, f)
      BY <1>7 DEF GetSubscriptionsTotalCost
    <2>1. f \in Filter
      BY ClientAssumption
    <2> QED
      BY <1>7, <2>1, StartType, RejectType
         DEF GetSubscriptionsTotalCost, Arrives
  <1> QED
    BY <1>1, <1>2, <1>3, <1>4, <1>5, <1>6, <1>7 DEF Handles

LEMMA ContinuesType ==
  ASSUME TypeInv, NEW r \in Requests, Continues(r)
  PROVE  TypeInv'
  <1> USE DEF Statuses
  <1>1. call[r] \in Call /\ call[r].rows \in ResultRows /\ req[r].pc = "running"
    BY DEF Continues, PostAnswers, PatchUpdates, PatchAnswers, DeleteAnswers,
           GetAnswers, ListAnswers, TotalCostAnswers, Returned, TypeInv, TypeOK,
           Call
  <1>2. CASE PostAnswers(r) \/ PatchAnswers(r)
    <2>1. call[r].sub \in Sub
      BY <1>2 DEF PostAnswers, PatchAnswers, Returned, TypeInv, CallOK
    <2>2. OneRow(req[r].id, call[r].sub) \in ResultRows
      BY <2>1, OneRowType
    <2> QED
      BY <1>1, <1>2, <2>2, NoRowsType, AnswerType DEF PostAnswers, PatchAnswers
  <1>3. CASE PatchUpdates(r)
    <2> DEFINE id == req[r].id
               found == call[r].rows[id]
               u == req[r].args
    <2>1. CASE \/ Answer(r, 400, NoRows)
               \/ Answer(r, ErrorStatus(call[r].err), NoRows)
      BY <1>1, <2>1, NoRowsType, AnswerType DEF ErrorStatus
    <2>2. CASE /\ call[r].err = "nil"
               /\ call' = [call EXCEPT ![r] =
                             Invocation("Update", id, Updated(found, u), Nil)]
               /\ UNCHANGED <<table, tx, conns, now, req>>
      <3>1. id \in SubscriptionID /\ found \in Sub /\ u \in Sub
        BY <1>3, <2>2 DEF PatchUpdates, Returned, TypeInv, CallOK
      <3>2. Updated(found, u) = u
        BY <3>1, UpdateOverwrites
      <3> DEFINE c == Invocation("Update", id, u, Nil)
      <3>3. /\ c \in Call /\ c.pc = "begin" /\ c.method = "Update"
            /\ c.id = id /\ c.sub = u
        BY <3>1, InvocationType DEF WriteMethods
      <3>4. call' = [call EXCEPT ![r] = c]
        BY <2>2, <3>2
      <3> HIDE DEF c
      <3>5. CallOK'
        <4>1. req' = req /\ call'[r] = c /\ r \in DOMAIN call
              /\ \A q \in Requests : q # r => call'[q] = call[q]
          BY <2>2, <3>4 DEF TypeInv, TypeOK
        <4>2. /\ req[r].op = "PATCH" => u \in Sub
              /\ req[r].pc = "running"
              /\ c.id \in SubscriptionID /\ c.sub \in Sub /\ c.id = id
          BY <1>1, <3>1, <3>3
        <4> QED BY <4>1, <4>2, <3>3 DEF TypeInv, CallOK, At
      <3> QED BY <2>2, <3>3, <3>4, <3>5 DEF TypeInv, TypeOK
    <2> QED BY <1>3, <2>1, <2>2 DEF PatchUpdates
  <1>4. CASE DeleteAnswers(r)
    BY <1>1, <1>4, NoRowsType, AnswerType DEF DeleteAnswers, ErrorStatus
  <1>5. CASE GetAnswers(r)
    BY <1>1, <1>5, NoRowsType, AnswerType DEF GetAnswers, ErrorStatus
  <1>6. CASE ListAnswers(r)
    BY <1>1, <1>6, AnswerType DEF ListAnswers
  <1>7. CASE TotalCostAnswers(r)
    BY <1>1, <1>7, NoRowsType, AnswerType DEF TotalCostAnswers
  <1> QED
    BY <1>2, <1>3, <1>4, <1>5, <1>6, <1>7 DEF Continues

LEMMA InitType == Init => TypeInv
  <1> SUFFICES ASSUME Init
               PROVE  TypeInv
    OBVIOUS
  <1>1. NoTx \in Tx /\ NoCall \in Call /\ NoCall.method = "none"
        /\ NoCall.pc = "idle"
    BY NoRowsType DEF NoTx, Tx, NoCall, Call
  <1>2. NoRequest \in Request /\ NoRequest.op = "none"
    BY NoRowsType DEF NoRequest, Request, Statuses, Args
  <1>3. TypeOK
    BY <1>1, <1>2, SeedAssumption, ClockAssumption
       DEF Init, StorageInit, TypeOK
  <1>4. CallOK
    BY <1>1, <1>2 DEF Init, StorageInit, CallOK, At, WriteMethods, ReadMethods
  <1> QED BY <1>3, <1>4 DEF TypeInv

LEMMA NextType == TypeInv /\ [Next]_vars => TypeInv'
  <1> SUFFICES ASSUME TypeInv, [Next]_vars
               PROVE  TypeInv'
    OBVIOUS
  <1>1. CASE UNCHANGED vars
    BY <1>1 DEF vars, storageVars, TypeInv, TypeOK, CallOK, At
  <1>2. CASE Tick
    BY <1>2 DEF Tick, storageVars, TypeInv, TypeOK, CallOK, At
  <1> QED
    BY <1>1, <1>2, HandlesType, ContinuesType, StorageType DEF Next, Quiet

\* Every variable has its type, in every reachable state.
THEOREM TypeCorrect == Spec => []TypeOK
  <1>1. TypeInv => TypeOK
    BY DEF TypeInv
  <1> QED BY <1>1, InitType, NextType, PTL DEF Spec

-----------------------------------------------------------------------------
(* Connections                                                             *)

Holding == {"exec", "executed", "committing", "query"}

LEMMA ConnectionsNext ==
  TypeInv /\ ConnectionsAccountedFor /\ [Next]_vars => ConnectionsAccountedFor'
  <1> SUFFICES ASSUME TypeInv, ConnectionsAccountedFor, [Next]_vars
               PROVE  ConnectionsAccountedFor'
    OBVIOUS
  <1> USE DEF serviceVars
  <1>1. IsFiniteSet(conns)
    BY RequestAssumption, FS_Subset DEF TypeInv, TypeOK
  <1>2. ASSUME NEW r \in Requests, TakeConnection(r),
               NEW pc \in Holding, Goto(r, pc), At(r, "begin")
        PROVE  ConnectionsAccountedFor'
    <2>1. r \notin conns
      BY <1>2 DEF ConnectionsAccountedFor, At
    <2>2. Cardinality(conns') = Cardinality(conns) + 1
      BY <1>1, <1>2, <2>1, FS_AddElement DEF TakeConnection
    <2>3. Cardinality(conns') <= PoolSize
      BY <1>1, <1>2, <2>2, PoolAssumption, FS_CardinalityType
         DEF TakeConnection
    <2>4. conns' = {q \in Requests : call'[q].pc \in Holding}
      BY <1>2 DEF TakeConnection, ConnectionsAccountedFor, Goto, Holding,
                  TypeInv, TypeOK, Call
    <2> QED BY <2>3, <2>4 DEF ConnectionsAccountedFor, Holding
  <1>3. ASSUME NEW r \in Requests, NEW err, NEW rows,
               Return(r, err, rows), GiveConnection(r)
        PROVE  ConnectionsAccountedFor'
    <2>1. Cardinality(conns') <= Cardinality(conns)
      BY <1>1, <1>3, FS_Subset DEF GiveConnection
    <2>2. Cardinality(conns') <= PoolSize
      BY <1>1, <1>3, <2>1, FS_Subset, FS_CardinalityType, PoolAssumption
         DEF ConnectionsAccountedFor, GiveConnection
    <2>3. conns' = {q \in Requests : call'[q].pc \in Holding}
      BY <1>3 DEF GiveConnection, ConnectionsAccountedFor, Return, Holding,
                  TypeInv, TypeOK, Call
    <2> QED BY <2>2, <2>3 DEF ConnectionsAccountedFor, Holding
  \* A step that leaves conns alone does not change who is between the two.
  <1>4. ASSUME UNCHANGED conns,
               \A q \in Requests : call'[q].pc \in Holding <=> call[q].pc \in Holding
        PROVE  ConnectionsAccountedFor'
    BY <1>4 DEF ConnectionsAccountedFor, Holding
  <1>5. ASSUME NEW r \in Requests, StorageStep(r)
        PROVE  ConnectionsAccountedFor'
    <2>1. CASE BeginTx(r) \/ AcquireForQuery(r)
      BY <1>2, <2>1 DEF BeginTx, AcquireForQuery, Holding
    <2>2. CASE ExecInsert(r) \/ ExecUpdate(r) \/ ExecRemove(r) \/ SendCommit(r)
      <3>1. /\ UNCHANGED conns
            /\ call[r].pc \in Holding
            /\ Goto(r, "executed") \/ Goto(r, "committing")
        BY <2>2 DEF ExecInsert, ExecUpdate, ExecRemove, Exec, SendCommit, At,
                    Holding
      <3> QED BY <1>4, <3>1 DEF Goto, Holding, TypeInv, TypeOK, Call
    <2>3. CASE \/ CommitReturns(r) \/ QueryRow(r) \/ Query(r)
               \/ ExecFails(r) \/ CommitFails(r) \/ QueryFails(r)
      BY <1>3, <2>3 DEF CommitReturns, QueryRow, Query, ExecFails, CommitFails,
                        QueryFails
    <2>4. CASE BeginFails(r)
      BY <1>4, <2>4 DEF BeginFails, At, Return, Holding, TypeInv, TypeOK, Call
    <2>5. CASE DbEnds(r)
      BY <1>4, <2>5 DEF DbEnds, DbCommit, DbAbort
    <2> QED
      BY <1>5, <2>1, <2>2, <2>3, <2>4, <2>5
         DEF StorageStep, CallProceeds, CallFails
  <1>6. ASSUME NEW r \in Requests, NEW method \in WriteMethods \cup ReadMethods,
               NEW id, NEW sub, NEW filter, call[r].pc \notin Holding,
               call' = [call EXCEPT ![r] = Invocation(method, id, sub, filter)],
               UNCHANGED conns
        PROVE  ConnectionsAccountedFor'
    <2>1. Invocation(method, id, sub, filter).pc = "begin"
      BY DEF Invocation, NoCall
    <2> QED BY <1>4, <1>6, <2>1 DEF Holding, TypeInv, TypeOK
  <1>7. ASSUME NEW r \in Requests, Handles(r)
        PROVE  ConnectionsAccountedFor'
    <2>1. call[r].pc \notin Holding
      BY <1>7 DEF Handles, BindFails, PostSubscriptions, PatchSubscriptionsId,
                  DeleteSubscriptionsId, GetSubscriptionsId, GetSubscriptions,
                  GetSubscriptionsTotalCost, Arrives, TypeInv, CallOK, Holding,
                  WriteMethods, ReadMethods
    <2>2. ASSUME NEW op, NEW id, NEW args,
                 NEW method \in WriteMethods \cup ReadMethods,
                 NEW sub, NEW filter,
                 Start(r, op, id, args, Invocation(method, id, sub, filter))
          PROVE  ConnectionsAccountedFor'
      BY <1>6, <2>1, <2>2 DEF Start
    <2>3. ASSUME NEW op, NEW id, NEW args, Reject(r, op, id, args)
          PROVE  ConnectionsAccountedFor'
      BY <1>4, <2>3 DEF Reject, storageVars
    <2> USE DEF WriteMethods, ReadMethods
    <2>4. CASE BindFails(r)
      BY <2>3, <2>4 DEF BindFails
    <2>5. CASE PostSubscriptions(r)
      BY <2>2, <2>3, <2>5 DEF PostSubscriptions
    <2>6. CASE PatchSubscriptionsId(r)
      BY <2>2, <2>6 DEF PatchSubscriptionsId
    <2>7. CASE DeleteSubscriptionsId(r)
      BY <2>2, <2>7 DEF DeleteSubscriptionsId
    <2>8. CASE GetSubscriptionsId(r)
      BY <2>2, <2>8 DEF GetSubscriptionsId
    <2>9. CASE GetSubscriptions(r)
      BY <2>2, <2>9 DEF GetSubscriptions
    <2>10. CASE GetSubscriptionsTotalCost(r)
      BY <2>2, <2>3, <2>10 DEF GetSubscriptionsTotalCost
    <2> QED
      BY <1>7, <2>4, <2>5, <2>6, <2>7, <2>8, <2>9, <2>10 DEF Handles
  <1>8. ASSUME NEW r \in Requests, Continues(r)
        PROVE  ConnectionsAccountedFor'
    <2>1. call[r].pc \notin Holding
      BY <1>8 DEF Continues, PostAnswers, PatchUpdates, PatchAnswers,
                  DeleteAnswers, GetAnswers, ListAnswers, TotalCostAnswers,
                  Returned, At, Holding
    <2>2. \/ UNCHANGED <<call, conns>>
          \/ \E method \in WriteMethods \cup ReadMethods : \E id, sub, filter :
               /\ call' = [call EXCEPT
                            ![r] = Invocation(method, id, sub, filter)]
               /\ UNCHANGED conns
      BY <1>8 DEF Continues, PostAnswers, PatchUpdates, PatchAnswers,
                  DeleteAnswers, GetAnswers, ListAnswers, TotalCostAnswers,
                  Answer, storageVars, WriteMethods, ReadMethods
    <2> QED BY <1>4, <1>6, <2>1, <2>2
  <1>9. CASE Tick \/ UNCHANGED vars
    BY <1>4, <1>9 DEF Tick, vars, storageVars
  <1> QED
    BY <1>5, <1>7, <1>8, <1>9 DEF Next, Quiet

\* Connections are never leaked, given back twice, or handed out beyond the
\* size of the pool, for a pool of any size.
THEOREM ConnectionsCorrect == Spec => []ConnectionsAccountedFor
  <1>1. Init => ConnectionsAccountedFor
    <2> SUFFICES ASSUME Init
                 PROVE  ConnectionsAccountedFor
      OBVIOUS
    <2>1. NoCall.pc = "idle"
      BY DEF NoCall
    <2>2. conns = {r \in Requests : call[r].pc \in Holding}
      BY <2>1 DEF Init, StorageInit, Holding
    <2>3. Cardinality(conns) <= PoolSize
      BY FS_EmptySet, PoolAssumption DEF Init, StorageInit
    <2> QED BY <2>2, <2>3 DEF ConnectionsAccountedFor, Holding
  <1> QED BY <1>1, InitType, NextType, ConnectionsNext, PTL DEF Spec
=============================================================================
