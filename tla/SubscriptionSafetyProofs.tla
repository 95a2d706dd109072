---------------------- MODULE SubscriptionSafetyProofs ----------------------
(***************************************************************************)
(* Proofs that concurrent writers, late commits and failures keep what the *)
(* service promises.  The inductive invariant has three parts: what a      *)
(* request's own state says of its transaction (LocalInv), which IDs a     *)
(* request can have (IDInv), and what a transaction that is not finished   *)
(* has to do with the table (WriteInv).                                    *)
(***************************************************************************)
EXTENDS SubscriptionServiceProofs

WriteOps == {"POST", "PATCH", "DELETE"}
Pending == {"open", "committing"}

\* The operation each method of the storage is called for, and with what.
MethodOK(r) ==
  /\ call[r].method = "Add" =>
       req[r].op = "POST" /\ call[r].sub = NewSubscription(req[r].args)
  /\ call[r].method = "Update" =>
       req[r].op = "PATCH" /\ call[r].sub = req[r].args
  /\ call[r].method = "RemoveByID" => req[r].op = "DELETE"
  /\ call[r].method = "FindByID" => req[r].op \in {"PATCH", "GET"}
  /\ call[r].method = "Find" => req[r].op \in {"LIST", "TOTAL"}

\* How far the transaction is, by how far the call is.
ProgressOK(r) ==
  /\ tx[r].state # "none" =>
       /\ call[r].method \in WriteMethods
       /\ call[r].pc \in {"exec", "executed", "committing", "returned"}
       /\ tx[r].id = req[r].id
  /\ tx[r].state = "none" => tx[r].row = Nil
  /\ call[r].pc = "exec" =>
       tx[r].state \in {"open", "aborted"} /\ tx[r].row = Nil
  /\ call[r].pc = "executed" => tx[r].state \in {"open", "aborted"}
  /\ call[r].pc = "committing" =>
       tx[r].state \in {"committing", "committed", "aborted"}
  /\ call[r].pc = "returned" /\ call[r].method \in WriteMethods =>
       /\ call[r].err \in {"nil", "error"}
       /\ call[r].err = "nil" => tx[r].state = "committed"
  /\ tx[r].state \in {"committing", "committed"} =>
       call[r].pc \in {"committing", "returned"}

\* What the answer says of the call.
AnswerOK(r) ==
  /\ req[r].pc = "new" => req[r] = NoRequest /\ call[r] = NoCall /\ tx[r] = NoTx
  /\ req[r].pc = "running" => req[r].status = 0
  /\ req[r].pc = "answered" =>
       /\ call[r].pc \in {"idle", "returned"}
       /\ req[r].op \in WriteOps /\ req[r].status \in 200..204 =>
            tx[r].state = "committed"
       /\ req[r].status = 201 => req[r].op = "POST"
       /\ req[r].status = 204 => req[r].op = "DELETE"
       /\ req[r].status = 404 =>
            /\ call[r].method = "FindByID" /\ call[r].pc = "returned"
            /\ call[r].err = "not_found"
       /\ tx[r].state \in Pending => req[r].status = 500

\* What a statement has staged.
StagedOK(r) ==
  /\ tx[r].row # Nil =>
       /\ call[r].method = "Add" =>
            /\ tx[r].row.sub = NewSubscription(req[r].args)
            /\ ~tx[r].row.deleted
       /\ call[r].method = "Update" =>
            tx[r].row.sub = req[r].args /\ ~tx[r].row.deleted
       /\ call[r].method = "RemoveByID" => tx[r].row.deleted
  /\ call[r].method = "Add" =>
       /\ call[r].pc = "executed" => tx[r].row # Nil
       /\ tx[r].state \in {"committing", "committed"} => tx[r].row # Nil

LocalOK(r) == MethodOK(r) /\ ProgressOK(r) /\ AnswerOK(r) /\ StagedOK(r)
LocalInv == \A r \in Requests : LocalOK(r)

\* An ID without a live row, for good.
Gone(id) == id = StrayID \/ (table[id] # Nil /\ table[id].deleted)

\* Until its row is committed nobody else has the ID of a POST; every other
\* request has the ID of a row, or StrayID.
IDInv ==
  /\ table[StrayID] = Nil
  /\ \A r \in Requests : req[r].id # Nil =>
       /\ req[r].op = "POST" =>
            /\ req[r].id # StrayID
            /\ IF tx[r].state = "committed"
               THEN table[req[r].id] # Nil
               ELSE /\ table[req[r].id] = Nil
                    /\ \A q \in Requests \ {r} : req[q].id # req[r].id
       /\ req[r].op # "POST" => req[r].id = StrayID \/ table[req[r].id] # Nil

\* What a RemoveByID has staged, or done.
RemoveOK(r) ==
  call[r].method = "RemoveByID" =>
    /\ tx[r].state \in Pending /\ tx[r].row # Nil =>
         tx[r].row.sub = table[tx[r].id].sub
    /\ call[r].pc = "executed" \/ tx[r].state = "committing" =>
         tx[r].row # Nil \/ Gone(req[r].id)
    /\ tx[r].state = "committed" => Gone(req[r].id)

\* A row that an Update or a RemoveByID has staged was there before.
OverwriteOK(r) ==
  call[r].method \in {"Update", "RemoveByID"} /\ tx[r].row # Nil =>
    table[tx[r].id] # Nil

\* What a FindByID did not find is not there any more.
MissingOK(r) ==
  call[r].method = "FindByID" /\ call[r].pc = "returned"
    /\ call[r].err = "not_found" => Gone(req[r].id)

WriteInv ==
  /\ StagedWritesAreCurrent
  /\ \A r \in Requests : RemoveOK(r) /\ OverwriteOK(r) /\ MissingOK(r)

SafetyInv == TypeInv /\ LocalInv /\ IDInv /\ WriteInv

-----------------------------------------------------------------------------
(* The steps of request r                                                  *)

StorageOnly(r) == StorageStep(r) /\ UNCHANGED serviceVars
Step(r) == Handles(r) \/ Continues(r) \/ StorageOnly(r)

LEMMA NextSteps ==
  ASSUME [Next]_vars
  PROVE  \/ \E r \in Requests : Step(r)
         \/ UNCHANGED <<table, tx, conns, call, req>>
  BY DEF Next, Step, StorageOnly, Tick, Quiet, vars, storageVars

\* A handler calls the storage, or rejects the request.
LEMMA HandlesForm ==
  ASSUME NEW r \in Requests, Handles(r)
  PROVE  \/ \E op, id, args, method, sub, filter :
              Start(r, op, id, args, Invocation(method, id, sub, filter))
         \/ \E op, args : Reject(r, op, Nil, args)
  <1>1. CASE BindFails(r)
    BY <1>1 DEF BindFails
  <1>2. CASE PostSubscriptions(r)
    BY <1>2 DEF PostSubscriptions
  <1>3. CASE PatchSubscriptionsId(r)
    BY <1>3 DEF PatchSubscriptionsId
  <1>4. CASE DeleteSubscriptionsId(r)
    BY <1>4 DEF DeleteSubscriptionsId
  <1>5. CASE GetSubscriptionsId(r)
    BY <1>5 DEF GetSubscriptionsId
  <1>6. CASE GetSubscriptions(r)
    BY <1>6 DEF GetSubscriptions
  <1>7. CASE GetSubscriptionsTotalCost(r)
    BY <1>7 DEF GetSubscriptionsTotalCost
  <1> QED
    BY <1>1, <1>2, <1>3, <1>4, <1>5, <1>6, <1>7 DEF Handles

\* They leave the other requests alone.
LEMMA Frame ==
  ASSUME TypeInv, NEW r \in Requests, Step(r), NEW q \in Requests, q # r
  PROVE  req'[q] = req[q] /\ call'[q] = call[q] /\ tx'[q] = tx[q]
  <1>1. CASE Handles(r)
    BY <1>1 DEF Handles, BindFails, PostSubscriptions, PatchSubscriptionsId,
                DeleteSubscriptionsId, GetSubscriptionsId, GetSubscriptions,
                GetSubscriptionsTotalCost, Start, Reject, storageVars,
                TypeInv, TypeOK
  <1>2. CASE Continues(r)
    BY <1>2 DEF Continues, PostAnswers, PatchUpdates, PatchAnswers,
                DeleteAnswers, GetAnswers, ListAnswers, TotalCostAnswers,
                Answer, storageVars, TypeInv, TypeOK
  <1>3. CASE StorageOnly(r)
    BY <1>3 DEF StorageOnly, StorageStep, CallProceeds, CallFails, DbEnds,
                BeginTx, ExecInsert, ExecUpdate, ExecRemove, Exec, SendCommit,
                CommitReturns, AcquireForQuery, QueryRow, Query, BeginFails,
                ExecFails, CommitFails, QueryFails, DbCommit, DbAbort, Goto,
                Return, serviceVars, TypeInv, TypeOK
  <1> QED BY <1>1, <1>2, <1>3 DEF Step

\* Only the commit of a transaction changes the table.
LEMMA TableStep ==
  ASSUME NEW r \in Requests, Step(r)
  PROVE  UNCHANGED table \/ (DbCommit(r) /\ UNCHANGED serviceVars)
  BY DEF Step, Handles, BindFails, PostSubscriptions, PatchSubscriptionsId,
         DeleteSubscriptionsId, GetSubscriptionsId, GetSubscriptions,
         GetSubscriptionsTotalCost, Start, Reject, storageVars,
         Continues, PostAnswers, PatchUpdates, PatchAnswers,
         DeleteAnswers, GetAnswers, ListAnswers, TotalCostAnswers, Answer,
         StorageOnly, StorageStep, CallProceeds, CallFails, DbEnds,
         BeginTx, ExecInsert, ExecUpdate, ExecRemove, Exec, SendCommit,
         CommitReturns, AcquireForQuery, QueryRow, Query, BeginFails,
         ExecFails, CommitFails, QueryFails, DbAbort

LEMMA StartLocal ==
  ASSUME TypeInv, LocalInv, NEW r \in Requests, NEW op \in Ops,
         NEW id, NEW args, NEW method, NEW sub, NEW filter,
         req[r].pc = "new",
         method = "Add" => op = "POST" /\ sub = NewSubscription(args),
         method = "RemoveByID" => op = "DELETE",
         method = "FindByID" => op \in {"PATCH", "GET"},
         method = "Find" => op \in {"LIST", "TOTAL"},
         method # "Update",
         Start(r, op, id, args, Invocation(method, id, sub, filter))
  PROVE  LocalOK(r)'
  <1>1. req[r] = NoRequest /\ tx[r] = NoTx
    BY DEF LocalInv, LocalOK, AnswerOK
  <1>2. /\ req'[r].pc = "running" /\ req'[r].op = op
        /\ req'[r].args = args /\ req'[r].status = 0
    BY DEF Start, NoRequest, TypeInv, TypeOK
  <1>3. /\ call'[r].pc = "begin" /\ call'[r].method = method
        /\ call'[r].sub = sub
    BY DEF Start, Invocation, NoCall, TypeInv, TypeOK
  <1>4. tx'[r].state = "none" /\ tx'[r].row = Nil
    BY <1>1 DEF Start, NoTx
  <1> QED
    BY <1>2, <1>3, <1>4 DEF LocalOK, MethodOK, ProgressOK, AnswerOK, StagedOK

LEMMA RejectLocal ==
  ASSUME TypeInv, LocalInv, NEW r \in Requests, NEW op \in Ops, NEW id, NEW args,
         req[r].pc = "new", Reject(r, op, id, args)
  PROVE  LocalOK(r)'
  <1>1. call[r] = NoCall /\ tx[r] = NoTx
    BY DEF LocalInv, LocalOK, AnswerOK
  <1>2. /\ req'[r].pc = "answered" /\ req'[r].status = 400
    BY DEF Reject, NoRequest, TypeInv, TypeOK
  <1>3. call'[r].pc = "idle" /\ call'[r].method = "none"
    BY <1>1 DEF Reject, storageVars, NoCall
  <1>4. tx'[r].state = "none" /\ tx'[r].row = Nil
    BY <1>1 DEF Reject, storageVars, NoTx
  <1> QED
    BY <1>2, <1>3, <1>4
       DEF LocalOK, MethodOK, ProgressOK, AnswerOK, StagedOK, Pending

LEMMA AnswerLocal ==
  ASSUME TypeInv, LocalInv, NEW r \in Requests, NEW status, NEW body,
         req[r].pc = "running", call[r].pc = "returned",
         req[r].op \in WriteOps /\ status \in 200..204 =>
           tx[r].state = "committed",
         status = 201 => req[r].op = "POST",
         status = 204 => req[r].op = "DELETE",
         status = 404 => call[r].method = "FindByID"
                           /\ call[r].err = "not_found",
         tx[r].state \in Pending => status = 500,
         Answer(r, status, body)
  PROVE  LocalOK(r)'
  <1>1. /\ req'[r].pc = "answered" /\ req'[r].status = status
        /\ req'[r].op = req[r].op /\ req'[r].id = req[r].id
        /\ req'[r].args = req[r].args
    BY DEF Answer, TypeInv, TypeOK, Request
  <1>2. UNCHANGED <<call, tx>>
    BY DEF Answer, storageVars
  <1>3. MethodOK(r) /\ ProgressOK(r) /\ StagedOK(r)
    BY DEF LocalInv, LocalOK
  <1> QED
    BY <1>1, <1>2, <1>3 DEF LocalOK, MethodOK, ProgressOK, AnswerOK, StagedOK

LEMMA HandlesLocal ==
  ASSUME TypeInv, LocalInv, NEW r \in Requests, Handles(r)
  PROVE  LocalOK(r)'
  <1> USE DEF Ops
  <1>1. CASE BindFails(r)
    BY <1>1, RejectLocal DEF BindFails, Arrives
  <1>2. CASE PostSubscriptions(r)
    BY <1>2, StartLocal, RejectLocal DEF PostSubscriptions, Arrives
  <1>3. CASE PatchSubscriptionsId(r)
    BY <1>3, StartLocal DEF PatchSubscriptionsId, Arrives
  <1>4. CASE DeleteSubscriptionsId(r)
    BY <1>4, StartLocal DEF DeleteSubscriptionsId, Arrives
  <1>5. CASE GetSubscriptionsId(r)
    BY <1>5, StartLocal DEF GetSubscriptionsId, Arrives
  <1>6. CASE GetSubscriptions(r)
    BY <1>6, StartLocal DEF GetSubscriptions, Arrives
  <1>7. CASE GetSubscriptionsTotalCost(r)
    BY <1>7, StartLocal, RejectLocal DEF GetSubscriptionsTotalCost, Arrives
  <1> QED
    BY <1>1, <1>2, <1>3, <1>4, <1>5, <1>6, <1>7 DEF Handles

LEMMA ContinuesLocal ==
  ASSUME TypeInv, LocalInv, NEW r \in Requests, Continues(r)
  PROVE  LocalOK(r)'
  <1> USE DEF Pending, WriteOps
  <1>1. /\ MethodOK(r) /\ ProgressOK(r) /\ AnswerOK(r) /\ StagedOK(r)
        /\ call[r].err \in {"nil", "not_found", "error"}
    BY DEF LocalInv, LocalOK, TypeInv, TypeOK, Call
  <1>2. req[r].pc = "running" /\ call[r].pc = "returned"
    BY DEF Continues, PostAnswers, PatchUpdates, PatchAnswers, DeleteAnswers,
           GetAnswers, ListAnswers, TotalCostAnswers, Returned, At
  <1>3. CASE PostAnswers(r)
    BY <1>1, <1>2, <1>3, AnswerLocal
       DEF PostAnswers, Returned, MethodOK, ProgressOK, WriteMethods
  <1>4. CASE PatchUpdates(r)
    <2> DEFINE id == req[r].id
               found == call[r].rows[id]
               u == req[r].args
    <2>1. call[r].method = "FindByID" /\ tx[r].state = "none" /\ tx[r].row = Nil
      BY <1>1, <1>4 DEF PatchUpdates, Returned, ProgressOK, WriteMethods
    <2>2. CASE \/ Answer(r, 400, NoRows)
               \/ /\ call[r].err # "nil"
                  /\ Answer(r, ErrorStatus(call[r].err), NoRows)
      BY <1>1, <1>2, <2>1, <2>2, AnswerLocal DEF ErrorStatus
    <2>3. CASE /\ call[r].err = "nil"
               /\ call' = [call EXCEPT ![r] =
                             Invocation("Update", id, Updated(found, u), Nil)]
               /\ UNCHANGED <<table, tx, conns, now, req>>
      <3>1. found \in Sub /\ u \in Sub
        BY <1>4, <2>3 DEF PatchUpdates, Returned, TypeInv, CallOK
      <3>2. Updated(found, u) = u
        BY <3>1, UpdateOverwrites
      <3>3. call'[r].pc = "begin" /\ call'[r].method = "Update"
            /\ call'[r].sub = u
        BY <2>3, <3>2 DEF Invocation, NoCall, TypeInv, TypeOK
      <3>4. req[r].op = "PATCH"
        BY <1>4 DEF PatchUpdates, Returned
      <3> QED
        BY <1>1, <1>2, <2>1, <2>3, <3>3, <3>4
           DEF LocalOK, MethodOK, ProgressOK, AnswerOK, StagedOK
    <2> QED BY <1>4, <2>2, <2>3 DEF PatchUpdates
  <1>5. CASE PatchAnswers(r)
    BY <1>1, <1>2, <1>5, AnswerLocal
       DEF PatchAnswers, Returned, MethodOK, ProgressOK, WriteMethods
  <1>6. CASE DeleteAnswers(r)
    BY <1>1, <1>2, <1>6, AnswerLocal
       DEF DeleteAnswers, Returned, MethodOK, ProgressOK, WriteMethods,
           ErrorStatus
  <1>7. CASE GetAnswers(r)
    BY <1>1, <1>2, <1>7, AnswerLocal
       DEF GetAnswers, Returned, ProgressOK, WriteMethods, ErrorStatus
  <1>8. CASE ListAnswers(r)
    BY <1>1, <1>2, <1>8, AnswerLocal
       DEF ListAnswers, Returned, ProgressOK, WriteMethods
  <1>9. CASE TotalCostAnswers(r)
    BY <1>1, <1>2, <1>9, AnswerLocal
       DEF TotalCostAnswers, Returned, ProgressOK, WriteMethods
  <1> QED
    BY <1>3, <1>4, <1>5, <1>6, <1>7, <1>8, <1>9 DEF Continues

LEMMA StorageLocal ==
  ASSUME TypeInv, LocalInv, NEW r \in Requests, StorageOnly(r)
  PROVE  LocalOK(r)'
  <1> USE DEF serviceVars, Pending
  <1>1. MethodOK(r) /\ ProgressOK(r) /\ AnswerOK(r) /\ StagedOK(r)
    BY DEF LocalInv, LocalOK
  <1>2. /\ call[r] \in Call /\ tx[r] \in Tx /\ req[r] \in Request
        /\ UNCHANGED req
    BY DEF StorageOnly, TypeInv, TypeOK
  \* A call that moves, or returns, keeps what it was called for.
  <1>3. \A pc : Goto(r, pc) =>
          /\ call'[r].pc = pc /\ call'[r].method = call[r].method
          /\ call'[r].sub = call[r].sub /\ call'[r].err = call[r].err
    BY DEF Goto, TypeInv, TypeOK, Call
  <1>4. \A err, rows : Return(r, err, rows) =>
          /\ call'[r].pc = "returned" /\ call'[r].method = call[r].method
          /\ call'[r].sub = call[r].sub /\ call'[r].err = err
    BY DEF Return, TypeInv, TypeOK, Call
  \* Only a request that is running is in a call.
  <1>5. call[r].pc \notin {"idle", "returned"} => req[r].pc = "running"
    BY <1>1, <1>2 DEF AnswerOK, NoCall, Request
  <1> USE DEF LocalOK, MethodOK, ProgressOK, AnswerOK, StagedOK, At
  <1>6. CASE BeginTx(r)
    <2>1. /\ tx'[r].state = "open" /\ tx'[r].id = call[r].id
          /\ tx'[r].row = Nil
      BY <1>6 DEF BeginTx, NoTx, TypeInv, TypeOK
    <2>2. call[r].id = req[r].id
      BY <1>6 DEF BeginTx, TypeInv, CallOK, WriteMethods
    <2> QED BY <1>1, <1>2, <1>3, <1>5, <1>6, <2>1, <2>2 DEF BeginTx
  <1>7. ASSUME NEW row \in Row \cup {Nil},
               Exec(r, call[r].method, row), call[r].method \in WriteMethods,
               call[r].method = "Add" =>
                 row # Nil /\ ~row.deleted
                   /\ row.sub = NewSubscription(req[r].args),
               call[r].method = "Update" /\ row # Nil =>
                 ~row.deleted /\ row.sub = req[r].args,
               call[r].method = "RemoveByID" /\ row # Nil => row.deleted
        PROVE  LocalOK(r)'
    <2>1. /\ tx'[r].state = "open" /\ tx[r].state = "open"
          /\ tx'[r].id = tx[r].id /\ tx'[r].row = row
      BY <1>2, <1>7 DEF Exec, TypeInv, TypeOK, Tx
    <2> QED BY <1>1, <1>2, <1>3, <1>5, <1>7, <2>1 DEF Exec
  <1>8. CASE ExecInsert(r)
    <2> DEFINE row == [sub |-> call[r].sub, deleted |-> FALSE]
    <2>1. row \in Row
      BY <1>8 DEF ExecInsert, Exec, TypeInv, CallOK, Row
    <2>2. row # Nil /\ ~row.deleted /\ row.sub = call[r].sub
      BY <2>1, NilRowAssumption
    <2>3. call[r].method = "Add" /\ Exec(r, "Add", row)
      BY <1>8 DEF ExecInsert, Exec
    <2> HIDE DEF row
    <2> QED BY <1>1, <1>7, <2>1, <2>2, <2>3 DEF WriteMethods
  <1>9. CASE ExecUpdate(r)
    <2> DEFINE id == call[r].id
               row == IF Live(id) THEN [table[id] EXCEPT !.sub = call[r].sub]
                      ELSE Nil
    <2>1. id \in SubscriptionID /\ call[r].sub \in Sub
      BY <1>9 DEF ExecUpdate, Exec, TypeInv, CallOK
    <2>2. /\ row \in Row \cup {Nil}
          /\ row # Nil => ~row.deleted /\ row.sub = call[r].sub
      BY <2>1 DEF Live, TypeInv, TypeOK, Row
    <2>3. call[r].method = "Update" /\ Exec(r, "Update", row)
      BY <1>9 DEF ExecUpdate, Exec
    <2> HIDE DEF row
    <2> QED BY <1>1, <1>7, <2>2, <2>3 DEF WriteMethods
  <1>10. CASE ExecRemove(r)
    <2> DEFINE id == call[r].id
               row == IF Live(id) THEN [table[id] EXCEPT !.deleted = TRUE]
                      ELSE Nil
    <2>1. id \in SubscriptionID
      BY <1>10 DEF ExecRemove, Exec, TypeInv, CallOK
    <2>2. /\ row \in Row \cup {Nil}
          /\ row # Nil => row.deleted
      BY <2>1 DEF Live, TypeInv, TypeOK, Row
    <2>3. call[r].method = "RemoveByID" /\ Exec(r, "RemoveByID", row)
      BY <1>10 DEF ExecRemove, Exec
    <2> HIDE DEF row
    <2> QED BY <1>7, <2>2, <2>3 DEF WriteMethods
  <1>11. CASE SendCommit(r)
    <2>1. /\ tx'[r].id = tx[r].id /\ tx'[r].row = tx[r].row
          /\ tx'[r].state = IF tx[r].state = "open" THEN "committing"
                            ELSE tx[r].state
      BY <1>2, <1>11 DEF SendCommit, TypeInv, TypeOK, Tx
    <2> QED BY <1>1, <1>2, <1>3, <1>5, <1>11, <2>1 DEF SendCommit
  <1>12. CASE CommitReturns(r)
    BY <1>1, <1>2, <1>4, <1>5, <1>12 DEF CommitReturns
  <1>13. CASE AcquireForQuery(r)
    BY <1>1, <1>2, <1>3, <1>5, <1>13
       DEF AcquireForQuery, ReadMethods, WriteMethods
  <1>14. CASE QueryRow(r) \/ Query(r) \/ QueryFails(r)
    <2>1. call[r].method \in ReadMethods /\ UNCHANGED tx
      BY <1>14 DEF QueryRow, Query, QueryFails, TypeInv, CallOK
    <2>2. \E err, rows : Return(r, err, rows)
      BY <1>14 DEF QueryRow, Query, QueryFails
    <2> QED
      BY <1>1, <1>2, <1>4, <1>5, <1>14, <2>1, <2>2
         DEF QueryRow, Query, QueryFails, ReadMethods, WriteMethods
  <1>15. CASE BeginFails(r) \/ CommitFails(r)
    <2>1. Return(r, "error", NoRows) /\ UNCHANGED tx
          /\ call[r].pc \in {"begin", "committing"}
      BY <1>15 DEF BeginFails, CommitFails
    <2> QED BY <1>1, <1>2, <1>4, <1>5, <2>1
  <1>16. CASE ExecFails(r)
    <2>1. /\ tx'[r].id = tx[r].id /\ tx'[r].row = tx[r].row
          /\ tx'[r].state \in {tx[r].state, "aborted"}
      BY <1>2, <1>16 DEF ExecFails, TypeInv, TypeOK, Tx
    <2>2. /\ Return(r, "error", NoRows)
          /\ call[r].pc \in {"exec", "executed"}
      BY <1>16 DEF ExecFails
    <2> QED BY <1>1, <1>2, <1>4, <1>5, <2>1, <2>2
  <1>17. CASE DbCommit(r) \/ DbAbort(r)
    <2>1. /\ tx'[r].id = tx[r].id /\ tx'[r].row = tx[r].row
          /\ \/ tx[r].state = "committing" /\ tx'[r].state = "committed"
             \/ tx[r].state \in Pending /\ tx'[r].state = "aborted"
      BY <1>2, <1>17 DEF DbCommit, DbAbort, TypeInv, TypeOK, Tx
    <2>2. UNCHANGED call
      BY <1>17 DEF DbCommit, DbAbort
    <2> QED BY <1>1, <1>2, <2>1, <2>2 DEF NoTx
  <1> QED
    BY <1>6, <1>8, <1>9, <1>10, <1>11, <1>12, <1>13, <1>14, <1>15, <1>16, <1>17
       DEF StorageOnly, StorageStep, CallProceeds, CallFails, DbEnds

LEMMA LocalNext ==
  ASSUME TypeInv, LocalInv, [Next]_vars
  PROVE  LocalInv'
  <1>1. ASSUME NEW p \in Requests, Step(p), NEW r \in Requests
        PROVE  LocalOK(r)'
    <2>1. CASE p = r
      BY <1>1, <2>1, HandlesLocal, ContinuesLocal, StorageLocal DEF Step
    <2>2. CASE p # r
      <3>1. req'[r] = req[r] /\ call'[r] = call[r] /\ tx'[r] = tx[r]
        BY <1>1, <2>2, Frame
      <3> QED
        BY <3>1 DEF LocalInv, LocalOK, MethodOK, ProgressOK, AnswerOK, StagedOK
    <2> QED BY <2>1, <2>2
  <1>2. CASE UNCHANGED <<table, tx, conns, call, req>>
    BY <1>2 DEF LocalInv, LocalOK, MethodOK, ProgressOK, AnswerOK, StagedOK
  <1> QED BY <1>1, <1>2, NextSteps DEF LocalInv

-----------------------------------------------------------------------------
(* What a step does to transactions and rows                               *)

\* The steps of a transaction.
LEMMA TxStep ==
  ASSUME TypeInv, LocalInv, NEW r \in Requests, Step(r)
  PROVE  \/ tx'[r] = tx[r]
         \/ /\ tx[r].state = "none" /\ tx'[r].state = "open"
            /\ tx'[r].row = Nil
         \/ /\ ExecInsert(r) \/ ExecUpdate(r) \/ ExecRemove(r)
            /\ tx'[r].id = tx[r].id
            /\ tx[r].state = "open" /\ tx'[r].state = "open"
         \/ /\ tx'[r].id = tx[r].id /\ tx'[r].row = tx[r].row
            /\ \/ tx[r].state = "open" /\ tx'[r].state = "committing"
               \/ /\ tx[r].state \in {"open", "committing", "aborted"}
                  /\ tx'[r].state = "aborted"
               \/ DbCommit(r) /\ tx'[r].state = "committed"
  <1> USE DEF serviceVars
  <1>1. CASE Handles(r) \/ Continues(r)
    BY <1>1
       DEF Handles, BindFails, PostSubscriptions, PatchSubscriptionsId,
           DeleteSubscriptionsId, GetSubscriptionsId, GetSubscriptions,
           GetSubscriptionsTotalCost, Start, Reject, storageVars, Continues,
           PostAnswers, PatchUpdates, PatchAnswers, DeleteAnswers, GetAnswers,
           ListAnswers, TotalCostAnswers, Answer
  <1>2. CASE StorageOnly(r)
    <2>1. tx[r] \in Tx /\ ProgressOK(r) /\ AnswerOK(r)
      BY DEF TypeInv, TypeOK, LocalInv, LocalOK
    <2>2. CASE BeginTx(r)
      <3>1. tx[r].state = "none"
        BY <2>1, <2>2 DEF BeginTx, At, ProgressOK
      <3> QED BY <2>2, <3>1 DEF BeginTx, NoTx, TypeInv, TypeOK
    <2>3. CASE ExecInsert(r) \/ ExecUpdate(r) \/ ExecRemove(r)
      <3>1. \E method, row : Exec(r, method, row)
        BY <2>3 DEF ExecInsert, ExecUpdate, ExecRemove
      <3> QED BY <2>1, <2>3, <3>1 DEF Exec, TypeInv, TypeOK, Tx
    <2>4. CASE SendCommit(r)
      BY <2>1, <2>4 DEF SendCommit, TypeInv, TypeOK, Tx
    <2>5. CASE ExecFails(r)
      BY <2>1, <2>5 DEF ExecFails, ProgressOK, TypeInv, TypeOK, Tx
    <2>6. CASE DbCommit(r)
      BY <2>1, <2>6 DEF DbCommit, TypeInv, TypeOK, Tx
    <2>7. CASE DbAbort(r)
      BY <2>1, <2>7 DEF DbAbort, TypeInv, TypeOK, Tx
    <2> QED
      BY <1>2, <2>2, <2>3, <2>4, <2>5, <2>6, <2>7
         DEF StorageOnly, StorageStep, CallProceeds, CallFails, DbEnds,
             CommitReturns, AcquireForQuery, QueryRow, Query, BeginFails,
             CommitFails, QueryFails
  <1> QED BY <1>1, <1>2 DEF Step

\* A handler calls the storage, or does not.
LEMMA HandlesCall ==
  ASSUME TypeInv, NEW r \in Requests, Handles(r)
  PROVE  UNCHANGED tx /\ (UNCHANGED call \/ call'[r].pc = "begin")
  <1>1. ASSUME NEW op, NEW id, NEW args, NEW method, NEW sub, NEW filter,
               Start(r, op, id, args, Invocation(method, id, sub, filter))
        PROVE  UNCHANGED tx /\ call'[r].pc = "begin"
    <2>1. Invocation(method, id, sub, filter).pc = "begin"
      BY DEF Invocation, NoCall
    <2> QED BY <1>1, <2>1 DEF Start, TypeInv, TypeOK
  <1>2. ASSUME NEW op, NEW args, Reject(r, op, Nil, args)
        PROVE  UNCHANGED <<tx, call>>
    BY <1>2 DEF Reject, storageVars
  <1> QED BY <1>1, <1>2, HandlesForm

\* A request that has begun a transaction does not begin another call.
LEMMA MethodStep ==
  ASSUME TypeInv, LocalInv, NEW r \in Requests, Step(r), tx[r].state # "none"
  PROVE  call'[r].method = call[r].method
  <1>1. /\ req[r].pc # "new" /\ call[r].method # "FindByID"
        /\ call[r] \in Call
    BY DEF LocalInv, LocalOK, ProgressOK, AnswerOK, NoTx, WriteMethods,
           TypeInv, TypeOK
  <1>2. CASE Handles(r)
    BY <1>1, <1>2
       DEF Handles, BindFails, PostSubscriptions, PatchSubscriptionsId,
           DeleteSubscriptionsId, GetSubscriptionsId, GetSubscriptions,
           GetSubscriptionsTotalCost, Arrives
  <1>3. CASE Continues(r)
    BY <1>1, <1>3
       DEF Continues, PostAnswers, PatchUpdates, PatchAnswers, DeleteAnswers,
           GetAnswers, ListAnswers, TotalCostAnswers, Answer, storageVars,
           Returned
  <1>4. CASE StorageOnly(r)
    <2>1. \/ UNCHANGED call \/ (\E pc : Goto(r, pc))
          \/ (\E err, rows : Return(r, err, rows))
      BY <1>4
         DEF StorageOnly, StorageStep, CallProceeds, CallFails, DbEnds,
             BeginTx, ExecInsert, ExecUpdate, ExecRemove, Exec, SendCommit,
             CommitReturns, AcquireForQuery, QueryRow, Query, BeginFails,
             ExecFails, CommitFails, QueryFails, DbCommit, DbAbort
    <2>2. ASSUME NEW pc, Goto(r, pc)
          PROVE  call'[r].method = call[r].method
      BY <1>1, <2>2 DEF Goto, Call, TypeInv, TypeOK
    <2>3. ASSUME NEW err, NEW rows, Return(r, err, rows)
          PROVE  call'[r].method = call[r].method
      BY <1>1, <2>3 DEF Return, Call, TypeInv, TypeOK
    <2> QED BY <2>1, <2>2, <2>3
  <1> QED BY <1>2, <1>3, <1>4 DEF Step

\* The transaction that writes a row: it is the request's own, and had locked
\* the row or is the first to write it.
LEMMA RowStep ==
  ASSUME TypeInv, LocalInv, NEW r \in Requests, Step(r),
         NEW id \in SubscriptionID, table'[id] # table[id]
  PROVE  /\ tx[r].state = "committing" /\ tx'[r].state = "committed"
         /\ tx[r].id = id /\ req[r].id = id /\ UNCHANGED req
         /\ tx[r].row # Nil /\ table'[id] = tx[r].row
         /\ table[id] # Nil => Locks(r, id)
         /\ req[r].pc = "running" \/ req[r].status = 500
  <1>1. DbCommit(r) /\ UNCHANGED serviceVars
    BY TableStep
  <1>2. tx[r].state = "committing" /\ tx[r].id \in SubscriptionID \cup {Nil}
        /\ tx'[r].state = "committed"
    BY <1>1 DEF DbCommit, TypeInv, TypeOK, Tx
  <1>3. tx[r].row # Nil /\ tx[r].id = id /\ table'[id] = tx[r].row
    BY <1>1, <1>2 DEF DbCommit, TypeInv, TypeOK
  <1>4. ProgressOK(r) /\ AnswerOK(r) /\ req[r] \in Request
    BY DEF LocalInv, LocalOK, TypeInv, TypeOK
  <1>5. req[r].id = id
    BY <1>2, <1>3, <1>4 DEF ProgressOK
  <1>6. req[r].pc = "running" \/ req[r].status = 500
    BY <1>2, <1>4 DEF AnswerOK, NoTx, Pending, Request
  <1> QED BY <1>1, <1>2, <1>3, <1>5, <1>6 DEF Locks, serviceVars

\* A row, once there, stays; a deleted one stays as it is.
LEMMA RowStable ==
  ASSUME SafetyInv, NEW r \in Requests, Step(r), NEW id \in SubscriptionID,
         table[id] # Nil
  PROVE  /\ table'[id] # Nil
         /\ table[id].deleted => table'[id] = table[id]
  <1>1. table'[id] # Nil
    BY RowStep DEF SafetyInv
  <1>2. table[id].deleted => table'[id] = table[id]
    BY RowStep DEF SafetyInv, WriteInv, StagedWritesAreCurrent, Live
  <1> QED BY <1>1, <1>2

LEMMA GoneStable ==
  ASSUME SafetyInv, NEW p \in Requests, Step(p), NEW r \in Requests,
         req[r].id \in SubscriptionID, req'[r].id = req[r].id, Gone(req[r].id)
  PROVE  Gone(req[r].id)'
  BY RowStable DEF Gone

-----------------------------------------------------------------------------
(* IDs                                                                     *)

\* A step of r leaves r's ID alone, or gives it one that is free, or known.
LEMMA IDStep ==
  ASSUME TypeInv, LocalInv, NEW r \in Requests, Step(r)
  PROVE  \/ req'[r].id = req[r].id /\ req'[r].op = req[r].op
         \/ /\ req[r].pc = "new" /\ UNCHANGED <<table, tx>>
            /\ \/ req'[r].id = Nil
               \/ req'[r].op = "POST" /\ req'[r].id \in FreshIDs
               \/ req'[r].op # "POST" /\ req'[r].id \in NamedIDs
  <1>1. req[r] \in Request
    BY DEF TypeInv, TypeOK
  <1>2. ASSUME NEW op, NEW id, NEW args, NEW invocation,
               Start(r, op, id, args, invocation)
        PROVE  /\ req'[r].id = id /\ req'[r].op = op
               /\ UNCHANGED <<table, tx>>
    BY <1>2 DEF Start, NoRequest, TypeInv, TypeOK
  <1>3. ASSUME NEW op, NEW args, Reject(r, op, Nil, args)
        PROVE  req'[r].id = Nil /\ UNCHANGED <<table, tx>>
    BY <1>3 DEF Reject, storageVars, NoRequest, TypeInv, TypeOK
  <1>4. CASE Handles(r)
    <2>1. req[r].pc = "new"
      BY <1>4
         DEF Handles, BindFails, PostSubscriptions, PatchSubscriptionsId,
             DeleteSubscriptionsId, GetSubscriptionsId, GetSubscriptions,
             GetSubscriptionsTotalCost, Arrives
    <2>2. CASE BindFails(r)
      BY <1>3, <2>1, <2>2 DEF BindFails
    <2>3. CASE PostSubscriptions(r)
      BY <1>2, <1>3, <2>1, <2>3 DEF PostSubscriptions
    <2>4. CASE PatchSubscriptionsId(r)
      BY <1>2, <2>1, <2>4 DEF PatchSubscriptionsId
    <2>5. CASE DeleteSubscriptionsId(r)
      BY <1>2, <2>1, <2>5 DEF DeleteSubscriptionsId
    <2>6. CASE GetSubscriptionsId(r)
      BY <1>2, <2>1, <2>6 DEF GetSubscriptionsId
    <2>7. CASE GetSubscriptions(r) \/ GetSubscriptionsTotalCost(r)
      BY <1>2, <1>3, <2>1, <2>7 DEF GetSubscriptions, GetSubscriptionsTotalCost
    <2> QED BY <1>4, <2>2, <2>3, <2>4, <2>5, <2>6, <2>7 DEF Handles
  <1>5. CASE Continues(r)
    BY <1>1, <1>5
       DEF Continues, PostAnswers, PatchUpdates, PatchAnswers, DeleteAnswers,
           GetAnswers, ListAnswers, TotalCostAnswers, Answer, TypeInv, TypeOK,
           Request
  <1>6. CASE StorageOnly(r)
    BY <1>6 DEF StorageOnly, serviceVars
  <1> QED BY <1>4, <1>5, <1>6 DEF Step

\* Only a POST adds a row.
LEMMA NewRow ==
  ASSUME SafetyInv, NEW r \in Requests, Step(r), NEW id \in SubscriptionID,
         table[id] = Nil, table'[id] # Nil
  PROVE  req[r].op = "POST" /\ req[r].id = id /\ id # StrayID
         /\ tx[r].state = "committing" /\ tx'[r].state = "committed"
  <1>1. /\ tx[r].state = "committing" /\ tx'[r].state = "committed"
        /\ tx[r].id = id /\ req[r].id = id /\ tx[r].row # Nil
    BY RowStep DEF SafetyInv
  <1>2. call[r].method = "Add"
    BY <1>1 DEF SafetyInv, WriteInv, OverwriteOK, LocalInv, LocalOK, ProgressOK,
             WriteMethods
  <1>3. req[r].op = "POST"
    BY <1>2 DEF SafetyInv, LocalInv, LocalOK, MethodOK
  <1>4. id # Nil
    BY NilRowAssumption
  <1> QED BY <1>1, <1>3, <1>4 DEF SafetyInv, IDInv

LEMMA IDNext ==
  ASSUME SafetyInv, NEW p \in Requests, Step(p)
  PROVE  IDInv'
  <1>1. table'[StrayID] = Nil
    BY ClientAssumption, NewRow DEF SafetyInv, IDInv
  <1>2. ASSUME NEW r \in Requests, req'[r].id # Nil, req'[r].op # "POST"
        PROVE  req'[r].id = StrayID \/ table'[req'[r].id] # Nil
    <2>1. req[r].id \in SubscriptionID \cup {Nil}
      BY DEF SafetyInv, TypeInv, TypeOK, Request
    <2>2. CASE req'[r].id = req[r].id /\ req'[r].op = req[r].op
      BY <1>2, <2>1, <2>2, RowStable DEF SafetyInv, IDInv
    <2>3. CASE req'[r].id \in NamedIDs
      BY <2>3, RowStable DEF NamedIDs
    <2>4. p = r \/ req'[r] = req[r]
      BY Frame DEF SafetyInv
    <2> QED BY <1>2, <2>2, <2>3, <2>4, IDStep DEF SafetyInv
  <1>3. ASSUME NEW r \in Requests, req'[r].id # Nil, req'[r].op = "POST"
        PROVE  /\ req'[r].id # StrayID
               /\ IF tx'[r].state = "committed"
                  THEN table'[req'[r].id] # Nil
                  ELSE /\ table'[req'[r].id] = Nil
                       /\ \A q \in Requests \ {r} : req'[q].id # req'[r].id
    <2>1. req[r].id \in SubscriptionID \cup {Nil}
      BY DEF SafetyInv, TypeInv, TypeOK, Request
    <2>2. p = r \/ (req'[r] = req[r] /\ tx'[r] = tx[r])
      BY Frame DEF SafetyInv
    <2>3. CASE ~(req'[r].id = req[r].id /\ req'[r].op = req[r].op)
      <3>1. p = r
        BY <2>2, <2>3
      <3>2. /\ req[r].pc = "new" /\ UNCHANGED <<table, tx>>
            /\ req'[r].id \in FreshIDs
        BY <1>3, <2>3, <3>1, IDStep DEF SafetyInv
      <3>3. \A q \in Requests \ {r} : req'[q] = req[q]
        BY <3>1, Frame DEF SafetyInv
      <3>4. tx[r].state # "committed"
        BY <3>2 DEF SafetyInv, LocalInv, LocalOK, AnswerOK, NoTx
      <3> QED BY <3>2, <3>3, <3>4 DEF FreshIDs
    <2>4. CASE req'[r].id = req[r].id /\ req'[r].op = req[r].op
      <3> DEFINE id == req[r].id
      <3>1. id # Nil /\ id # StrayID /\ id \in SubscriptionID
            /\ req[r].op = "POST"
        BY <1>3, <2>1, <2>4 DEF SafetyInv, IDInv
      <3>2. CASE tx[r].state = "committed"
        <4>1. tx'[r].state = "committed"
          BY <2>2, <3>2, TxStep DEF SafetyInv, DbCommit
        <4>2. table[id] # Nil
          BY <3>1, <3>2 DEF SafetyInv, IDInv
        <4> QED BY <2>4, <3>1, <4>1, <4>2, RowStable
      <3>3. CASE tx[r].state # "committed" /\ tx'[r].state = "committed"
        <4>1. p = r /\ DbCommit(r) /\ tx[r].state = "committing"
          BY <2>2, <3>3, TxStep DEF SafetyInv, DbCommit
        <4>2. call[r].method = "Add" /\ tx[r].id = id
          BY <3>1, <4>1
             DEF SafetyInv, LocalInv, LocalOK, ProgressOK, MethodOK,
                 WriteMethods
        <4>3. tx[r].row # Nil
          BY <4>1, <4>2 DEF SafetyInv, LocalInv, LocalOK, StagedOK
        <4>4. table'[id] # Nil
          BY <3>1, <4>1, <4>2, <4>3 DEF DbCommit, SafetyInv, TypeInv, TypeOK
        <4> QED BY <2>4, <3>1, <3>3, <4>4
      <3>4. CASE tx[r].state # "committed" /\ tx'[r].state # "committed"
        <4>1. /\ table[id] = Nil
              /\ \A q \in Requests \ {r} : req[q].id # id
          BY <3>1, <3>4 DEF SafetyInv, IDInv
        <4>2. table'[id] = Nil
          BY <3>1, <3>4, <4>1, NewRow
        <4>3. ASSUME NEW q \in Requests \ {r}
              PROVE  req'[q].id # id
          <5>1. CASE req'[q].id = req[q].id
            BY <4>1, <5>1
          <5>2. CASE req'[q].id # req[q].id
            <6>1. p = q
              BY <5>2, Frame DEF SafetyInv
            <6>2. \/ req'[q].id = Nil \/ req'[q].id \in FreshIDs
                  \/ req'[q].id \in NamedIDs
              BY <5>2, <6>1, IDStep DEF SafetyInv
            <6> QED
              BY <3>1, <4>1, <6>2 DEF FreshIDs, NamedIDs
          <5> QED BY <5>1, <5>2
        <4> QED BY <2>4, <3>1, <3>4, <4>2, <4>3
      <3> QED BY <3>2, <3>3, <3>4
    <2> QED BY <2>3, <2>4
  <1> QED BY <1>1, <1>2, <1>3 DEF IDInv

-----------------------------------------------------------------------------
(* Writes                                                                  *)

\* The statement that stages a row for a live one runs when nobody else holds
\* the lock of that row.
LEMMA NewLock ==
  ASSUME SafetyInv, NEW r \in Requests, Step(r), NEW id \in SubscriptionID,
         Locks(r, id)', UNCHANGED table
  PROVE  Locks(r, id) \/ (Live(id) /\ Unlocked(r, id))
  <1>1. /\ tx'[r].state \in Pending /\ tx'[r].id = id
        /\ tx'[r].row # Nil /\ table[id] # Nil
    BY DEF Locks, Pending
  <1>2. CASE tx'[r] = tx[r]
    BY <1>1, <1>2 DEF Locks, Pending
  <1>3. CASE /\ ExecInsert(r) \/ ExecUpdate(r) \/ ExecRemove(r)
             /\ tx'[r].id = tx[r].id /\ tx[r].state = "open"
    <2>1. req[r].id = id
      BY <1>1, <1>3 DEF SafetyInv, LocalInv, LocalOK, ProgressOK
    <2>2. CASE ExecInsert(r)
      <3>1. req[r].op = "POST"
        BY <2>2 DEF ExecInsert, Exec, SafetyInv, LocalInv, LocalOK, MethodOK
      <3> QED
        BY <1>1, <1>3, <2>1, <3>1, NilRowAssumption DEF SafetyInv, IDInv
    <2>3. CASE ExecUpdate(r) \/ ExecRemove(r)
      <3>1. call[r].id = id
        BY <2>1, <2>3
           DEF ExecUpdate, ExecRemove, Exec, SafetyInv, TypeInv, CallOK
      <3>2. Unlocked(r, id)
        BY <2>3, <3>1 DEF ExecUpdate, ExecRemove
      <3>3. Live(id)
        BY <1>1, <2>3, <3>1
           DEF ExecUpdate, ExecRemove, Exec, SafetyInv, TypeInv, TypeOK, Tx
      <3> QED BY <3>2, <3>3
    <2> QED BY <1>3, <2>2, <2>3
  <1>4. CASE tx'[r].id = tx[r].id /\ tx'[r].row = tx[r].row
               /\ tx[r].state = "open"
    BY <1>1, <1>4 DEF Locks
  <1> QED BY <1>1, <1>2, <1>3, <1>4, TxStep DEF SafetyInv, Pending

LEMMA StagedNext ==
  ASSUME SafetyInv, NEW p \in Requests, Step(p)
  PROVE  StagedWritesAreCurrent'
  <1> SUFFICES ASSUME NEW r \in Requests, NEW id \in SubscriptionID,
                      Locks(r, id)'
               PROVE  Live(id)' /\ Unlocked(r, id)'
    BY DEF StagedWritesAreCurrent
  <1>1. \A q \in Requests : q # p => tx'[q] = tx[q]
    BY Frame DEF SafetyInv
  <1>2. StagedWritesAreCurrent
    BY DEF SafetyInv, WriteInv
  <1>3. CASE UNCHANGED table
    <2>1. ASSUME NEW q \in Requests, Locks(q, id)'
          PROVE  Locks(q, id) \/ (q = p /\ Live(id) /\ Unlocked(q, id))
      BY <1>1, <1>3, <2>1, NewLock DEF Locks
    <2>2. Live(id) /\ Unlocked(r, id)
      BY <1>2, <2>1 DEF StagedWritesAreCurrent
    <2>3. ASSUME NEW q \in Requests \ {r}, Locks(q, id)'
          PROVE  FALSE
      <3>1. ~Locks(q, id)
        BY <2>2 DEF Unlocked
      <3>2. q = p /\ Unlocked(q, id)
        BY <2>1, <2>3, <3>1
      <3> QED BY <2>1, <3>2 DEF Unlocked
    <2> QED BY <1>3, <2>2, <2>3 DEF Unlocked, Live
  <1>4. CASE DbCommit(p) /\ UNCHANGED serviceVars
    <2>1. tx[p].state = "committing" /\ tx'[p].state = "committed"
      BY <1>4 DEF DbCommit, SafetyInv, TypeInv, TypeOK, Tx
    <2>2. \A q \in Requests : Locks(q, id)' => q # p
      BY <2>1 DEF Locks
    <2>3. CASE table[id] = Nil
      <3>1. /\ req[p].op = "POST" /\ req[p].id = id
            /\ tx[p].state = "committing"
        BY <2>3, NewRow DEF Locks
      <3>2. tx[r].state \in Pending /\ tx[r].id = id /\ tx[r].row # Nil
        BY <1>1, <2>2 DEF Locks, Pending
      <3>3. req[r].id = id
        BY <3>2 DEF SafetyInv, LocalInv, LocalOK, ProgressOK, Pending
      <3> QED
        BY <2>2, <3>1, <3>3, NilRowAssumption DEF SafetyInv, IDInv
    <2>4. CASE table[id] # Nil
      <3>1. \A q \in Requests : Locks(q, id)' => Locks(q, id)
        BY <1>1, <2>2, <2>4 DEF Locks
      <3>2. Live(id) /\ Unlocked(r, id)
        BY <1>2, <3>1 DEF StagedWritesAreCurrent
      <3>3. table'[id] = table[id]
        BY <2>2, <2>4, <3>2, RowStep DEF SafetyInv, Unlocked
      <3> QED BY <3>1, <3>2, <3>3 DEF Live, Unlocked
    <2> QED BY <2>3, <2>4
  <1> QED BY <1>3, <1>4, TableStep

LEMMA StagedRowNext ==
  ASSUME SafetyInv, NEW p \in Requests, Step(p), LocalInv', TypeInv',
         NEW r \in Requests,
         call'[r].method \in {"Update", "RemoveByID"}, tx'[r].row # Nil
  PROVE  table'[tx'[r].id] # Nil
  <1>1. /\ tx[r] \in Tx /\ tx'[r] \in Tx /\ call[r] \in Call
        /\ ProgressOK(r) /\ ProgressOK(r)' /\ StagedOK(r)
    BY DEF SafetyInv, TypeInv, TypeOK, LocalInv, LocalOK
  <1>2. tx'[r].state # "none"
    BY <1>1 DEF ProgressOK
  <1>3. tx'[r].id = call'[r].id /\ tx'[r].id \in SubscriptionID
    BY <1>1, <1>2 DEF ProgressOK, TypeInv, CallOK
  <1>4. CASE tx[r].row # Nil /\ tx'[r].id = tx[r].id
               /\ call'[r].method = call[r].method
    BY <1>3, <1>4, RowStable DEF SafetyInv, WriteInv, OverwriteOK
  <1>5. CASE p # r
    BY <1>4, <1>5, Frame DEF SafetyInv
  <1>6. CASE ExecInsert(r) \/ ExecUpdate(r) \/ ExecRemove(r)
    <2>1. call'[r].method = call[r].method /\ call'[r].id = call[r].id
          /\ UNCHANGED table
      BY <1>1, <1>6
         DEF ExecInsert, ExecUpdate, ExecRemove, Exec, Goto, Call, SafetyInv,
             TypeInv, TypeOK
    <2>2. Live(call[r].id)
      BY <1>6, <2>1
         DEF ExecInsert, ExecUpdate, ExecRemove, Exec, SafetyInv, TypeInv,
             TypeOK, Tx
    <2> QED BY <1>3, <2>1, <2>2 DEF Live
  <1>7. CASE p = r /\ tx'[r].id = tx[r].id /\ tx'[r].row = tx[r].row
    <2>1. tx[r].state # "none"
      BY <1>1, <1>7 DEF ProgressOK
    <2>2. call'[r].method = call[r].method
      BY <1>7, <2>1, MethodStep DEF SafetyInv
    <2> QED BY <1>4, <1>7, <2>2
  <1> QED BY <1>2, <1>5, <1>6, <1>7, TxStep DEF SafetyInv

\* An ID that somebody asked for and that has no live row is gone.
LEMMA NotLiveIsGone ==
  ASSUME SafetyInv, NEW r \in Requests, req[r].id \in SubscriptionID,
         req[r].op # "POST", ~Live(req[r].id)
  PROVE  Gone(req[r].id)
  BY NilRowAssumption DEF SafetyInv, IDInv, Gone, Live

LEMMA RemoveNext ==
  ASSUME SafetyInv, NEW p \in Requests, Step(p), LocalInv', TypeInv',
         NEW r \in Requests, call'[r].method = "RemoveByID"
  PROVE  RemoveOK(r)'
  <1>1. /\ tx[r] \in Tx /\ tx'[r] \in Tx /\ call[r] \in Call
        /\ req[r] \in Request
        /\ ProgressOK(r) /\ ProgressOK(r)' /\ StagedOK(r) /\ MethodOK(r)
    BY DEF SafetyInv, TypeInv, TypeOK, LocalInv, LocalOK
  <1>2. call[r].method = "RemoveByID" =>
          /\ req[r].id \in SubscriptionID /\ call[r].id = req[r].id
          /\ req[r].op = "DELETE" /\ RemoveOK(r)
    BY <1>1
       DEF SafetyInv, TypeInv, CallOK, MethodOK, WriteInv
  \* A request whose own state does not change, or loses its transaction.
  <1>3. ASSUME call[r].method = "RemoveByID", req'[r].id = req[r].id,
               tx'[r].id = tx[r].id, tx'[r].row = tx[r].row,
               tx'[r].state # tx[r].state => tx'[r].state = "aborted",
               call'[r].pc = "executed" => call[r].pc = "executed"
        PROVE  RemoveOK(r)'
    <2>1. Gone(req[r].id) => Gone(req[r].id)'
      BY <1>2, <1>3, GoneStable
    <2>2. ASSUME tx'[r].state \in Pending, tx'[r].row # Nil
          PROVE  tx'[r].row.sub = table'[tx'[r].id].sub
      <3>1. tx[r].state \in Pending /\ tx[r].row # Nil /\ tx[r].id = req[r].id
        BY <1>1, <1>3, <2>2 DEF ProgressOK, Pending
      <3>2. Locks(r, req[r].id)
        BY <1>2, <1>3, <3>1 DEF Locks, Pending, SafetyInv, WriteInv, OverwriteOK
      <3>3. table'[req[r].id] = table[req[r].id]
        <4>1. SUFFICES ASSUME table'[req[r].id] # table[req[r].id]
                       PROVE  FALSE
          OBVIOUS
        <4>2. Locks(p, req[r].id) /\ tx'[p].state = "committed"
          BY <1>2, <1>3, <3>2, <4>1, RowStep DEF SafetyInv, Locks
        <4>3. p # r
          BY <2>2, <4>2 DEF Pending
        <4> QED
          BY <1>2, <1>3, <3>2, <4>2, <4>3
             DEF SafetyInv, WriteInv, StagedWritesAreCurrent, Unlocked
      <3> QED BY <1>2, <1>3, <2>2, <3>1, <3>3 DEF RemoveOK
    <2> QED BY <1>2, <1>3, <2>1, <2>2 DEF RemoveOK, Pending
  <1>4. CASE p # r
    BY <1>3, <1>4, Frame DEF SafetyInv
  <1>5. CASE Handles(r)
    <2>1. tx[r] = NoTx /\ call[r] = NoCall
      BY <1>5
         DEF Handles, BindFails, PostSubscriptions, PatchSubscriptionsId,
             DeleteSubscriptionsId, GetSubscriptionsId, GetSubscriptions,
             GetSubscriptionsTotalCost, Arrives, SafetyInv, LocalInv, LocalOK,
             AnswerOK
    <2>2. UNCHANGED tx /\ call'[r].pc # "executed"
      BY <1>5, <2>1, HandlesCall DEF NoCall, SafetyInv
    <2> QED BY <2>1, <2>2 DEF RemoveOK, Pending, NoTx
  <1>6. CASE Continues(r)
    <2>1. CASE PatchUpdates(r) /\ ~UNCHANGED call
      <3>1. call'[r].method = "Update"
        BY <2>1
           DEF PatchUpdates, Answer, storageVars, Invocation, NoCall,
               SafetyInv, TypeInv, TypeOK
      <3> QED BY <3>1
    <2>2. CASE UNCHANGED call
      <3>1. UNCHANGED tx /\ req'[r].id = req[r].id
        BY <1>1, <1>6
           DEF Continues, PostAnswers, PatchUpdates, PatchAnswers,
               DeleteAnswers, GetAnswers, ListAnswers, TotalCostAnswers,
               Answer, storageVars, SafetyInv, TypeInv, TypeOK, Request
      <3> QED BY <1>3, <2>2, <3>1
    <2> QED
      BY <1>6, <2>1, <2>2
         DEF Continues, PostAnswers, PatchAnswers, DeleteAnswers, GetAnswers,
             ListAnswers, TotalCostAnswers, Answer, storageVars
  <1>7. CASE StorageOnly(r)
    <2>1. UNCHANGED req
      BY <1>7 DEF StorageOnly, serviceVars
    <2>2. ASSUME NEW pc, Goto(r, pc)
          PROVE  call'[r].pc = pc /\ call'[r].method = call[r].method
      BY <1>1, <2>2 DEF Goto, Call, SafetyInv, TypeInv, TypeOK
    <2>3. ASSUME NEW err, NEW rows, Return(r, err, rows)
          PROVE  call'[r].pc = "returned" /\ call'[r].method = call[r].method
      BY <1>1, <2>3 DEF Return, Call, SafetyInv, TypeInv, TypeOK
    <2>4. CASE BeginTx(r)
      <3>1. tx'[r].row = Nil /\ tx'[r].state = "open" /\ call'[r].pc = "exec"
        BY <2>2, <2>4
           DEF BeginTx, NoTx, SafetyInv, TypeInv, TypeOK
      <3> QED BY <3>1 DEF RemoveOK
    <2>5. CASE ExecInsert(r) \/ ExecUpdate(r)
      <3>1. call[r].method \in {"Add", "Update"} /\ Goto(r, "executed")
        BY <2>5 DEF ExecInsert, ExecUpdate, Exec
      <3> QED BY <2>2, <3>1
    <2>6. CASE ExecRemove(r)
      <3> DEFINE id == call[r].id
      <3>1. /\ call[r].method = "RemoveByID" /\ tx[r].state = "open"
            /\ tx'[r].state = "open" /\ tx'[r].id = tx[r].id
            /\ tx'[r].row = IF Live(id) THEN [table[id] EXCEPT !.deleted = TRUE]
                            ELSE Nil
            /\ UNCHANGED table
        BY <1>1, <2>6
           DEF ExecRemove, Exec, SafetyInv, TypeInv, TypeOK, Tx
      <3>2. tx'[r].id = id /\ id = req[r].id /\ id \in SubscriptionID
        BY <1>1, <1>2, <3>1 DEF ProgressOK
      <3>3. Live(id) => tx'[r].row.sub = table'[id].sub
        BY <3>1, <3>2 DEF Live, Row, SafetyInv, TypeInv, TypeOK
      <3>4. ~Live(id) => Gone(id)
        BY <1>2, <3>1, <3>2, NotLiveIsGone
      <3>5. Live(id) => tx'[r].row # Nil
        BY <3>1, <3>2, NilRowAssumption DEF Live, Row, SafetyInv, TypeInv, TypeOK
      <3> QED
        BY <2>1, <3>1, <3>2, <3>3, <3>4, <3>5 DEF RemoveOK, Pending, Gone
    <2>7. CASE SendCommit(r)
      <3>1. /\ call[r].pc = "executed" /\ call[r].method = "RemoveByID"
            /\ call'[r].pc = "committing" /\ UNCHANGED table
        BY <2>2, <2>7 DEF SendCommit, At
      <3>2. /\ tx'[r].id = tx[r].id /\ tx'[r].row = tx[r].row
            /\ \/ tx[r].state = "open" /\ tx'[r].state = "committing"
               \/ tx'[r].state = tx[r].state /\ tx[r].state = "aborted"
        BY <1>1, <2>7, <3>1
           DEF SendCommit, SafetyInv, TypeInv, TypeOK, Tx, ProgressOK
      <3> QED BY <1>2, <2>1, <3>1, <3>2 DEF RemoveOK, Pending, Gone
    <2>8. CASE DbCommit(r)
      <3>1. /\ tx[r].state = "committing" /\ UNCHANGED call
            /\ tx'[r].state = "committed"
            /\ tx'[r].id = tx[r].id /\ tx'[r].row = tx[r].row
        BY <1>1, <2>8 DEF DbCommit, SafetyInv, TypeInv, TypeOK, Tx
      <3>2. tx[r].id = req[r].id /\ call[r].method = "RemoveByID"
            /\ call[r].pc # "executed"
        BY <1>1, <3>1 DEF ProgressOK
      <3>3. Gone(req[r].id) => Gone(req[r].id)'
        BY <1>2, <1>7, <2>1, <3>2, GoneStable DEF Step
      <3>4. tx[r].row # Nil => Gone(req[r].id)'
        BY <1>1, <1>2, <2>1, <2>8, <3>1, <3>2
           DEF DbCommit, Gone, Row, Tx, StagedOK, SafetyInv, TypeInv, TypeOK
      <3> QED
        BY <1>2, <2>1, <3>1, <3>2, <3>3, <3>4 DEF RemoveOK, Pending, Gone
    <2>9. CASE CallFails(r) \/ CommitReturns(r) \/ DbAbort(r)
      <3>1. /\ tx'[r].id = tx[r].id /\ tx'[r].row = tx[r].row
            /\ tx'[r].state # tx[r].state => tx'[r].state = "aborted"
        BY <1>1, <2>9
           DEF CallFails, BeginFails, ExecFails, CommitFails, QueryFails,
               CommitReturns, DbAbort, SafetyInv, TypeInv, TypeOK, Tx
      <3>2. UNCHANGED call \/ \E err, rows : Return(r, err, rows)
        BY <2>9
           DEF CallFails, BeginFails, ExecFails, CommitFails, QueryFails,
               CommitReturns, DbAbort
      <3> QED BY <1>3, <2>1, <2>3, <3>1, <3>2
    <2>10. CASE AcquireForQuery(r) \/ QueryRow(r) \/ Query(r)
      <3>1. UNCHANGED tx /\ call[r].method \in ReadMethods
        BY <2>10
           DEF AcquireForQuery, QueryRow, Query, ReadMethods
      <3>2. Goto(r, "query") \/ \E err, rows : Return(r, err, rows)
        BY <2>10 DEF AcquireForQuery, QueryRow, Query
      <3> QED BY <2>2, <2>3, <3>1, <3>2 DEF ReadMethods
    <2> QED
      BY <1>7, <2>4, <2>5, <2>6, <2>7, <2>8, <2>9, <2>10
         DEF StorageOnly, StorageStep, CallProceeds, DbEnds
  <1> QED BY <1>4, <1>5, <1>6, <1>7 DEF Step

LEMMA MissingNext ==
  ASSUME SafetyInv, NEW p \in Requests, Step(p),
         NEW r \in Requests, call'[r].method = "FindByID",
         call'[r].pc = "returned", call'[r].err = "not_found"
  PROVE  Gone(req[r].id)'
  <1>1. call[r] \in Call /\ req[r] \in Request
    BY DEF SafetyInv, TypeInv, TypeOK
  <1>2. CASE call'[r] = call[r]
    <2>1. req[r].id \in SubscriptionID /\ Gone(req[r].id)
      BY <1>2 DEF SafetyInv, TypeInv, CallOK, WriteInv, MissingOK
    <2>2. req[r].pc # "new"
      BY <1>2 DEF SafetyInv, LocalInv, LocalOK, AnswerOK, NoCall
    <2>3. req'[r].id = req[r].id
      BY <2>2, Frame, IDStep DEF SafetyInv
    <2> QED BY <2>1, <2>3, GoneStable
  <1>3. CASE p = r /\ QueryRow(r) /\ UNCHANGED serviceVars
    <2> DEFINE id == call[r].id
    <2>1. call'[r].err = IF {id} \cap LiveIDs = {} THEN "not_found" ELSE "nil"
      BY <1>1, <1>3 DEF QueryRow, Return, SafetyInv, TypeInv, TypeOK, Call
    <2>2. id \in SubscriptionID /\ id = req[r].id /\ req[r].op # "POST"
      BY <1>3 DEF QueryRow, SafetyInv, TypeInv, CallOK, LocalInv, LocalOK, MethodOK
    <2>3. ~Live(id)
      BY <2>1, <2>2 DEF LiveIDs
    <2>4. Gone(id)
      BY <2>2, <2>3, NotLiveIsGone
    <2> QED
      BY <1>3, <2>2, <2>4, GoneStable DEF QueryRow, serviceVars
  <1>4. CASE p = r /\ Handles(r)
    BY <1>2, <1>4, HandlesCall DEF SafetyInv
  <1>5. CASE p = r /\ Continues(r)
    <2>1. \/ UNCHANGED call
          \/ \E id, sub :
               call' = [call EXCEPT ![r] = Invocation("Update", id, sub, Nil)]
      BY <1>5
         DEF Continues, PostAnswers, PatchUpdates, PatchAnswers, DeleteAnswers,
             GetAnswers, ListAnswers, TotalCostAnswers, Answer, storageVars
    <2>2. \A id, sub : Invocation("Update", id, sub, Nil).pc = "begin"
      BY DEF Invocation, NoCall
    <2> QED BY <1>2, <2>1, <2>2 DEF SafetyInv, TypeInv, TypeOK
  <1>6. CASE p = r /\ StorageOnly(r)
    <2>1. ASSUME NEW rows, NEW err \in {"nil", "error"}, Return(r, err, rows)
          PROVE  FALSE
      BY <1>1, <2>1 DEF Return, SafetyInv, TypeInv, TypeOK, Call
    <2>2. ASSUME NEW pc \in {"exec", "executed", "committing", "query"},
                 Goto(r, pc)
          PROVE  FALSE
      BY <1>1, <2>2 DEF Goto, SafetyInv, TypeInv, TypeOK, Call
    <2>3. \/ QueryRow(r) \/ UNCHANGED call
          \/ \E rows : \E err \in {"nil", "error"} : Return(r, err, rows)
          \/ \E pc \in {"exec", "executed", "committing", "query"} : Goto(r, pc)
      BY <1>6
         DEF StorageOnly, StorageStep, CallProceeds, CallFails, DbEnds,
             BeginTx, ExecInsert, ExecUpdate, ExecRemove, Exec, SendCommit,
             CommitReturns, AcquireForQuery, Query, BeginFails,
             ExecFails, CommitFails, QueryFails, DbCommit, DbAbort
    <2> QED BY <1>2, <1>3, <1>6, <2>1, <2>2, <2>3 DEF StorageOnly
  <1> QED BY <1>2, <1>3, <1>4, <1>5, <1>6, Frame DEF Step, SafetyInv

LEMMA WriteNext ==
  ASSUME SafetyInv, NEW p \in Requests, Step(p), LocalInv', TypeInv'
  PROVE  WriteInv'
  <1>1. StagedWritesAreCurrent'
    BY StagedNext
  <1>2. ASSUME NEW r \in Requests
        PROVE  RemoveOK(r)' /\ OverwriteOK(r)' /\ MissingOK(r)'
    BY StagedRowNext, RemoveNext, MissingNext
       DEF RemoveOK, OverwriteOK, MissingOK, Gone
  <1> QED BY <1>1, <1>2 DEF WriteInv

-----------------------------------------------------------------------------
(* The invariant                                                           *)

LEMMA SafetyInit == Init => SafetyInv
  <1> SUFFICES ASSUME Init
               PROVE  SafetyInv
    OBVIOUS
  <1>1. TypeInv
    BY InitType
  <1>2. \A r \in Requests :
          req[r] = NoRequest /\ call[r] = NoCall /\ tx[r] = NoTx
    BY DEF Init, StorageInit
  <1>3. LocalInv
    BY <1>2
       DEF LocalInv, LocalOK, MethodOK, ProgressOK, AnswerOK, StagedOK,
           NoRequest, NoCall, NoTx
  <1>4. IDInv
    BY <1>2 DEF IDInv, Init, NoRequest
  <1>5. WriteInv
    BY <1>2
       DEF WriteInv, RemoveOK, OverwriteOK, MissingOK, StagedWritesAreCurrent,
           Locks, NoCall, NoTx
  <1> QED BY <1>1, <1>3, <1>4, <1>5 DEF SafetyInv

LEMMA SafetyNext == SafetyInv /\ [Next]_vars => SafetyInv'
  <1> SUFFICES ASSUME SafetyInv, [Next]_vars
               PROVE  SafetyInv'
    OBVIOUS
  <1>1. TypeInv' /\ LocalInv'
    BY NextType, LocalNext DEF SafetyInv
  <1>2. ASSUME NEW p \in Requests, Step(p)
        PROVE  IDInv' /\ WriteInv'
    BY <1>1, <1>2, IDNext, WriteNext
  <1>3. CASE UNCHANGED <<table, tx, conns, call, req>>
    <2>1. IDInv'
      BY <1>3 DEF SafetyInv, IDInv
    <2>2. StagedWritesAreCurrent'
      BY <1>3
         DEF SafetyInv, WriteInv, StagedWritesAreCurrent, Locks, Unlocked, Live
    <2>3. WriteInv'
      BY <1>3, <2>2
         DEF SafetyInv, WriteInv, RemoveOK, OverwriteOK, MissingOK, Gone
    <2> QED BY <1>1, <2>1, <2>3 DEF SafetyInv
  <1> QED BY <1>1, <1>2, <1>3, NextSteps DEF SafetyInv

LEMMA SafetyCorrect == Spec => []SafetyInv
  BY SafetyInit, SafetyNext, PTL DEF Spec

-----------------------------------------------------------------------------
(* What follows                                                            *)

\* The row a statement found is the row its transaction overwrites, and nobody
\* else is about to, for any number of requests in any order: there is no lost
\* update and no revival of a deleted row between the statement and its commit.
THEOREM StagedWritesCorrect == Spec => []StagedWritesAreCurrent
  <1>1. SafetyInv => StagedWritesAreCurrent
    BY DEF SafetyInv, WriteInv
  <1> QED BY <1>1, SafetyCorrect, PTL

\* Why an answer stays true: what it rests on is committed, or gone for good.
LEMMA AnswersFollow == SafetyInv => AnswersAreFinal
  <1> SUFFICES ASSUME SafetyInv, NEW r \in Requests
               PROVE  AnswersAreFinal!(r)
    BY DEF AnswersAreFinal
  <1>1. /\ req[r] \in Request /\ MethodOK(r) /\ ProgressOK(r) /\ AnswerOK(r)
        /\ req[r].status # 0 => req[r].pc = "answered"
    BY DEF SafetyInv, TypeInv, TypeOK, LocalInv, LocalOK, AnswerOK, Request,
           NoRequest
  <1>2. \A id \in SubscriptionID : Gone(id) => ~Live(id)
    BY DEF SafetyInv, IDInv, Gone, Live
  <1>3. req[r].op \in WriteOps /\ req[r].status \in 200..204 =>
          tx[r].state = "committed"
    BY <1>1 DEF AnswerOK
  <1>4. tx[r].state = "committed" => req[r].id \in SubscriptionID
    BY <1>1 DEF ProgressOK, WriteMethods, SafetyInv, TypeInv, CallOK
  <1>5. req[r].status = 201 => table[req[r].id] # Nil
    <2>1. req[r].status = 201 =>
            req[r].op = "POST" /\ tx[r].state = "committed"
      BY <1>1, <1>3 DEF AnswerOK, WriteOps
    <2> QED BY <1>4, <2>1, NilRowAssumption DEF SafetyInv, IDInv
  <1>6. req[r].status = 204 => ~Live(req[r].id)
    <2>1. req[r].status = 204 =>
            req[r].op = "DELETE" /\ tx[r].state = "committed"
      BY <1>1, <1>3 DEF AnswerOK, WriteOps
    <2>2. req[r].status = 204 => call[r].method = "RemoveByID"
      BY <1>1, <2>1 DEF ProgressOK, MethodOK, WriteMethods
    <2> QED BY <1>2, <1>4, <2>1, <2>2 DEF SafetyInv, WriteInv, RemoveOK
  <1>7. req[r].status = 404 => ~Live(req[r].id)
    <2>1. req[r].status = 404 =>
            /\ call[r].method = "FindByID" /\ call[r].pc = "returned"
            /\ call[r].err = "not_found"
      BY <1>1 DEF AnswerOK
    <2>2. req[r].status = 404 => req[r].id \in SubscriptionID
      BY <2>1 DEF SafetyInv, TypeInv, CallOK
    <2> QED BY <1>2, <2>1, <2>2 DEF SafetyInv, WriteInv, MissingOK
  <1> QED BY <1>3, <1>5, <1>6, <1>7 DEF AnswersAreFinal, WriteOps

\* No 2xx or 404 is ever contradicted by what happens later, for any number of
\* requests, however commits and failures of the storage interleave.
THEOREM AnswersCorrect == Spec => []AnswersAreFinal
  BY AnswersFollow, SafetyCorrect, PTL

\* What the two action properties say of a step.
WritesIfUndecided ==
  \A id \in SubscriptionID :
    table'[id] # table[id] =>
      \E r \in Requests :
        /\ req[r].id = id
        /\ req[r].pc = "running" \/ req[r].status = 500
FreezesDeleted ==
  \A id \in SubscriptionID :
    table[id] # Nil /\ table[id].deleted => table'[id] = table[id]

LEMMA WritesStep ==
  ASSUME SafetyInv, [Next]_vars
  PROVE  WritesIfUndecided /\ FreezesDeleted
  <1>1. WritesIfUndecided
    <2>1. CASE UNCHANGED table
      BY <2>1 DEF WritesIfUndecided
    <2>2. ASSUME NEW p \in Requests, Step(p)
          PROVE  WritesIfUndecided
      BY <2>2, RowStep DEF SafetyInv, WritesIfUndecided
    <2> QED BY <2>1, <2>2, NextSteps
  <1>2. FreezesDeleted
    BY NextSteps, RowStable DEF FreezesDeleted
  <1> QED BY <1>1, <1>2

\* A request that was answered 400 or 404, or with success, writes nothing any
\* more, and one whose body was not accepted never has.
THEOREM WritersAreUndecided == Spec => OnlyUndecidedRequestsWrite
  <1>1. SafetyInv /\ [Next]_vars => WritesIfUndecided
    BY WritesStep
  <1> QED
    BY <1>1, SafetyCorrect, PTL
       DEF Spec, OnlyUndecidedRequestsWrite, WritesIfUndecided

\* Once a row is marked deleted no step changes it.
THEOREM DeletedRowsFrozen == Spec => DeletedRowsAreFrozen
  <1>1. SafetyInv /\ [Next]_vars => FreezesDeleted
    BY WritesStep
  <1> QED
    BY <1>1, SafetyCorrect, PTL DEF Spec, DeletedRowsAreFrozen, FreezesDeleted
=============================================================================
