------------------------ MODULE SubscriptionService ------------------------
(***************************************************************************)
(* The HTTP service: the handlers of handlers.go, the generated wrappers   *)
(* around them (api.gen.go, both in src/src/internal/http/api) and the     *)
(* methods of src/src/internal/service/impl.go they call, on top of the    *)
(* storage.                                                                *)
(*                                                                         *)
(* Every request runs in a goroutine of its own and shares with the others *)
(* only the storage, so the state of a request is what it was asked, the   *)
(* storage call it is in and, in the end, its answer.  A handler runs from *)
(* one storage call to the next in one step: in between it touches only    *)
(* its own variables and the clock.                                        *)
(*                                                                         *)
(* An operator whose comment begins "A mistake" is a faulty variant of the *)
(* one that follows and no part of the specification.                      *)
(***************************************************************************)
EXTENDS SubscriptionsStorage, ServiceInterface

VARIABLES
  now,   \* the day time.Now() is in
  req    \* req[r]: request r and its answer

serviceVars == <<now, req>>
vars == <<now, req, storageVars>>

Init ==
  /\ StorageInit
  /\ table[StrayID] = Nil
  /\ now = Today
  /\ req = [r \in Requests |-> NoRequest]

-----------------------------------------------------------------------------
(* A request's way through its handler                                     *)

Arrives(r, op) == req[r].pc = "new" /\ op \in Operations

\* The handler calls the storage for the first time.
Start(r, op, id, args, invocation) ==
  /\ req' = [req EXCEPT ![r] = [NoRequest EXCEPT !.pc = "running", !.op = op,
                                                 !.id = id, !.args = args]]
  /\ call' = [call EXCEPT ![r] = invocation]
  /\ UNCHANGED <<table, tx, conns, now>>

\* The handler answers without calling the storage.
Reject(r, op, id, args) ==
  /\ req' = [req EXCEPT ![r] = [NoRequest EXCEPT !.pc = "answered", !.op = op,
                                                 !.id = id, !.args = args,
                                                 !.status = 400]]
  /\ UNCHANGED <<now, storageVars>>

\* The storage method `method` has returned to the service method of `op`.
Returned(r, op, method) ==
  /\ req[r].pc = "running"
  /\ req[r].op = op
  /\ call[r].method = method
  /\ At(r, "returned")

Answer(r, status, body) ==
  /\ req' = [req EXCEPT ![r].pc = "answered", ![r].status = status,
                        ![r].body = body]
  /\ UNCHANGED <<now, storageVars>>

\* A mistake: every error of the storage is taken for a missing row.
ErrorStatusNotFound(err) == 404

\* The status the service's mapping of a storage error and handleServiceError
\* give together: ErrNotFound is 404, every other error ErrInternal, 500.
ErrorStatus(err) == IF err = "not_found" THEN 404 ELSE 500

\* The IDs a client can name: those stored at some time, and one that never
\* was.
NamedIDs == {id \in SubscriptionID : table[id] # Nil} \cup {StrayID}

\* uuid.NewV7 repeats no ID.  Their number is a bound of the model.
FreshIDs ==
  {id \in SubscriptionID \ {StrayID} :
     table[id] = Nil /\ \A q \in Requests : req[q].id # id}

-----------------------------------------------------------------------------
\* Binding of the path, the query or the body fails in the generated wrappers:
\* a 400 (of which 415, for a body of a foreign media type, is not told apart).
\* GET /subscriptions binds nothing.
BindFails(r) ==
  \E op \in Ops \ {"LIST"} : Arrives(r, op) /\ Reject(r, op, Nil, Nil)

PostSubscriptions(r) ==
  /\ Arrives(r, "POST")
  /\ \E a \in Bodies :
       \/ /\ NewSubscriptionAccepted(a, now)
          /\ \E id \in FreshIDs :
               Start(r, "POST", id, a,
                     Invocation("Add", id, NewSubscription(a), Nil))
       \/ /\ ~NewSubscriptionAccepted(a, now)
          /\ Reject(r, "POST", Nil, a)

PostAnswers(r) ==
  /\ Returned(r, "POST", "Add")
  /\ IF call[r].err = "nil"
     THEN Answer(r, 201, OneRow(req[r].id, call[r].sub))
     ELSE Answer(r, 500, NoRows)

PatchSubscriptionsId(r) ==
  /\ Arrives(r, "PATCH")
  /\ \E id \in NamedIDs, a \in Bodies :
       Start(r, "PATCH", id, a, Invocation("FindByID", id, Nil, Nil))

\* UpdateExistingSubscription after FindByID: the mutators on the subscription
\* it read, then Update.
PatchUpdates(r) ==
  LET id == req[r].id
      found == call[r].rows[id]
      u == req[r].args
  IN
  /\ Returned(r, "PATCH", "FindByID")
  /\ \/ /\ call[r].err = "nil"
        /\ UpdateAccepted(found, u, now)
        /\ call' = [call EXCEPT
                      ![r] = Invocation("Update", id, Updated(found, u), Nil)]
        /\ UNCHANGED <<table, tx, conns, now, req>>
     \/ /\ call[r].err = "nil"
        /\ ~UpdateAccepted(found, u, now)
        /\ Answer(r, 400, NoRows)
     \/ /\ call[r].err # "nil"
        /\ Answer(r, ErrorStatus(call[r].err), NoRows)

PatchAnswers(r) ==
  /\ Returned(r, "PATCH", "Update")
  /\ IF call[r].err = "nil"
     THEN Answer(r, 200, OneRow(req[r].id, call[r].sub))
     ELSE Answer(r, 500, NoRows)

DeleteSubscriptionsId(r) ==
  /\ Arrives(r, "DELETE")
  /\ \E id \in NamedIDs :
       Start(r, "DELETE", id, Nil, Invocation("RemoveByID", id, Nil, Nil))

DeleteAnswers(r) ==
  /\ Returned(r, "DELETE", "RemoveByID")
  /\ IF call[r].err = "nil"
     THEN Answer(r, 204, NoRows)
     ELSE Answer(r, ErrorStatus(call[r].err), NoRows)

GetSubscriptionsId(r) ==
  /\ Arrives(r, "GET")
  /\ \E id \in NamedIDs :
       Start(r, "GET", id, Nil, Invocation("FindByID", id, Nil, Nil))

GetAnswers(r) ==
  /\ Returned(r, "GET", "FindByID")
  /\ IF call[r].err = "nil"
     THEN Answer(r, 200, call[r].rows)
     ELSE Answer(r, ErrorStatus(call[r].err), NoRows)

GetSubscriptions(r) ==
  /\ Arrives(r, "LIST")
  /\ Start(r, "LIST", Nil, Nil, Invocation("Find", Nil, Nil, NoFilter))

\* A mistake: the nil of a failed Find is marshalled as null.
ListAnswersNull(r) ==
  /\ Returned(r, "LIST", "Find")
  /\ IF call[r].err = "nil"
     THEN Answer(r, 200, call[r].rows)
     ELSE Answer(r, 200, Nil)

\* GetSubscriptions returns nil for an error, so the answer is an empty list.
ListAnswers(r) ==
  /\ Returned(r, "LIST", "Find")
  /\ Answer(r, 200, call[r].rows)

GetSubscriptionsTotalCost(r) ==
  /\ Arrives(r, "TOTAL")
  /\ \E f \in CostQueries :
       \/ /\ CostQueryAccepted(f)
          /\ Start(r, "TOTAL", Nil, f, Invocation("Find", Nil, Nil, f))
       \/ /\ ~CostQueryAccepted(f)
          /\ Reject(r, "TOTAL", Nil, f)

\* The answer is the sum of the prices of these rows.
TotalCostAnswers(r) ==
  /\ Returned(r, "TOTAL", "Find")
  /\ IF call[r].err = "nil"
     THEN Answer(r, 200, call[r].rows)
     ELSE Answer(r, 500, NoRows)

-----------------------------------------------------------------------------
Handles(r) ==
  \/ BindFails(r)
  \/ PostSubscriptions(r) \/ PatchSubscriptionsId(r) \/ DeleteSubscriptionsId(r)
  \/ GetSubscriptionsId(r) \/ GetSubscriptions(r)
  \/ GetSubscriptionsTotalCost(r)

Continues(r) ==
  \/ PostAnswers(r) \/ PatchUpdates(r) \/ PatchAnswers(r)
  \/ DeleteAnswers(r) \/ GetAnswers(r) \/ ListAnswers(r) \/ TotalCostAnswers(r)

Tick ==
  /\ now < LastDay
  /\ now' = now + 1
  /\ UNCHANGED <<req, storageVars>>

\* No request is running and the database is at rest.
Quiet ==
  /\ \A r \in Requests :
       req[r].pc # "running" /\ tx[r].state \notin {"open", "committing"}
  /\ UNCHANGED vars

Next ==
  \/ \E r \in Requests : Handles(r)
  \/ \E r \in Requests : Continues(r)
  \/ \E r \in Requests : StorageStep(r) /\ UNCHANGED serviceVars
  \/ Tick
  \/ Quiet

Spec == Init /\ [][Next]_vars

-----------------------------------------------------------------------------
(* Fairness: a goroutine whose next step is possible takes it, a lost      *)
(* session is reported to it, and PostgreSQL ends every transaction it was *)
(* asked to commit or whose client has left it.  That a call fails for any *)
(* other reason, that the clock moves and that requests arrive is never    *)
(* assumed.                                                                *)

Proceeds(r) ==
  \/ CallProceeds(r) /\ UNCHANGED serviceVars
  \/ /\ tx[r].state = "aborted"
     /\ ExecFails(r) \/ CommitFails(r)
     /\ UNCHANGED serviceVars
  \/ Continues(r)

DbSettles(r) ==
  /\ tx[r].state = "committing" \/ r \notin conns
  /\ DbEnds(r)
  /\ UNCHANGED serviceVars

Fairness == \A r \in Requests : WF_vars(Proceeds(r)) /\ WF_vars(DbSettles(r))

FairSpec == Spec /\ Fairness

-----------------------------------------------------------------------------
(* Properties                                                              *)

\* Every variable has its type.
TypeOK ==
  /\ table \in [SubscriptionID -> Row \cup {Nil}]
  /\ tx \in [Requests -> Tx]
  /\ conns \subseteq Requests
  /\ call \in [Requests -> Call]
  /\ now \in Nat
  /\ req \in [Requests -> Request]

\* No path through a storage method, failing ones included, keeps a connection
\* after it has returned or gives back one that is still in use, and the pool
\* never hands out more than it has (the deferred Rollback, Commit, rows.Close).
ConnectionsAccountedFor ==
  /\ conns = {r \in Requests :
                call[r].pc \in {"exec", "executed", "committing", "query"}}
  /\ Cardinality(conns) <= PoolSize

\* What a statement found when it ran still holds when it is committed: the row
\* an open transaction is about to overwrite is live, and it alone is about to,
\* also when the request that began it has been answered long ago.
StagedWritesAreCurrent ==
  \A r \in Requests : \A id \in SubscriptionID :
    Locks(r, id) => Live(id) /\ Unlocked(r, id)

\* Whatever was checked before a transaction began holds of the row it left,
\* however long it took: an owner, a name, a price of at least 0 (the CHECK of
\* the table), a start that has come, an end not before the start.
StoredSubsAreValid ==
  \A id \in SubscriptionID :
    table[id] # Nil => ValidSub(table[id].sub, now)

\* sub is under id because of one request, as a whole: that request is a POST
\* or PATCH of id whose transaction is committed, or an earlier run stored it.
Authored(id, sub) ==
  \/ \E row \in SeedRows : sub = row.sub
  \/ \E r \in Requests :
       /\ req[r].id = id
       /\ tx[r].state = "committed"
       /\ \/ req[r].op = "POST" /\ sub = NewSubscription(req[r].args)
          \/ req[r].op = "PATCH" /\ sub = req[r].args

\* No stored subscription, and none a read answers with, is a mixture of two
\* requests, of a request and the row it replaced (Update sets every column,
\* and ResetEndTime has cleared the end the client left out), or of something
\* that was never committed.
NoTornSubscription ==
  \A id \in SubscriptionID :
    /\ table[id] # Nil => Authored(id, table[id].sub)
    /\ \A r \in Requests :
         req[r].op \in {"GET", "LIST", "TOTAL"} /\ req[r].body[id] # Nil
           => Authored(id, req[r].body[id])

\* An answer that names an outcome is final: the row of a 201 is and stays in
\* the table, the ID of a 204 or 404 is and stays without a live row whatever
\* was under way, and every success of a write, the 200 of a PATCH among them,
\* comes after its transaction was committed.
AnswersAreFinal ==
  \A r \in Requests :
    /\ req[r].status = 201 => table[req[r].id] # Nil
    /\ req[r].status \in {204, 404} => ~Live(req[r].id)
    /\ req[r].op \in {"POST", "PATCH", "DELETE"} /\ req[r].status \in 200..204
         => tx[r].state = "committed"

\* The table changes only on behalf of a request that is still unanswered or
\* was answered 500: one answered 400 or 404 has no effect, and one answered
\* 2xx no further effect, not even through a transaction that lingers.
OnlyUndecidedRequestsWrite ==
  [][\A id \in SubscriptionID :
       table'[id] # table[id] =>
         \E r \in Requests :
           /\ req[r].id = id
           /\ req[r].pc = "running" \/ req[r].status = 500]_vars

\* A deleted subscription is final: no later step touches its row, neither an
\* Update that had found it live nor a commit that comes late.
DeletedRowsAreFrozen ==
  [][\A id \in SubscriptionID :
       table[id] # Nil /\ table[id].deleted => table'[id] = table[id]]_vars

\* Every request that has entered a storage method is answered, although taking
\* a connection and waiting for a row have no deadline.  An UPDATE that waits for
\* a row holds a connection, but whoever holds the row has its connection
\* already: nobody waits for a connection while it holds a row or another
\* connection (PATCH gives its first one back), so the waits form no cycle.
EveryRequestIsAnswered ==
  \A r \in Requests : req[r].pc = "running" ~> req[r].pc = "answered"

-----------------------------------------------------------------------------
(* What the API document and the code's own messages say, and the code     *)
(* does not do.                                                            *)

\* swagger.yml documents 404 for the DELETE of a subscription that was not
\* found, and impl.go:128 maps one: a 204 is for a row that was there.
DeleteReportsMissing ==
  \A r \in Requests : req[r].status = 204 => tx[r].row # Nil

\* swagger.yml documents 404 for the PATCH of a subscription that is not found
\* and 200 with its details otherwise: a 200 is for a row that was updated.
PatchReportsMissing ==
  \A r \in Requests :
    req[r].op = "PATCH" /\ req[r].status = 200 => tx[r].row # Nil

\* swagger.yml documents 500 for a server error of GET /subscriptions.
ListReportsErrors ==
  \A r \in Requests :
    req[r].op = "LIST" /\ req[r].pc = "answered" /\ call[r].err # "nil"
      => req[r].status = 500

\* Both ways to set a name reject one that "is not provided"; for a new
\* subscription a name of blanks is one.
StoredNamesAreNotBlank ==
  \A id \in SubscriptionID :
    table[id] # Nil => Trim[table[id].sub.service] # Empty
=============================================================================
