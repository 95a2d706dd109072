-------------------- MODULE SubscriptionRefinementProofs --------------------
(***************************************************************************)
(* The proof that the service implements AtomicSubscriptions: every step   *)
(* of a request is a step of the atomic service, or invisible there.       *)
(***************************************************************************)
EXTENDS SubscriptionRefinement, SubscriptionContentProofs

-----------------------------------------------------------------------------
(* The invariant: what is known of the invariants of the other proofs,     *)
(* and of every request                                                    *)

\* A Find has the filter of its operation; a call that failed returns no rows.
ResultOK(r) ==
  /\ call[r].method = "Find" =>
       call[r].filter = IF req[r].op = "LIST" THEN NoFilter ELSE req[r].args
  /\ At(r, "returned") /\ call[r].err = "error" => call[r].rows = NoRows

\* An Update that has found no row to write finds none later: what it reports
\* as done when it commits is then to do nothing.
MissedOK(r) ==
  call[r].method = "Update" /\ tx[r].row = Nil
    /\ (At(r, "executed") \/ tx[r].state = "committing")
    => Gone(req[r].id)

RefinementInv == ValidInv /\ \A r \in Requests : ResultOK(r) /\ MissedOK(r)

LEMMA RefinementInvParts ==
  ASSUME RefinementInv
  PROVE  ValidInv /\ SafetyInv /\ TypeInv /\ LocalInv /\ IDInv /\ WriteInv
  BY DEF RefinementInv, ValidInv, SafetyInv

\* A step of the call of r that moves it on, or ends it.
LEMMA GotoFields ==
  ASSUME TypeInv, NEW r \in Requests, NEW pc, Goto(r, pc)
  PROVE  call'[r] = [call[r] EXCEPT !.pc = pc]
         /\ call'[r].pc = pc /\ call'[r].method = call[r].method
         /\ call'[r].filter = call[r].filter
  BY DEF Goto, Call, TypeInv, TypeOK

LEMMA ReturnFields ==
  ASSUME TypeInv, NEW r \in Requests, NEW err, NEW rows, Return(r, err, rows)
  PROVE  /\ call'[r].pc = "returned" /\ call'[r].err = err
         /\ call'[r].rows = rows /\ call'[r].method = call[r].method
         /\ call'[r].filter = call[r].filter
  BY DEF Return, Call, TypeInv, TypeOK

LEMMA InvocationFields ==
  ASSUME NEW method, NEW id, NEW sub, NEW filter
  PROVE  /\ Invocation(method, id, sub, filter).pc = "begin"
         /\ Invocation(method, id, sub, filter).method = method
         /\ Invocation(method, id, sub, filter).id = id
         /\ Invocation(method, id, sub, filter).sub = sub
         /\ Invocation(method, id, sub, filter).filter = filter
  BY DEF Invocation, NoCall

LEMMA StartFields ==
  ASSUME TypeInv, NEW r \in Requests, NEW op, NEW id, NEW args,
         NEW method, NEW sub, NEW filter,
         Start(r, op, id, args, Invocation(method, id, sub, filter))
  PROVE  /\ call'[r].pc = "begin" /\ call'[r].method = method
         /\ call'[r].filter = filter
         /\ req'[r].op = op /\ req'[r].args = args
         /\ req'[r].pc = "running" /\ UNCHANGED tx
  BY InvocationFields DEF Start, NoRequest, TypeInv, TypeOK

\* What a storage step of r does to its call.
LEMMA CallForms ==
  ASSUME NEW r \in Requests, StorageOnly(r)
  PROVE  \/ UNCHANGED call
         \/ \E pc \in {"exec", "executed", "committing", "query"} : Goto(r, pc)
         \/ Return(r, "error", NoRows)
         \/ \E rows : \E err \in {"nil", "not_found"} : Return(r, err, rows)
  BY DEF StorageOnly, StorageStep, CallProceeds, CallFails, DbEnds,
         BeginTx, ExecInsert, ExecUpdate, ExecRemove, Exec, SendCommit,
         CommitReturns, AcquireForQuery, QueryRow, Query, BeginFails,
         ExecFails, CommitFails, QueryFails, DbCommit, DbAbort

LEMMA ResultNext ==
  ASSUME TypeInv, LocalInv, NEW r \in Requests, Step(r), ResultOK(r)
  PROVE  ResultOK(r)'
  <1>1. req[r] \in Request /\ MethodOK(r) /\ AnswerOK(r)
    BY DEF TypeInv, TypeOK, LocalInv, LocalOK
  <1>2. CASE Handles(r)
    <2>1. ASSUME NEW op, NEW args, Reject(r, op, Nil, args)
          PROVE  ResultOK(r)'
      <3>1. call'[r] = NoCall
        BY <1>1, <1>2, <2>1
           DEF AnswerOK, Reject, storageVars, Handles, BindFails,
               PostSubscriptions, PatchSubscriptionsId, DeleteSubscriptionsId,
               GetSubscriptionsId, GetSubscriptions, GetSubscriptionsTotalCost,
               Arrives
      <3> QED BY <3>1 DEF ResultOK, NoCall, At
    <2>2. ASSUME NEW op, NEW id, NEW args, NEW method, NEW sub, NEW filter,
                 method = "Find" =>
                   filter = IF op = "LIST" THEN NoFilter ELSE args,
                 Start(r, op, id, args, Invocation(method, id, sub, filter))
          PROVE  ResultOK(r)'
      <3>1. /\ call'[r].pc = "begin" /\ call'[r].method = method
            /\ call'[r].filter = filter
            /\ req'[r].op = op /\ req'[r].args = args
        BY <2>2, StartFields
      <3> QED BY <2>2, <3>1 DEF ResultOK, At
    <2>3. CASE BindFails(r)
      BY <2>1, <2>3 DEF BindFails
    <2>4. CASE PostSubscriptions(r)
      BY <2>1, <2>2, <2>4 DEF PostSubscriptions
    <2>5. CASE PatchSubscriptionsId(r)
      BY <2>2, <2>5 DEF PatchSubscriptionsId
    <2>6. CASE DeleteSubscriptionsId(r)
      BY <2>2, <2>6 DEF DeleteSubscriptionsId
    <2>7. CASE GetSubscriptionsId(r)
      BY <2>2, <2>7 DEF GetSubscriptionsId
    <2>8. CASE GetSubscriptions(r)
      BY <2>2, <2>8 DEF GetSubscriptions
    <2>9. CASE GetSubscriptionsTotalCost(r)
      BY <2>1, <2>2, <2>9 DEF GetSubscriptionsTotalCost
    <2> QED
      BY <1>2, <2>3, <2>4, <2>5, <2>6, <2>7, <2>8, <2>9 DEF Handles
  <1>3. CASE Continues(r)
    <2>1. req[r].pc # "new"
      BY <1>3 DEF Continues, PostAnswers, PatchUpdates, PatchAnswers,
                  DeleteAnswers, GetAnswers, ListAnswers, TotalCostAnswers,
                  Returned
    <2>2. req'[r].op = req[r].op /\ req'[r].args = req[r].args
      BY <2>1, RequestStep
    <2>3. \/ UNCHANGED call
          \/ \E id, sub :
               call' = [call EXCEPT ![r] = Invocation("Update", id, sub, Nil)]
      BY <1>3
         DEF Continues, PostAnswers, PatchUpdates, PatchAnswers, DeleteAnswers,
             GetAnswers, ListAnswers, TotalCostAnswers, Answer, storageVars
    <2>4. CASE UNCHANGED call
      BY <2>2, <2>4 DEF ResultOK, At
    <2>5. ASSUME NEW id, NEW sub,
                 call' = [call EXCEPT ![r] = Invocation("Update", id, sub, Nil)]
          PROVE  ResultOK(r)'
      <3>1. call'[r].pc = "begin" /\ call'[r].method = "Update"
        BY <2>5, InvocationFields DEF TypeInv, TypeOK
      <3> QED BY <3>1 DEF ResultOK, At
    <2> QED BY <2>3, <2>4, <2>5
  <1>4. CASE StorageOnly(r)
    <2>1. UNCHANGED req
      BY <1>4 DEF StorageOnly, serviceVars
    <2>2. CASE UNCHANGED call
      BY <2>1, <2>2 DEF ResultOK, At
    <2>3. CASE \E pc \in {"exec", "executed", "committing", "query"} : Goto(r, pc)
      BY <2>1, <2>3, GotoFields DEF ResultOK, At
    <2>4. CASE \/ Return(r, "error", NoRows)
               \/ \E rows : \E err \in {"nil", "not_found"} : Return(r, err, rows)
      BY <2>1, <2>4, ReturnFields DEF ResultOK, At
    <2> QED BY <1>4, <2>2, <2>3, <2>4, CallForms
  <1> QED BY <1>2, <1>3, <1>4 DEF Step

LEMMA MissedNext ==
  ASSUME SafetyInv, NEW p \in Requests, Step(p), TypeInv',
         NEW r \in Requests, MissedOK(r)
  PROVE  MissedOK(r)'
  <1>1. /\ tx[r] \in Tx /\ call[r] \in Call /\ req[r] \in Request
        /\ ProgressOK(r) /\ MethodOK(r) /\ TypeInv /\ LocalInv
    BY DEF SafetyInv, TypeInv, TypeOK, LocalInv, LocalOK
  <1>2. call[r].method = "Update" =>
          /\ req[r].id \in SubscriptionID /\ call[r].id = req[r].id
          /\ req[r].op = "PATCH"
    BY <1>1 DEF TypeInv, CallOK, MethodOK
  \* No statement runs.
  <1>3. ASSUME call[r].method = "Update", req'[r].id = req[r].id,
               tx'[r].row = tx[r].row,
               tx'[r].state = "committing" =>
                 tx[r].state = "committing" \/ call[r].pc = "executed",
               call'[r].pc = "executed" => call[r].pc = "executed"
        PROVE  MissedOK(r)'
    <2>1. Gone(req[r].id) => Gone(req[r].id)'
      BY <1>2, <1>3, GoneStable
    <2> QED BY <1>3, <2>1 DEF MissedOK, At
  <1>4. CASE p # r
    BY <1>1, <1>3, <1>4, Frame DEF MissedOK
  <1>5. CASE Handles(r)
    <2>1. tx[r] = NoTx /\ call[r] = NoCall
      BY <1>5
         DEF Handles, BindFails, PostSubscriptions, PatchSubscriptionsId,
             DeleteSubscriptionsId, GetSubscriptionsId, GetSubscriptions,
             GetSubscriptionsTotalCost, Arrives, SafetyInv, LocalInv, LocalOK,
             AnswerOK
    <2>2. UNCHANGED tx /\ call'[r].pc # "executed"
      BY <1>1, <1>5, <2>1, HandlesCall DEF NoCall
    <2> QED BY <2>1, <2>2 DEF MissedOK, NoTx, At
  <1>6. CASE Continues(r)
    <2>1. UNCHANGED tx
      BY <1>6
         DEF Continues, PostAnswers, PatchUpdates, PatchAnswers, DeleteAnswers,
             GetAnswers, ListAnswers, TotalCostAnswers, Answer, storageVars
    <2>2. CASE PatchUpdates(r) /\ ~UNCHANGED call
      <3>1. call'[r].pc = "begin"
        BY <1>1, <2>2, InvocationFields
           DEF PatchUpdates, Answer, storageVars, TypeInv, TypeOK
      <3>2. tx[r].state = "none"
        BY <1>1, <2>2 DEF PatchUpdates, Returned, ProgressOK, WriteMethods
      <3> QED BY <2>1, <3>1, <3>2 DEF MissedOK, At
    <2>3. CASE UNCHANGED call
      <3>1. req'[r].id = req[r].id
        BY <1>1, <1>6, RequestStep
           DEF Step, Continues, PostAnswers, PatchUpdates, PatchAnswers,
               DeleteAnswers, GetAnswers, ListAnswers, TotalCostAnswers,
               Returned
      <3> QED BY <1>3, <2>1, <2>3, <3>1 DEF MissedOK
    <2> QED
      BY <1>6, <2>2, <2>3
         DEF Continues, PostAnswers, PatchAnswers, DeleteAnswers, GetAnswers,
             ListAnswers, TotalCostAnswers, Answer, storageVars
  <1>7. CASE StorageOnly(r)
    <2>1. UNCHANGED req
      BY <1>7 DEF StorageOnly, serviceVars
    <2>2. call'[r].method = call[r].method
      BY <1>1, <1>7, GotoFields, ReturnFields, CallForms
    <2>3. CASE ExecUpdate(r)
      <3> DEFINE id == call[r].id
      <3>1. /\ call[r].method = "Update" /\ UNCHANGED table
            /\ tx'[r].row = IF Live(id)
                            THEN [table[id] EXCEPT !.sub = call[r].sub]
                            ELSE Nil
        BY <1>1, <2>3 DEF ExecUpdate, Exec, TypeInv, TypeOK, Tx
      <3>2. Live(id) => tx'[r].row # Nil
        BY <1>1, <1>2, <3>1, NilRowAssumption
           DEF Live, Row, TypeInv, TypeOK, CallOK
      <3>3. ~Live(id) => Gone(id)
        BY <1>2, <3>1, NotLiveIsGone
      <3> QED
        BY <1>2, <2>1, <3>1, <3>2, <3>3 DEF MissedOK, Gone
    <2>4. CASE ExecInsert(r) \/ ExecRemove(r)
      <3>1. call[r].method # "Update"
        BY <2>4 DEF ExecInsert, ExecRemove, Exec
      <3> QED BY <2>2, <3>1 DEF MissedOK
    <2>5. CASE ~(ExecInsert(r) \/ ExecUpdate(r) \/ ExecRemove(r))
      <3>1. call'[r].pc = "executed" => call[r].pc = "executed"
        <4>1. \/ UNCHANGED call
              \/ \E pc \in {"exec", "committing", "query"} : Goto(r, pc)
              \/ \E err, rows : Return(r, err, rows)
          BY <1>7, <2>5
             DEF StorageOnly, StorageStep, CallProceeds, CallFails, DbEnds,
                 BeginTx, SendCommit, CommitReturns, AcquireForQuery, QueryRow,
                 Query, BeginFails, ExecFails, CommitFails, QueryFails,
                 DbCommit, DbAbort
        <4> QED BY <1>1, <4>1, GotoFields, ReturnFields
      <3>2. CASE BeginTx(r)
        <4>1. call'[r].pc = "exec" /\ tx'[r].state = "open"
          BY <1>1, <3>2, GotoFields DEF BeginTx, NoTx, TypeInv, TypeOK
        <4> QED BY <4>1 DEF MissedOK, At
      <3>3. CASE SendCommit(r)
        <4>1. call[r].pc = "executed" /\ tx'[r].row = tx[r].row
          BY <1>1, <3>3 DEF SendCommit, At, TypeInv, TypeOK, Tx
        <4> QED BY <1>3, <2>1, <2>2, <3>1, <4>1 DEF MissedOK
      <3>4. CASE ~BeginTx(r) /\ ~SendCommit(r)
        <4>1. tx'[r].row = tx[r].row
              /\ (tx'[r].state = "committing" => tx[r].state = "committing")
          BY <1>1, <1>7, <2>5, <3>4
             DEF StorageOnly, StorageStep, CallProceeds, CallFails, DbEnds,
                 CommitReturns, AcquireForQuery, QueryRow, Query, BeginFails,
                 ExecFails, CommitFails, QueryFails, DbCommit, DbAbort,
                 TypeInv, TypeOK, Tx
        <4> QED BY <1>3, <2>1, <2>2, <3>1, <4>1 DEF MissedOK
      <3> QED BY <3>2, <3>3, <3>4
    <2> QED BY <2>3, <2>4, <2>5
  <1> QED BY <1>4, <1>5, <1>6, <1>7 DEF Step

LEMMA RefinementInit == Init => RefinementInv
  <1> SUFFICES ASSUME Init
               PROVE  RefinementInv
    OBVIOUS
  <1>1. ValidInv
    BY SafetyInit, SeedAssumption
       DEF ValidInv, Init, StorageInit, StoredSubsAreValid, CallsAreValid,
           NoCall
  <1>2. \A r \in Requests : call[r] = NoCall
    BY DEF Init, StorageInit
  <1> QED
    BY <1>1, <1>2 DEF RefinementInv, ResultOK, MissedOK, NoCall, At

LEMMA RefinementNext == RefinementInv /\ [Next]_vars => RefinementInv'
  <1> SUFFICES ASSUME RefinementInv, [Next]_vars
               PROVE  RefinementInv'
    OBVIOUS
  <1>1. ValidInv /\ SafetyInv /\ TypeInv /\ LocalInv
    BY RefinementInvParts
  <1>2. ValidInv' /\ TypeInv'
    BY <1>1, ValidNext DEF ValidInv, SafetyInv
  <1>3. ASSUME NEW r \in Requests
        PROVE  ResultOK(r)' /\ MissedOK(r)'
    <2>1. ResultOK(r) /\ MissedOK(r)
      BY DEF RefinementInv
    <2>2. ASSUME NEW p \in Requests, Step(p)
          PROVE  ResultOK(r)' /\ MissedOK(r)'
      <3>1. CASE p = r
        BY <1>1, <1>2, <2>1, <2>2, <3>1, ResultNext, MissedNext
      <3>2. CASE p # r
        <4>1. ResultOK(r)'
          BY <1>1, <2>1, <2>2, <3>2, Frame DEF ResultOK, At
        <4> QED BY <1>1, <1>2, <2>1, <2>2, <4>1, MissedNext
      <3> QED BY <3>1, <3>2
    <2>3. CASE UNCHANGED <<table, tx, conns, call, req>>
      BY <2>1, <2>3 DEF ResultOK, MissedOK, At, Gone
    <2> QED BY <2>2, <2>3, NextSteps
  <1> QED BY <1>2, <1>3 DEF RefinementInv

LEMMA RefinementCorrect == Spec => []RefinementInv
  BY RefinementInit, RefinementNext, PTL DEF Spec

-----------------------------------------------------------------------------
(* The two specifications speak of the same things                         *)

LEMMA SameRequests ==
  /\ Atomic!Bodies = Bodies
  /\ Atomic!NoRows = NoRows
  /\ Atomic!NoRequest = NoRequest
  /\ \A f : Atomic!CostQueryAccepted(f) <=> CostQueryAccepted(f)
  /\ \A id, sub : Atomic!OneRow(id, sub) = OneRow(id, sub)
  <1>1. \A p : Atomic!Decode(p) = Decode(p)
    BY DEF Atomic!Decode, Decode
  <1>2. Atomic!Bodies = Bodies
    BY <1>1 DEF Atomic!Bodies, Bodies
  <1>3. Atomic!NoRows = NoRows
    BY DEF Atomic!NoRows, NoRows
  <1>4. Atomic!NoRequest = NoRequest
    BY <1>3 DEF Atomic!NoRequest, NoRequest
  <1>5. \A f : Atomic!CostQueryAccepted(f) <=> CostQueryAccepted(f)
    BY DEF Atomic!CostQueryAccepted, CostQueryAccepted
  <1>6. \A id, sub : Atomic!OneRow(id, sub) = OneRow(id, sub)
    BY <1>3 DEF Atomic!OneRow, OneRow
  <1> QED BY <1>2, <1>3, <1>4, <1>5, <1>6

LEMMA SameSubscriptions ==
  /\ \A a : Atomic!NewSubscription(a) = NewSubscription(a)
  /\ \A a, d : Atomic!NewSubscriptionAccepted(a, d)
                 <=> NewSubscriptionAccepted(a, d)
  /\ \A s, u, d : Atomic!UpdateAccepted(s, u, d) <=> UpdateAccepted(s, u, d)
  /\ \A f, s : Atomic!Matches(f, s) <=> Matches(f, s)
  <1>1. \A a : Atomic!NewSubscription(a) = NewSubscription(a)
    BY DEF Atomic!NewSubscription, NewSubscription
  <1>2. \A a, d : Atomic!NewSubscriptionAccepted(a, d)
                    <=> NewSubscriptionAccepted(a, d)
    BY DEF Atomic!NewSubscriptionAccepted, NewSubscriptionAccepted
  <1>3. \A s, u, d : Atomic!UpdateAccepted(s, u, d) <=> UpdateAccepted(s, u, d)
    BY DEF Atomic!UpdateAccepted, Atomic!Restarted, Atomic!ResetEndTime,
           Atomic!ChangeOwner, Atomic!ChangeOwnerAccepted,
           Atomic!ChangeStartTimeAccepted, Atomic!ChangeStartTime,
           Atomic!ChangeEndTimeAccepted, Atomic!ChangePriceAccepted,
           Atomic!ChangeServiceNameAccepted,
           UpdateAccepted, Restarted, ResetEndTime, ChangeOwner,
           ChangeOwnerAccepted, ChangeStartTimeAccepted, ChangeStartTime,
           ChangeEndTimeAccepted, ChangePriceAccepted,
           ChangeServiceNameAccepted
  <1>4. \A f, s : Atomic!Matches(f, s) <=> Matches(f, s)
    BY DEF Atomic!Matches, Matches
  <1> QED BY <1>1, <1>2, <1>3, <1>4

LEMMA SameIDs ==
  /\ Atomic!NamedIDs = NamedIDs
  /\ Atomic!FreshIDs = FreshIDs
  /\ \A id : Atomic!Live(id) <=> Live(id)
  BY DEF Atomic!NamedIDs, NamedIDs, Atomic!FreshIDs, FreshIDs, Atomic!Live, Live

-----------------------------------------------------------------------------
(* What a step changes of the mapping                                      *)

\* A step of r changes at most what is mapped for r.
LEMMA MappingStep ==
  ASSUME TypeInv, NEW r \in Requests, Step(r)
  PROVE  /\ Committed' = [Committed EXCEPT ![r] = (tx'[r].state = "committed")]
         /\ SeenRows' = [SeenRows EXCEPT ![r] = Seen(r)']
  <1>1. \A q \in Requests : q # r =>
          req'[q] = req[q] /\ call'[q] = call[q] /\ tx'[q] = tx[q]
    BY Frame
  <1>2. Committed' = [Committed EXCEPT ![r] = (tx'[r].state = "committed")]
    BY <1>1 DEF Committed
  <1>3. \A q \in Requests : q # r => Seen(q)' = Seen(q)
    BY <1>1 DEF Seen, At
  <1>4. SeenRows' = [SeenRows EXCEPT ![r] = Seen(r)']
    BY <1>3 DEF SeenRows
  <1> QED BY <1>2, <1>4

LEMMA MappingUnchanged ==
  ASSUME TypeInv, NEW r \in Requests, Step(r),
         tx'[r].state = "committed" <=> tx[r].state = "committed",
         Seen(r)' = Seen(r)
  PROVE  UNCHANGED <<Committed, SeenRows>>
  BY MappingStep DEF Committed, SeenRows

-----------------------------------------------------------------------------
(* Arrival                                                                 *)

LEMMA NewIsUnseen ==
  ASSUME LocalInv, NEW r \in Requests, req[r].pc = "new"
  PROVE  Seen(r) = Nil /\ call[r].pc = "idle"
  BY DEF LocalInv, LocalOK, AnswerOK, NoRequest, NoCall, Seen, At

LEMMA StartRefines ==
  ASSUME TypeInv, LocalInv, NEW r \in Requests, Handles(r), NEW op \in Operations,
         NEW id \in SubscriptionID \cup {Nil},
         NEW args \in Bodies \cup CostQueries \cup {Nil},
         NEW method, NEW sub, NEW filter,
         req[r].pc = "new", Atomic!Accepted(op, id, args),
         Start(r, op, id, args, Invocation(method, id, sub, filter))
  PROVE  Atomic!Arrives(r)
  <1>1. call'[r].pc = "begin" /\ UNCHANGED <<table, tx, now>>
    BY StartFields DEF Start
  <1>2. Seen(r)' = Seen(r)
    BY <1>1, NewIsUnseen DEF Seen, At
  <1>3. UNCHANGED <<Committed, SeenRows>>
    BY <1>1, <1>2, MappingUnchanged DEF Step
  <1>4. Atomic!Enters(r, op, id, args)
    BY SameRequests DEF Start, Atomic!Enters
  <1>5. args \in Atomic!Bodies \cup CostQueries \cup {Nil}
    BY SameRequests
  <1>6. UNCHANGED <<table, now, Committed, SeenRows>>
    BY <1>1, <1>3
  <1> QED BY <1>4, <1>5, <1>6, Zenon DEF Atomic!Arrives

LEMMA RejectRefines ==
  ASSUME TypeInv, LocalInv, NEW r \in Requests, Handles(r), NEW op \in Operations,
         NEW args \in Bodies \cup CostQueries \cup {Nil},
         req[r].pc = "new", Atomic!Refused(op, args),
         Reject(r, op, Nil, args)
  PROVE  Atomic!Arrives(r)
  <1>1. UNCHANGED <<table, tx, call, now>>
    BY DEF Reject, storageVars
  <1>2. Seen(r)' = Seen(r)
    BY <1>1, NewIsUnseen DEF Seen, At
  <1>3. UNCHANGED <<Committed, SeenRows>>
    BY <1>1, <1>2, MappingUnchanged DEF Step
  <1>4. Atomic!TurnedAway(r, op, args)
    BY SameRequests DEF Reject, Atomic!TurnedAway
  <1>5. args \in Atomic!Bodies \cup CostQueries \cup {Nil}
    BY SameRequests
  <1>6. UNCHANGED <<table, now, Committed, SeenRows>>
    BY <1>1, <1>3
  <1> QED BY <1>4, <1>5, <1>6, Zenon DEF Atomic!Arrives

LEMMA HandlesRefines ==
  ASSUME TypeInv, LocalInv, NEW r \in Requests, Handles(r)
  PROVE  Atomic!Arrives(r)
  <1> USE DEF Arrives
  <1>1. NamedIDs \subseteq SubscriptionID /\ FreshIDs \subseteq SubscriptionID
    BY ClientAssumption DEF NamedIDs, FreshIDs
  <1>2. CASE BindFails(r)
    BY <1>2, RejectRefines DEF BindFails, Atomic!Refused
  <1>3. CASE PostSubscriptions(r)
    <2> PICK a \in Bodies :
          \/ /\ NewSubscriptionAccepted(a, now)
             /\ \E id \in FreshIDs :
                  Start(r, "POST", id, a,
                        Invocation("Add", id, NewSubscription(a), Nil))
          \/ /\ ~NewSubscriptionAccepted(a, now)
             /\ Reject(r, "POST", Nil, a)
      BY <1>3 DEF PostSubscriptions
    <2>1. \A id \in FreshIDs : NewSubscriptionAccepted(a, now) =>
            Atomic!Accepted("POST", id, a)
      BY SameRequests, SameSubscriptions, SameIDs DEF Atomic!Accepted
    <2>2. ~NewSubscriptionAccepted(a, now) => Atomic!Refused("POST", a)
      BY SameRequests, SameSubscriptions DEF Atomic!Refused
    <2>3. req[r].pc = "new" /\ "POST" \in Operations
      BY <1>3 DEF PostSubscriptions
    <2> QED BY <1>1, <2>1, <2>2, <2>3, StartRefines, RejectRefines
  <1>4. CASE PatchSubscriptionsId(r)
    <2>1. \A id \in NamedIDs, a \in Bodies : Atomic!Accepted("PATCH", id, a)
      BY SameRequests, SameIDs DEF Atomic!Accepted
    <2> QED BY <1>1, <1>4, <2>1, StartRefines DEF PatchSubscriptionsId
  <1>5. CASE DeleteSubscriptionsId(r)
    <2>1. \A id \in NamedIDs : Atomic!Accepted("DELETE", id, Nil)
      BY SameIDs DEF Atomic!Accepted
    <2> QED BY <1>1, <1>5, <2>1, StartRefines DEF DeleteSubscriptionsId
  <1>6. CASE GetSubscriptionsId(r)
    <2>1. \A id \in NamedIDs : Atomic!Accepted("GET", id, Nil)
      BY SameIDs DEF Atomic!Accepted
    <2> QED BY <1>1, <1>6, <2>1, StartRefines DEF GetSubscriptionsId
  <1>7. CASE GetSubscriptions(r)
    <2>1. Atomic!Accepted("LIST", Nil, Nil)
      BY DEF Atomic!Accepted
    <2> QED BY <1>7, <2>1, StartRefines DEF GetSubscriptions
  <1>8. CASE GetSubscriptionsTotalCost(r)
    <2>1. \A f \in CostQueries :
            IF CostQueryAccepted(f) THEN Atomic!Accepted("TOTAL", Nil, f)
                                    ELSE Atomic!Refused("TOTAL", f)
      BY SameRequests DEF Atomic!Accepted, Atomic!Refused
    <2> QED
      BY <1>8, <2>1, StartRefines, RejectRefines DEF GetSubscriptionsTotalCost
  <1> QED
    BY <1>2, <1>3, <1>4, <1>5, <1>6, <1>7, <1>8 DEF Handles

-----------------------------------------------------------------------------
(* Answers                                                                 *)

LEMMA AnswerRefines ==
  ASSUME TypeInv, NEW r \in Requests, Continues(r), NEW status, NEW body,
         Answer(r, status, body)
  PROVE  Atomic!Answer(r, status, body)
  <1>1. UNCHANGED <<table, tx, call, now>> /\ req[r] \in Request
    BY DEF Answer, storageVars, TypeInv, TypeOK
  <1>2. req'[r].op = req[r].op
    BY <1>1 DEF Answer, Request, TypeInv, TypeOK
  <1>3. UNCHANGED <<Committed, SeenRows>>
    BY <1>1, <1>2, MappingUnchanged DEF Step, Seen, At
  <1> QED BY <1>1, <1>3 DEF Answer, Atomic!Answer

\* A failure of a PATCH or GET that names a missing row is right.
LEMMA NotFoundRefines ==
  ASSUME RefinementInv, NEW r \in Requests, Continues(r),
         call[r].method = "FindByID", call[r].pc = "returned",
         call[r].err # "nil", req[r].pc = "running",
         req[r].op \in {"PATCH", "GET"},
         Answer(r, ErrorStatus(call[r].err), NoRows)
  PROVE  Atomic!Fails(r)
  <1>1. SafetyInv /\ TypeInv /\ call[r] \in Call
    BY RefinementInvParts DEF TypeInv, TypeOK
  <1>2. CASE call[r].err = "not_found"
    <2>1. req[r].id \in SubscriptionID /\ Gone(req[r].id)
      BY <1>1, <1>2 DEF SafetyInv, TypeInv, CallOK, WriteInv, MissingOK
    <2>2. ~Atomic!Live(req[r].id)
      BY <1>1, <2>1, SameIDs DEF Gone, Live, SafetyInv, IDInv
    <2>3. Atomic!Answer(r, 404, NoRows)
      BY <1>1, <1>2, AnswerRefines DEF ErrorStatus
    <2> QED BY <2>2, <2>3, SameRequests DEF Atomic!Fails
  <1>3. CASE call[r].err = "error"
    <2>1. Atomic!Answer(r, 500, NoRows)
      BY <1>1, <1>3, AnswerRefines DEF ErrorStatus
    <2> QED BY <2>1, SameRequests DEF Atomic!Fails
  <1> QED BY <1>1, <1>2, <1>3 DEF Call

LEMMA ErrorRefines ==
  ASSUME TypeInv, NEW r \in Requests, Continues(r), req[r].pc = "running",
         req[r].op # "LIST", Answer(r, 500, NoRows)
  PROVE  Atomic!Fails(r)
  <1>1. Atomic!Answer(r, 500, NoRows)
    BY AnswerRefines
  <1> QED BY <1>1, SameRequests DEF Atomic!Fails

LEMMA ContinuesRefines ==
  ASSUME RefinementInv, NEW r \in Requests, Continues(r)
  PROVE  Atomic!Succeeds(r) \/ Atomic!Fails(r) \/ UNCHANGED Atomic!vars
  <1>1. /\ SafetyInv /\ TypeInv /\ ResultOK(r)
        /\ MethodOK(r) /\ ProgressOK(r) /\ call[r] \in Call
    BY RefinementInvParts DEF RefinementInv, TypeInv, TypeOK, LocalInv, LocalOK
  <1>2. req[r].pc = "running" /\ call[r].pc = "returned"
    BY DEF Continues, PostAnswers, PatchUpdates, PatchAnswers, DeleteAnswers,
           GetAnswers, ListAnswers, TotalCostAnswers, Returned, At
  <1>3. ASSUME NEW status, NEW body, Answer(r, status, body)
        PROVE  Atomic!Answer(r, status, body)
    BY <1>1, <1>3, AnswerRefines
  \* A write that has returned nil has been committed.
  <1>4. call[r].method \in WriteMethods /\ call[r].err = "nil" => Committed[r]
    BY <1>1, <1>2 DEF ProgressOK, Committed
  <1>5. CASE PostAnswers(r)
    <2>1. req[r].op = "POST" /\ call[r].sub = NewSubscription(req[r].args)
          /\ call[r].method = "Add"
      BY <1>1, <1>5 DEF PostAnswers, Returned, MethodOK
    <2>2. CASE call[r].err = "nil"
      <3>1. Atomic!Answer(r, 201, Atomic!OneRow(req[r].id,
                                    Atomic!NewSubscription(req[r].args)))
        BY <1>3, <1>5, <2>1, <2>2, SameRequests, SameSubscriptions
           DEF PostAnswers
      <3> QED BY <1>2, <1>4, <2>1, <2>2, <3>1
              DEF Atomic!Succeeds, WriteMethods
    <2>3. CASE call[r].err # "nil"
      BY <1>1, <1>2, <1>5, <2>1, <2>3, ErrorRefines DEF PostAnswers
    <2> QED BY <2>2, <2>3
  <1>6. CASE PatchUpdates(r)
    <2> DEFINE id == req[r].id
               found == call[r].rows[id]
               u == req[r].args
    <2>1. req[r].op = "PATCH" /\ call[r].method = "FindByID"
      BY <1>6 DEF PatchUpdates, Returned
    <2>2. call[r].err = "nil" => found \in Sub /\ u \in Sub
      BY <1>1, <1>2, <2>1 DEF TypeInv, CallOK, At
    <2>3. CASE /\ call' = [call EXCEPT ![r] =
                             Invocation("Update", id, Updated(found, u), Nil)]
               /\ UNCHANGED <<table, tx, conns, now, req>>
      <3>1. UNCHANGED <<Committed, SeenRows>>
        BY <1>1, <2>1, <2>3, MappingUnchanged DEF Step, Seen
      <3> QED BY <2>3, <3>1 DEF Atomic!vars
    <2>4. CASE /\ call[r].err = "nil"
               /\ ~UpdateAccepted(found, u, now)
               /\ Answer(r, 400, NoRows)
      <3>1. ~UpdateAccepted(u, u, now)
        BY <1>1, <2>2, <2>4, UpdateOverwrites DEF TypeInv, TypeOK
      <3>2. ~Atomic!UpdateOK(u)
        BY <3>1, SameSubscriptions DEF Atomic!UpdateOK
      <3>3. Atomic!Answer(r, 400, Atomic!NoRows)
        BY <1>3, <2>4, SameRequests
      <3> QED BY <1>2, <2>1, <3>2, <3>3 DEF Atomic!Fails
    <2>5. CASE /\ call[r].err # "nil"
               /\ Answer(r, ErrorStatus(call[r].err), NoRows)
      BY <1>2, <2>1, <2>5, NotFoundRefines
    <2> QED BY <1>6, <2>3, <2>4, <2>5 DEF PatchUpdates
  <1>7. CASE PatchAnswers(r)
    <2>1. req[r].op = "PATCH" /\ call[r].sub = req[r].args
          /\ call[r].method = "Update"
      BY <1>1, <1>7 DEF PatchAnswers, Returned, MethodOK
    <2>2. CASE call[r].err = "nil"
      <3>1. Atomic!Answer(r, 200, Atomic!OneRow(req[r].id, req[r].args))
        BY <1>3, <1>7, <2>1, <2>2, SameRequests DEF PatchAnswers
      <3> QED BY <1>2, <1>4, <2>1, <2>2, <3>1
              DEF Atomic!Succeeds, WriteMethods
    <2>3. CASE call[r].err # "nil"
      BY <1>1, <1>2, <1>7, <2>1, <2>3, ErrorRefines DEF PatchAnswers
    <2> QED BY <2>2, <2>3
  <1>8. CASE DeleteAnswers(r)
    <2>1. req[r].op = "DELETE" /\ call[r].method = "RemoveByID"
      BY <1>8 DEF DeleteAnswers, Returned
    <2>2. CASE call[r].err = "nil"
      <3>1. Atomic!Answer(r, 204, Atomic!NoRows)
        BY <1>3, <1>8, <2>2, SameRequests DEF DeleteAnswers
      <3> QED BY <1>2, <1>4, <2>1, <2>2, <3>1
              DEF Atomic!Succeeds, WriteMethods
    <2>3. CASE call[r].err # "nil"
      <3>1. call[r].err = "error"
        BY <1>1, <1>2, <2>1, <2>3 DEF ProgressOK, WriteMethods
      <3> QED BY <1>1, <1>2, <1>8, <2>1, <3>1, ErrorRefines
              DEF DeleteAnswers, ErrorStatus
    <2> QED BY <2>2, <2>3
  \* What a read has seen is what the storage has returned.
  <1>9. ASSUME req[r].op \in {"GET", "LIST", "TOTAL"}, call[r].err # "error",
               Answer(r, 200, call[r].rows),
               req[r].op = "GET" => call[r].rows[req[r].id] # Nil
        PROVE  Atomic!Succeeds(r)
    <2>1. SeenRows[r] = call[r].rows
      BY <1>2, <1>9 DEF SeenRows, Seen, At
    <2>2. SeenRows[r] # Nil
      BY <1>1, <2>1, NilResultAssumption DEF Call
    <2>3. Atomic!Answer(r, 200, SeenRows[r])
      BY <1>3, <1>9, <2>1
    <2> QED BY <1>2, <1>9, <2>1, <2>2, <2>3 DEF Atomic!Succeeds
  <1>10. CASE GetAnswers(r)
    <2>1. req[r].op = "GET" /\ call[r].method = "FindByID"
      BY <1>10 DEF GetAnswers, Returned
    <2>2. CASE call[r].err = "nil"
      <3>1. call[r].rows[req[r].id] # Nil
        BY <1>1, <1>2, <2>1, <2>2, NilRowAssumption DEF TypeInv, CallOK, At
      <3> QED BY <1>9, <1>10, <2>1, <2>2, <3>1 DEF GetAnswers
    <2>3. CASE call[r].err # "nil"
      BY <1>2, <1>10, <2>1, <2>3, NotFoundRefines DEF GetAnswers
    <2> QED BY <2>2, <2>3
  <1>11. CASE ListAnswers(r)
    <2>1. req[r].op = "LIST" /\ Answer(r, 200, call[r].rows)
      BY <1>11 DEF ListAnswers, Returned
    <2>2. CASE call[r].err # "error"
      BY <1>9, <2>1, <2>2
    <2>3. CASE call[r].err = "error"
      <3>1. call[r].rows = NoRows
        BY <1>1, <1>2, <2>3 DEF ResultOK, At
      <3>2. Atomic!Answer(r, 200, Atomic!NoRows)
        BY <1>3, <2>1, <3>1, SameRequests
      <3> QED BY <1>2, <2>1, <3>2 DEF Atomic!Fails
    <2> QED BY <2>2, <2>3
  <1>12. CASE TotalCostAnswers(r)
    <2>1. req[r].op = "TOTAL"
      BY <1>12 DEF TotalCostAnswers, Returned
    <2>2. CASE call[r].err = "nil"
      BY <1>9, <1>12, <2>1, <2>2 DEF TotalCostAnswers
    <2>3. CASE call[r].err # "nil"
      BY <1>1, <1>2, <1>12, <2>1, <2>3, ErrorRefines DEF TotalCostAnswers
    <2> QED BY <2>2, <2>3
  <1> QED
    BY <1>5, <1>6, <1>7, <1>8, <1>10, <1>11, <1>12 DEF Continues

-----------------------------------------------------------------------------
(* Effects                                                                 *)

\* The body of a PATCH that was accepted when its call began is accepted when
\* it is committed.
LEMMA ValidUpdateAccepted ==
  ASSUME NEW u \in Sub, NEW d \in Nat, ValidSub(u, d)
  PROVE  UpdateAccepted(u, u, d)
  BY DEF Sub, UpdateAccepted, Restarted, ResetEndTime, ChangeOwner,
         ChangeOwnerAccepted, ChangeStartTimeAccepted, ChangeStartTime,
         ChangeEndTimeAccepted, ChangePriceAccepted,
         ChangeServiceNameAccepted, ValidSub

\* A row that is about to overwrite another finds it live.
LEMMA OverwritesLive ==
  ASSUME SafetyInv, NEW r \in Requests, tx[r].state = "committing",
         call[r].method \in {"Update", "RemoveByID"}, tx[r].row # Nil,
         tx[r].id \in SubscriptionID
  PROVE  Live(tx[r].id)
  BY DEF SafetyInv, WriteInv, OverwriteOK, StagedWritesAreCurrent, Locks

LEMMA CommitRefines ==
  ASSUME RefinementInv, NEW r \in Requests, DbCommit(r), UNCHANGED serviceVars
  PROVE  Atomic!TakesEffect(r)
  <1> DEFINE id == req[r].id
             args == req[r].args
             row == tx[r].row
  <1>1. /\ SafetyInv /\ TypeInv /\ MissedOK(r) /\ MethodOK(r) /\ ProgressOK(r)
        /\ AnswerOK(r) /\ StagedOK(r) /\ IDInv /\ RemoveOK(r)
        /\ tx[r] \in Tx /\ req[r] \in Request /\ row \in Row \cup {Nil}
    BY RefinementInvParts
       DEF RefinementInv, SafetyInv, WriteInv, TypeInv, TypeOK, LocalInv,
           LocalOK, Tx
  <1>2. tx[r].state = "committing" /\ tx'[r].state = "committed"
    BY <1>1 DEF DbCommit, TypeInv, TypeOK, Tx
  <1>3. call[r].method \in WriteMethods /\ tx[r].id = id
    BY <1>1, <1>2 DEF ProgressOK
  <1>4. id \in SubscriptionID /\ call[r].id = id
    BY <1>1, <1>3 DEF TypeInv, CallOK, WriteMethods
  <1>5. table' = IF row = Nil THEN table ELSE [table EXCEPT ![id] = row]
    BY <1>3 DEF DbCommit
  <1>6. /\ ~Committed[r] /\ Committed' = [Committed EXCEPT ![r] = TRUE]
    BY <1>1, <1>2, MappingStep
       DEF Committed, Step, StorageOnly, StorageStep, DbEnds
  <1>7. req[r].op \in WriteOps
    BY <1>1, <1>3 DEF MethodOK, WriteMethods, WriteOps
  <1>8. UNCHANGED <<now, req, SeenRows>>
    <2>1. Seen(r)' = Seen(r)
      BY <1>7 DEF Seen, WriteOps, serviceVars
    <2> QED
      BY <1>1, <2>1, MappingStep
         DEF SeenRows, Step, StorageOnly, StorageStep, DbEnds, serviceVars
  <1>9. req[r].pc = "running" \/ req[r].status = 500
    BY <1>1, <1>2 DEF AnswerOK, NoTx, Pending, Request
  \* The part of TakesEffect that depends on the operation.
  <1> DEFINE Added == /\ req[r].op = "POST"
                      /\ table[id] = Nil
                      /\ table' = [table EXCEPT
                                     ![id] = [sub |-> NewSubscription(args),
                                              deleted |-> FALSE]]
             Changed == /\ req[r].op = "PATCH"
                        /\ UpdateAccepted(args, args, now)
                        /\ table' = IF Live(id)
                                    THEN [table EXCEPT
                                            ![id] = [sub |-> args,
                                                     deleted |-> FALSE]]
                                    ELSE table
             Removed == /\ req[r].op = "DELETE"
                        /\ table' = IF Live(id)
                                    THEN [table EXCEPT
                                            ![id] = [sub |-> table[id].sub,
                                                     deleted |-> TRUE]]
                                    ELSE table
  <1>10. ASSUME call[r].method = "Add"
         PROVE  Added
    <2>1. req[r].op = "POST" /\ row # Nil /\ ~row.deleted
          /\ row.sub = NewSubscription(args)
      BY <1>1, <1>2, <1>10 DEF MethodOK, StagedOK
    <2>2. table[id] = Nil
      BY <1>1, <1>2, <1>4, <2>1, NilRowAssumption DEF IDInv
    <2>3. row = [sub |-> NewSubscription(args), deleted |-> FALSE]
      BY <1>1, <2>1 DEF Row
    <2> QED BY <1>5, <2>1, <2>2, <2>3
  <1>11. ASSUME call[r].method = "Update"
         PROVE  Changed
    <2>1. req[r].op = "PATCH" /\ call[r].sub = args /\ args \in Sub
      BY <1>1, <1>11 DEF MethodOK, TypeInv, CallOK
    <2>2. ValidSub(args, now)
      BY <1>11, <2>1 DEF RefinementInv, ValidInv, CallsAreValid
    <2>3. UpdateAccepted(args, args, now)
      BY <1>1, <2>1, <2>2, ValidUpdateAccepted DEF TypeInv, TypeOK
    <2>4. CASE row # Nil
      <3>1. row.sub = args /\ ~row.deleted
        BY <1>1, <1>11, <2>4 DEF StagedOK
      <3>2. row = [sub |-> args, deleted |-> FALSE]
        BY <1>1, <2>4, <3>1 DEF Row
      <3>3. Live(id)
        BY <1>1, <1>2, <1>3, <1>4, <1>11, <2>4, OverwritesLive
      <3> QED BY <1>5, <2>1, <2>3, <2>4, <3>2, <3>3
    <2>5. CASE row = Nil
      <3>1. ~Live(id)
        BY <1>1, <1>2, <1>11, <2>5 DEF MissedOK, Gone, Live, IDInv
      <3> QED BY <1>5, <2>1, <2>3, <2>5, <3>1
    <2> QED BY <2>4, <2>5
  <1>12. ASSUME call[r].method = "RemoveByID"
         PROVE  Removed
    <2>1. req[r].op = "DELETE"
      BY <1>1, <1>12 DEF MethodOK
    <2>2. CASE row # Nil
      <3>1. row.deleted /\ row.sub = table[id].sub
        BY <1>1, <1>2, <1>3, <1>12, <2>2 DEF StagedOK, RemoveOK, Pending
      <3>2. row = [sub |-> table[id].sub, deleted |-> TRUE]
        BY <1>1, <2>2, <3>1 DEF Row
      <3>3. Live(id)
        BY <1>1, <1>2, <1>3, <1>4, <1>12, <2>2, OverwritesLive
      <3> QED BY <1>5, <2>1, <2>2, <3>2, <3>3
    <2>3. CASE row = Nil
      <3>1. ~Live(id)
        BY <1>1, <1>2, <1>12, <2>3 DEF RemoveOK, Gone, Live, IDInv
      <3> QED BY <1>5, <2>1, <2>3, <3>1
    <2> QED BY <2>2, <2>3
  <1>13. Added \/ Changed \/ Removed
    BY <1>3, <1>10, <1>11, <1>12 DEF WriteMethods
  <1>14. Atomic!UpdateOK(args) <=> UpdateAccepted(args, args, now)
    BY SameSubscriptions DEF Atomic!UpdateOK
  <1> QED
    BY <1>6, <1>8, <1>9, <1>13, <1>14, SameSubscriptions, SameIDs
       DEF Atomic!TakesEffect

\* A read that returns rows of the table, of which Selected says which.
LEMMA ReadRefines ==
  ASSUME TypeInv, LocalInv, NEW r \in Requests, StorageOnly(r), UNCHANGED table,
         UNCHANGED tx, call[r].pc = "query", req[r].op \in {"GET", "LIST", "TOTAL"},
         NEW err \in {"nil", "not_found"}, Return(r, err, SubsOf(Atomic!Selected(r)))
  PROVE  Atomic!Reads(r)
  <1>1. call'[r].pc = "returned" /\ call'[r].err = err
        /\ call'[r].rows = SubsOf(Atomic!Selected(r))
    BY ReturnFields
  <1>2. UNCHANGED <<req, now>>
    BY DEF StorageOnly, serviceVars
  <1>3. Seen(r) = Nil /\ Seen(r)' = SubsOf(Atomic!Selected(r))
    BY <1>1, <1>2 DEF Seen, At
  <1>4. SeenRows[r] = Nil
    BY <1>3 DEF SeenRows
  <1>5. SeenRows' = [SeenRows EXCEPT ![r] = SubsOf(Atomic!Selected(r))]
    BY <1>3, MappingStep DEF Step
  <1>6. UNCHANGED Committed
    BY DEF Committed
  <1>7. req[r].pc = "running"
    BY DEF LocalInv, LocalOK, AnswerOK, NoCall, TypeInv, TypeOK, Request
  <1> QED
    BY <1>2, <1>4, <1>5, <1>6, <1>7 DEF Atomic!Reads, SubsOf

LEMMA QueryRowRefines ==
  ASSUME TypeInv, LocalInv, NEW r \in Requests, QueryRow(r), UNCHANGED serviceVars
  PROVE  Atomic!Reads(r) \/ UNCHANGED Atomic!vars
  <1> DEFINE found == {call[r].id} \cap LiveIDs
             err == IF found = {} THEN "not_found" ELSE "nil"
  <1>1. StorageOnly(r) /\ UNCHANGED <<table, tx>> /\ call[r].pc = "query"
        /\ Return(r, err, SubsOf(found)) /\ call[r].method = "FindByID"
    BY DEF StorageOnly, StorageStep, CallProceeds, QueryRow, At
  <1>2. req[r].op \in {"PATCH", "GET"} /\ call[r].id = req[r].id
        /\ call[r].id \in SubscriptionID
    BY <1>1 DEF LocalInv, LocalOK, MethodOK, TypeInv, CallOK
  <1>3. CASE req[r].op = "GET"
    <2>1. found = Atomic!Selected(r)
      BY <1>2, <1>3, SameIDs DEF Atomic!Selected, LiveIDs
    <2> HIDE DEF found
    <2> QED BY <1>1, <1>3, <2>1, ReadRefines
  <1>4. CASE req[r].op = "PATCH"
    <2>1. UNCHANGED <<Committed, SeenRows>>
      BY <1>1, <1>4, MappingUnchanged DEF Step, Seen, serviceVars
    <2> QED BY <1>1, <2>1 DEF Atomic!vars, serviceVars
  <1> QED BY <1>2, <1>3, <1>4

LEMMA QueryRefines ==
  ASSUME TypeInv, LocalInv, NEW r \in Requests, ResultOK(r), Query(r),
         UNCHANGED serviceVars
  PROVE  Atomic!Reads(r)
  <1> DEFINE found == {id \in LiveIDs : Matches(call[r].filter, table[id].sub)}
  <1>1. StorageOnly(r) /\ UNCHANGED <<table, tx>> /\ call[r].pc = "query"
        /\ Return(r, "nil", SubsOf(found)) /\ call[r].method = "Find"
    BY DEF StorageOnly, StorageStep, CallProceeds, Query, At
  <1>2. req[r].op \in {"LIST", "TOTAL"}
        /\ call[r].filter = IF req[r].op = "LIST" THEN NoFilter ELSE req[r].args
    BY <1>1 DEF LocalInv, LocalOK, MethodOK, ResultOK
  <1>3. found = Atomic!Selected(r)
    <2>1. \A s : Matches(NoFilter, s)
      BY DEF Matches, NoFilter
    <2>2. CASE req[r].op = "LIST"
      BY <1>2, <2>1, <2>2, SameIDs DEF Atomic!Selected, LiveIDs
    <2>3. CASE req[r].op = "TOTAL"
      BY <1>2, <2>3, SameIDs, SameSubscriptions DEF Atomic!Selected, LiveIDs
    <2> QED BY <1>2, <2>2, <2>3
  <1> HIDE DEF found
  <1> QED BY <1>1, <1>2, <1>3, ReadRefines

\* The other steps of a call are invisible.
LEMMA StorageStutters ==
  ASSUME TypeInv, LocalInv, NEW r \in Requests, StorageOnly(r),
         ~DbCommit(r), ~QueryRow(r), ~Query(r)
  PROVE  UNCHANGED Atomic!vars
  <1>1. UNCHANGED <<table, now, req>>
    BY TableStep DEF Step, StorageOnly, serviceVars
  <1>2. tx'[r].state = "committed" <=> tx[r].state = "committed"
    BY TxStep DEF Step
  <1>3. Seen(r)' = Seen(r)
    <2>1. CASE DbAbort(r)
      BY <1>1, <2>1 DEF DbAbort, Seen, At
    <2>2. CASE \/ BeginTx(r) \/ ExecInsert(r) \/ ExecUpdate(r) \/ ExecRemove(r)
               \/ SendCommit(r) \/ AcquireForQuery(r)
      <3>1. /\ call[r].pc # "returned"
            /\ \E pc \in {"exec", "executed", "committing", "query"} : Goto(r, pc)
        BY <2>2 DEF BeginTx, ExecInsert, ExecUpdate, ExecRemove, Exec,
                    SendCommit, AcquireForQuery, At
      <3>2. call'[r].pc # "returned"
        BY <3>1, GotoFields
      <3> QED BY <3>1, <3>2 DEF Seen, At
    <2>3. CASE CallFails(r)
      <3>1. call[r].pc # "returned" /\ Return(r, "error", NoRows)
        BY <2>3 DEF CallFails, BeginFails, ExecFails, CommitFails, QueryFails, At
      <3>2. call'[r].err = "error"
        BY <3>1, ReturnFields
      <3> QED BY <3>1, <3>2 DEF Seen, At
    <2>4. CASE CommitReturns(r)
      <3>1. req[r].op \in WriteOps
        BY <2>4 DEF CommitReturns, At, TypeInv, CallOK, LocalInv, LocalOK,
                    MethodOK, WriteMethods, WriteOps
      <3> QED BY <1>1, <3>1 DEF Seen, WriteOps
    <2> QED
      BY <2>1, <2>2, <2>3, <2>4
         DEF StorageOnly, StorageStep, CallProceeds, DbEnds
  <1>4. UNCHANGED <<Committed, SeenRows>>
    BY <1>2, <1>3, MappingUnchanged DEF Step
  <1> QED BY <1>1, <1>4 DEF Atomic!vars

-----------------------------------------------------------------------------
(* The refinement                                                          *)

LEMMA StorageRefines ==
  ASSUME RefinementInv, NEW r \in Requests, StorageOnly(r)
  PROVE  \/ Atomic!TakesEffect(r) \/ Atomic!Reads(r) \/ UNCHANGED Atomic!vars
  <1>1. TypeInv /\ LocalInv /\ ResultOK(r) /\ UNCHANGED serviceVars
    BY RefinementInvParts DEF RefinementInv, StorageOnly
  <1>2. CASE DbCommit(r)
    BY <1>1, <1>2, CommitRefines
  <1>3. CASE QueryRow(r)
    BY <1>1, <1>3, QueryRowRefines
  <1>4. CASE Query(r)
    BY <1>1, <1>4, QueryRefines
  <1>5. CASE ~DbCommit(r) /\ ~QueryRow(r) /\ ~Query(r)
    BY <1>1, <1>5, StorageStutters
  <1> QED BY <1>2, <1>3, <1>4, <1>5

LEMMA InitRefines == Init => Atomic!Init
  <1> SUFFICES ASSUME Init
               PROVE  Atomic!Init
    OBVIOUS
  <1>1. \A r \in Requests :
          req[r] = NoRequest /\ tx[r] = NoTx
    BY DEF Init, StorageInit
  <1>2. Committed = [r \in Requests |-> FALSE]
    <2>1. \A r \in Requests : (tx[r].state = "committed") = FALSE
      BY <1>1 DEF NoTx
    <2> QED BY <2>1, Zenon DEF Committed
  <1>3. SeenRows = [r \in Requests |-> Nil]
    BY <1>1 DEF SeenRows, Seen, NoRequest
  <1> QED
    BY <1>2, <1>3, SameRequests DEF Atomic!Init, Init, StorageInit

LEMMA NextRefines ==
  ASSUME RefinementInv, [Next]_vars
  PROVE  [Atomic!Next]_(Atomic!vars)
  <1>1. TypeInv /\ LocalInv
    BY RefinementInvParts
  <1>2. CASE \E r \in Requests : Handles(r)
    BY <1>1, <1>2, HandlesRefines DEF Atomic!Next
  <1>3. CASE \E r \in Requests : Continues(r)
    BY <1>3, ContinuesRefines DEF Atomic!Next
  <1>4. CASE \E r \in Requests : StorageStep(r) /\ UNCHANGED serviceVars
    BY <1>4, StorageRefines DEF Atomic!Next, StorageOnly
  <1>5. CASE Tick
    <2>1. UNCHANGED <<Committed, SeenRows>>
      BY <1>5 DEF Tick, storageVars, Committed, SeenRows, Seen, At
    <2>2. Atomic!Tick
      BY <1>5, <2>1 DEF Tick, storageVars, Atomic!Tick
    <2> QED BY <2>2 DEF Atomic!Next
  <1>6. CASE Quiet \/ UNCHANGED vars
    BY <1>6 DEF Quiet, vars, storageVars, Atomic!vars, Committed, SeenRows,
                Seen, At
  <1> QED BY <1>2, <1>3, <1>4, <1>5, <1>6 DEF Next

\* Every operation takes effect in one step, between its arrival and its
\* answer, or, answered 500, once and later or never: for any number of
\* requests, and however their steps, the commits of the database and the
\* failures of each interleave.
THEOREM ServiceIsLinearizable == Spec => Linearizable
  BY InitRefines, NextRefines, RefinementCorrect, PTL
     DEF Spec, Linearizable, Atomic!Spec
=============================================================================
