------------------------ MODULE AtomicSubscriptions ------------------------
(***************************************************************************)
(* What the service promises its clients: the table as one shared object   *)
(* on which every operation takes effect in one step, somewhere between    *)
(* its arrival and its answer.  There are no connections, transactions or  *)
(* locks here.  Two weaknesses of the code remain visible: an operation    *)
(* answered 500 may take effect later, once, and a LIST may come back      *)
(* empty although there are subscriptions.                                 *)
(***************************************************************************)
EXTENDS ServiceInterface

VARIABLES
  table,   \* table[id]: the row of id, or Nil
  now,     \* the day
  req,     \* req[r]: request r and its answer
  done,    \* done[r]: the write of request r has taken effect
  seen     \* seen[r]: what request r has read, Nil before it has

vars == <<table, now, req, done, seen>>

Live(id) == table[id] # Nil /\ ~table[id].deleted

NamedIDs == {id \in SubscriptionID : table[id] # Nil} \cup {StrayID}
FreshIDs ==
  {id \in SubscriptionID \ {StrayID} :
     table[id] = Nil /\ \A q \in Requests : req[q].id # id}

Init ==
  /\ table \in [SubscriptionID -> SeedRows \cup {Nil}]
  /\ table[StrayID] = Nil
  /\ now = Today
  /\ req = [r \in Requests |-> NoRequest]
  /\ done = [r \in Requests |-> FALSE]
  /\ seen = [r \in Requests |-> Nil]

-----------------------------------------------------------------------------
(* Arrival                                                                 *)

Accepted(op, id, args) ==
  \/ /\ op = "POST"
     /\ id \in FreshIDs
     /\ args \in Bodies /\ NewSubscriptionAccepted(args, now)
  \/ op = "PATCH" /\ id \in NamedIDs /\ args \in Bodies
  \/ op \in {"DELETE", "GET"} /\ id \in NamedIDs /\ args = Nil
  \/ op = "LIST" /\ id = Nil /\ args = Nil
  \/ /\ op = "TOTAL"
     /\ id = Nil
     /\ args \in CostQueries /\ CostQueryAccepted(args)

\* args = Nil: what was sent is malformed.
Refused(op, args) ==
  \/ op # "LIST" /\ args = Nil
  \/ op = "POST" /\ args \in Bodies /\ ~NewSubscriptionAccepted(args, now)
  \/ op = "TOTAL" /\ args \in CostQueries /\ ~CostQueryAccepted(args)

Enters(r, op, id, args) ==
  /\ Accepted(op, id, args)
  /\ req' = [req EXCEPT ![r] = [NoRequest EXCEPT
               !.pc = "running", !.op = op, !.id = id, !.args = args]]

TurnedAway(r, op, args) ==
  /\ Refused(op, args)
  /\ req' = [req EXCEPT ![r] = [NoRequest EXCEPT
               !.pc = "answered", !.op = op, !.id = Nil, !.args = args,
               !.status = 400]]

Arrives(r) ==
  /\ req[r].pc = "new"
  /\ \E op \in Operations, args \in Bodies \cup CostQueries \cup {Nil} :
       \/ \E id \in SubscriptionID \cup {Nil} : Enters(r, op, id, args)
       \/ TurnedAway(r, op, args)
  /\ UNCHANGED <<table, now, done, seen>>

-----------------------------------------------------------------------------
(* Effect                                                                  *)

UpdateOK(args) == UpdateAccepted(args, args, now)

TakesEffect(r) ==
  LET id == req[r].id
      args == req[r].args
  IN
  /\ ~done[r]
  /\ req[r].pc = "running" \/ req[r].status = 500
  /\ \/ /\ req[r].op = "POST"
        /\ table[id] = Nil
        /\ table' = [table EXCEPT ![id] = [sub |-> NewSubscription(args),
                                           deleted |-> FALSE]]
     \/ /\ req[r].op = "PATCH"
        /\ UpdateOK(args)
        /\ table' = IF Live(id)
                    THEN [table EXCEPT ![id] = [sub |-> args, deleted |-> FALSE]]
                    ELSE table
     \/ /\ req[r].op = "DELETE"
        /\ table' = IF Live(id)
                    THEN [table EXCEPT ![id] = [sub |-> table[id].sub,
                                                deleted |-> TRUE]]
                    ELSE table
  /\ done' = [done EXCEPT ![r] = TRUE]
  /\ UNCHANGED <<now, req, seen>>

Selected(r) ==
  {id \in SubscriptionID :
     /\ Live(id)
     /\ req[r].op = "GET" => id = req[r].id
     /\ req[r].op = "TOTAL" => Matches(req[r].args, table[id].sub)}

Reads(r) ==
  /\ req[r].pc = "running"
  /\ req[r].op \in {"GET", "LIST", "TOTAL"}
  /\ seen[r] = Nil
  /\ seen' = [seen EXCEPT ![r] =
                [id \in SubscriptionID |->
                   IF id \in Selected(r) THEN table[id].sub ELSE Nil]]
  /\ UNCHANGED <<table, now, req, done>>

-----------------------------------------------------------------------------
(* Answer                                                                  *)

Answer(r, status, body) ==
  /\ req' = [req EXCEPT ![r].pc = "answered", ![r].status = status,
                        ![r].body = body]
  /\ UNCHANGED <<table, now, done, seen>>

Succeeds(r) ==
  LET id == req[r].id
      args == req[r].args
  IN
  /\ req[r].pc = "running"
  /\ \/ /\ req[r].op = "POST" /\ done[r]
        /\ Answer(r, 201, OneRow(id, NewSubscription(args)))
     \/ /\ req[r].op = "PATCH" /\ done[r]
        /\ Answer(r, 200, OneRow(id, args))
     \/ /\ req[r].op = "DELETE" /\ done[r]
        /\ Answer(r, 204, NoRows)
     \/ /\ req[r].op \in {"GET", "LIST", "TOTAL"} /\ seen[r] # Nil
        /\ req[r].op = "GET" => seen[r][id] # Nil
        /\ Answer(r, 200, seen[r])

Fails(r) ==
  /\ req[r].pc = "running"
  /\ \/ req[r].op = "PATCH" /\ ~UpdateOK(req[r].args) /\ Answer(r, 400, NoRows)
     \/ /\ req[r].op \in {"PATCH", "GET"} /\ ~Live(req[r].id)
        /\ Answer(r, 404, NoRows)
     \/ req[r].op # "LIST" /\ Answer(r, 500, NoRows)
     \/ req[r].op = "LIST" /\ Answer(r, 200, NoRows)

-----------------------------------------------------------------------------
Tick ==
  /\ now < LastDay
  /\ now' = now + 1
  /\ UNCHANGED <<table, req, done, seen>>

Next ==
  \/ \E r \in Requests :
       Arrives(r) \/ TakesEffect(r) \/ Reads(r) \/ Succeeds(r) \/ Fails(r)
  \/ Tick

Spec == Init /\ [][Next]_vars
=============================================================================
