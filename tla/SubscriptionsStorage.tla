------------------------ MODULE SubscriptionsStorage ------------------------
(***************************************************************************)
(* The storage of src/src/internal/storage/postgresql/subscriptions.go:    *)
(* the five methods Add, RemoveByID, Update, FindByID and Find, over a pgx *)
(* connection pool and a PostgreSQL table.                                 *)
(*                                                                         *)
(* A write takes a connection and begins a transaction (Begin), executes   *)
(* one statement (Exec), and commits (Commit); its deferred function rolls *)
(* back on any error.  A read takes a connection, runs one SELECT and      *)
(* gives the connection back.  Connections are the pool's only resource,   *)
(* and taking one has no deadline of its own.                              *)
(*                                                                         *)
(* PostgreSQL is external and modelled as this code uses it: READ          *)
(* COMMITTED, one statement per transaction, an UPDATE that waits for the  *)
(* transaction holding its row and re-reads the row then, and a backend    *)
(* that may finish or discard a transaction whose client has stopped       *)
(* waiting for it.                                                         *)
(*                                                                         *)
(* An operator whose comment begins "A mistake" is a faulty variant of the *)
(* one that follows and no part of the specification.                      *)
(***************************************************************************)
EXTENDS StorageInterface

CONSTANT PoolSize   \* connections of the pool

ASSUME PoolAssumption == PoolSize \in Nat \ {0}

VARIABLES
  table,   \* table[id]: the committed row of id, or Nil
  tx,      \* tx[r]: the transaction request r began, as the database sees it
  conns,   \* the requests that hold a connection
  call     \* call[r]: the storage call request r is in, or the last it made

storageVars == <<table, tx, conns, call>>

-----------------------------------------------------------------------------
(* Types                                                                   *)

WriteMethods == {"Add", "Update", "RemoveByID"}
ReadMethods == {"FindByID", "Find"}

Tx == [state: {"none", "open", "committing", "committed", "aborted"},
       id: SubscriptionID \cup {Nil}, row: Row \cup {Nil}]
NoTx == [state |-> "none", id |-> Nil, row |-> Nil]

Call == [pc: {"idle", "begin", "exec", "executed", "committing", "query",
              "returned"},
         method: WriteMethods \cup ReadMethods \cup {"none"},
         id: SubscriptionID \cup {Nil},
         sub: Sub \cup {Nil},
         filter: Filter \cup {Nil},
         err: {"nil", "not_found", "error"},
         rows: ResultRows]
NoCall == [pc |-> "idle", method |-> "none", id |-> Nil, sub |-> Nil,
           filter |-> Nil, err |-> "nil", rows |-> NoRows]

\* The call that invokes `method`.
Invocation(method, id, sub, filter) ==
  [NoCall EXCEPT !.pc = "begin", !.method = method, !.id = id, !.sub = sub,
                 !.filter = filter]

-----------------------------------------------------------------------------
(* The table                                                               *)

Live(id) == table[id] # Nil /\ ~table[id].deleted
LiveIDs == {id \in SubscriptionID : Live(id)}
SubsOf(ids) ==
  [id \in SubscriptionID |-> IF id \in ids THEN table[id].sub ELSE Nil]

\* A statement that changed the row of id holds its lock until its
\* transaction ends.  An uncommitted INSERT is invisible and blocks nobody.
Locks(q, id) ==
  /\ tx[q].state \in {"open", "committing"}
  /\ tx[q].id = id
  /\ tx[q].row # Nil
  /\ table[id] # Nil
Unlocked(r, id) == \A q \in Requests \ {r} : ~Locks(q, id)

StorageInit ==
  /\ table \in [SubscriptionID -> SeedRows \cup {Nil}]
  /\ tx = [r \in Requests |-> NoTx]
  /\ conns = {}
  /\ call = [r \in Requests |-> NoCall]

-----------------------------------------------------------------------------
(* Connections and returns                                                 *)

At(r, pc) == call[r].pc = pc
Goto(r, pc) == call' = [call EXCEPT ![r].pc = pc]
Return(r, err, rows) ==
  call' = [call EXCEPT ![r].pc = "returned", ![r].err = err, ![r].rows = rows]

TakeConnection(r) ==
  /\ Cardinality(conns) < PoolSize
  /\ conns' = conns \cup {r}
GiveConnection(r) == conns' = conns \ {r}

-----------------------------------------------------------------------------
(* Add, Update and RemoveByID                                              *)

\* client.Begin(ctx): a connection, and a transaction on it.
BeginTx(r) ==
  /\ At(r, "begin")
  /\ call[r].method \in WriteMethods
  /\ TakeConnection(r)
  /\ tx' = [tx EXCEPT ![r] = [NoTx EXCEPT !.state = "open", !.id = call[r].id]]
  /\ Goto(r, "exec")
  /\ UNCHANGED table

\* client.Begin(ctx), or the acquisition for a read, fails: no connection is
\* kept.
BeginFails(r) ==
  /\ At(r, "begin")
  /\ Return(r, "error", NoRows)
  /\ UNCHANGED <<table, tx, conns>>

\* The database executes the statement: `row` is what it writes, Nil when its
\* WHERE clause matches nothing, which is no error.
Exec(r, method, row) ==
  /\ At(r, "exec")
  /\ call[r].method = method
  /\ tx[r].state = "open"
  /\ tx' = [tx EXCEPT ![r].row = row]
  /\ Goto(r, "executed")
  /\ UNCHANGED <<table, conns>>

ExecInsert(r) ==
  Exec(r, "Add", [sub |-> call[r].sub, deleted |-> FALSE])

\* A mistake: the WHERE clause omits is_deleted, so a deleted row is updated.
ExecUpdateOfDeleted(r) ==
  LET id == call[r].id IN
  /\ Unlocked(r, id)
  /\ Exec(r, "Update",
          IF table[id] # Nil THEN [table[id] EXCEPT !.sub = call[r].sub] ELSE Nil)

\* A mistake: the same, and is_deleted is set to 0.
ExecUpdateRevives(r) ==
  LET id == call[r].id IN
  /\ Unlocked(r, id)
  /\ Exec(r, "Update",
          IF table[id] # Nil THEN [sub |-> call[r].sub, deleted |-> FALSE] ELSE Nil)

\* A mistake: the SET clause omits end_time.
ExecUpdateWithoutEnd(r) ==
  LET id == call[r].id
      sub == [call[r].sub EXCEPT !.end = table[id].sub.end]
  IN
  /\ Unlocked(r, id)
  /\ Exec(r, "Update",
          IF Live(id) THEN [table[id] EXCEPT !.sub = sub] ELSE Nil)

ExecUpdate(r) ==
  LET id == call[r].id IN
  /\ Unlocked(r, id)
  /\ Exec(r, "Update",
          IF Live(id) THEN [table[id] EXCEPT !.sub = call[r].sub] ELSE Nil)

\* A mistake: the WHERE clause omits is_deleted.
ExecRemoveAgain(r) ==
  LET id == call[r].id IN
  /\ Unlocked(r, id)
  /\ Exec(r, "RemoveByID",
          IF table[id] # Nil THEN [table[id] EXCEPT !.deleted = TRUE] ELSE Nil)

ExecRemove(r) ==
  LET id == call[r].id IN
  /\ Unlocked(r, id)
  /\ Exec(r, "RemoveByID",
          IF Live(id) THEN [table[id] EXCEPT !.deleted = TRUE] ELSE Nil)

\* tx.Exec returns an error, before or after the database executed the
\* statement.  The deferred Rollback gives the connection back either way; when
\* it fails too that is only logged, and the backend finds out by itself
\* (DbAbort), its locks kept until then.
ExecFails(r) ==
  /\ call[r].pc \in {"exec", "executed"}
  /\ Return(r, "error", NoRows)
  /\ GiveConnection(r)
  /\ \/ UNCHANGED tx
     \/ tx' = [tx EXCEPT ![r].state = "aborted"]
  /\ UNCHANGED table

\* tx.Exec returned nil and tx.Commit(ctx) sends COMMIT, to a session that may
\* be gone by then.
SendCommit(r) ==
  /\ At(r, "executed")
  /\ IF tx[r].state = "open"
     THEN tx' = [tx EXCEPT ![r].state = "committing"]
     ELSE UNCHANGED tx
  /\ Goto(r, "committing")
  /\ UNCHANGED <<table, conns>>

\* The database commits, whether or not the client still waits for it.
DbCommit(r) ==
  /\ tx[r].state = "committing"
  /\ tx' = [tx EXCEPT ![r].state = "committed"]
  /\ table' = IF tx[r].row = Nil THEN table
              ELSE [table EXCEPT ![tx[r].id] = tx[r].row]
  /\ UNCHANGED <<conns, call>>

\* The database discards a transaction: its session was lost or terminated.
DbAbort(r) ==
  /\ tx[r].state \in {"open", "committing"}
  /\ tx' = [tx EXCEPT ![r].state = "aborted"]
  /\ UNCHANGED <<table, conns, call>>

\* A mistake: the result of Commit is not waited for.
CommitReturnsUnconfirmed(r) ==
  /\ At(r, "committing")
  /\ Return(r, "nil", NoRows)
  /\ GiveConnection(r)
  /\ UNCHANGED <<table, tx>>

\* tx.Commit(ctx) returns nil.
CommitReturns(r) ==
  /\ At(r, "committing")
  /\ tx[r].state = "committed"
  /\ Return(r, "nil", NoRows)
  /\ GiveConnection(r)
  /\ UNCHANGED <<table, tx>>

\* A mistake: the connection of a failed commit is not given back.
CommitFailsLeaking(r) ==
  /\ At(r, "committing")
  /\ Return(r, "error", NoRows)
  /\ UNCHANGED <<table, tx, conns>>

\* A mistake: the error of Commit is logged and not returned.
CommitFailsSilently(r) ==
  /\ At(r, "committing")
  /\ Return(r, "nil", NoRows)
  /\ GiveConnection(r)
  /\ UNCHANGED <<table, tx>>

\* tx.Commit(ctx) returns an error, which leaves open what the database did or
\* will do.  Commit has closed the transaction: the deferred Rollback is void.
CommitFails(r) ==
  /\ At(r, "committing")
  /\ Return(r, "error", NoRows)
  /\ GiveConnection(r)
  /\ UNCHANGED <<table, tx>>

-----------------------------------------------------------------------------
(* FindByID and Find                                                       *)

\* client.QueryRow or client.Query takes a connection.
AcquireForQuery(r) ==
  /\ At(r, "begin")
  /\ call[r].method \in ReadMethods
  /\ TakeConnection(r)
  /\ Goto(r, "query")
  /\ UNCHANGED <<table, tx>>

\* The SELECT of FindByID and its Scan.
QueryRow(r) ==
  LET found == {call[r].id} \cap LiveIDs IN
  /\ At(r, "query")
  /\ call[r].method = "FindByID"
  /\ Return(r, IF found = {} THEN "not_found" ELSE "nil", SubsOf(found))
  /\ GiveConnection(r)
  /\ UNCHANGED <<table, tx>>

\* The SELECT of Find, its rows read to the end and closed.
Query(r) ==
  /\ At(r, "query")
  /\ call[r].method = "Find"
  /\ LET found == {id \in LiveIDs : Matches(call[r].filter, table[id].sub)}
     IN Return(r, "nil", SubsOf(found))
  /\ GiveConnection(r)
  /\ UNCHANGED <<table, tx>>

\* Query, QueryRow, Scan or rows.Err() reports an error.
QueryFails(r) ==
  /\ At(r, "query")
  /\ Return(r, "error", NoRows)
  /\ GiveConnection(r)
  /\ UNCHANGED <<table, tx>>

-----------------------------------------------------------------------------
\* The steps of a call that is not failing.
CallProceeds(r) ==
  \/ BeginTx(r) \/ ExecInsert(r) \/ ExecUpdate(r) \/ ExecRemove(r)
  \/ SendCommit(r) \/ CommitReturns(r)
  \/ AcquireForQuery(r) \/ QueryRow(r) \/ Query(r)

CallFails(r) ==
  BeginFails(r) \/ ExecFails(r) \/ CommitFails(r) \/ QueryFails(r)

DbEnds(r) == DbCommit(r) \/ DbAbort(r)

StorageStep(r) == CallProceeds(r) \/ CallFails(r) \/ DbEnds(r)
=============================================================================
