-------------------------- MODULE ServiceInterface --------------------------
(***************************************************************************)
(* What clients and the service say to each other: the operations of the   *)
(* generated API (src/src/internal/http/api/api.gen.go), what they carry,  *)
(* and their answers.                                                      *)
(***************************************************************************)
EXTENDS StorageInterface

CONSTANTS
  StrayID,      \* a well-formed UUID under which nothing was ever stored
  Payloads,     \* the JSON objects clients send with POST and PATCH
  CostQueries,  \* the parameters of GET /subscriptions/total-cost, decoded
  Operations,   \* the operations clients use
  Today,        \* the day the server starts
  LastDay       \* the clock stops here: a bound of the model

\* AddOrUpdateSubscription as JSON.  Nil is a field left out, or null: binding
\* does not tell the two apart, except for a start_date of null, which
\* openapi_types.Date refuses (BindFails).  Here a start of Nil is one left out.
Payload == [owner: PersonID \cup {Nil}, service: ServiceName \cup {Nil},
            price: Int \cup {Nil}, start: OptionalDate, end: OptionalDate]

\* ctx.Bind into an AddOrUpdateSubscription: what the JSON leaves out keeps
\* its zero value, required or not.
Decode(p) == [owner |-> IF p.owner = Nil THEN NilUUID ELSE p.owner,
              service |-> IF p.service = Nil THEN Empty ELSE p.service,
              price |-> IF p.price = Nil THEN 0 ELSE p.price,
              start |-> IF p.start = Nil THEN 0 ELSE p.start,
              end |-> p.end]

\* The bodies of POST and PATCH as the handlers get them.
Bodies == {Decode(p) : p \in Payloads}

ASSUME AbsenceAssumption ==
  Nil \notin PersonID /\ Nil \notin ServiceName /\ Nil \notin Int
ASSUME ClientAssumption ==
  /\ StrayID \in SubscriptionID
  /\ Payloads \subseteq Payload
  /\ CostQueries \subseteq Filter
ASSUME ClockAssumption == Today \in Nat /\ LastDay \in Nat /\ Today <= LastDay
ASSUME SeedAssumption ==
  /\ SeedRows \subseteq Row
  /\ \A row \in SeedRows : ValidSub(row.sub, Today)

Ops == {"POST", "PATCH", "DELETE", "GET", "LIST", "TOTAL"}

Statuses == {0, 200, 201, 204, 400, 404, 500}   \* 0: not answered yet

\* What a request carries: the body of a POST or PATCH, the query of a TOTAL.
Args == Sub \cup Filter \cup {Nil}

\* A request and its answer.
Request == [pc: {"new", "running", "answered"},
            op: Ops \cup {"none"},
            id: SubscriptionID \cup {Nil},
            args: Args,
            status: Statuses,
            body: ResultRows]
NoRequest == [pc |-> "new", op |-> "none", id |-> Nil, args |-> Nil,
              status |-> 0, body |-> NoRows]

\* storage.SubscriptionsFilter{}
NoFilter == [owner |-> NilUUID, service |-> Empty, from |-> Nil, to |-> Nil]

\* The checks of CalculateTotalSubscriptionsPrice.
CostQueryAccepted(f) ==
  /\ f.owner # NilUUID
  /\ f.service # Empty
  /\ f.from # Nil /\ f.to # Nil => f.to > f.from
=============================================================================
