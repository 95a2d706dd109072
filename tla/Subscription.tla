---------------------------- MODULE Subscription ----------------------------
(***************************************************************************)
(* The domain model of src/src/internal/models/subscription.go: the record *)
(* a subscription is, the rules a new one must meet, and the mutators that *)
(* UpdateExistingSubscription (src/src/internal/service/impl.go) applies   *)
(* to a stored one.                                                        *)
(*                                                                         *)
(* The API carries calendar dates (openapi_types.Date), which the code     *)
(* reads as midnight UTC, so a time is the number of a day: midnight of    *)
(* day s is not after an instant of day d exactly when s <= d.  Day 0 is   *)
(* Go's zero time, the value of a start_date left out of a JSON body.      *)
(* A subscription's ID is the key it is stored under.                      *)
(***************************************************************************)
EXTENDS Integers

CONSTANTS
  PersonID,       \* owners: the UUIDs a request can name, uuid.Nil included
  NilUUID,        \* uuid.Nil
  ServiceName,    \* names of services
  Empty,          \* the name ""
  Trim,           \* strings.Trim(name, " "), as a function on ServiceName
  Nil             \* a nil pointer: no end date, no row

ASSUME PersonAssumption == NilUUID \in PersonID

ASSUME NameAssumption ==
  /\ Empty \in ServiceName
  /\ Trim \in [ServiceName -> ServiceName]

ASSUME NilAssumption == Nil \notin Nat

Date == Nat
OptionalDate == Date \cup {Nil}

\* Subscription without its ID; also the arguments of a create or an update.
Sub == [owner: PersonID, service: ServiceName, price: Int,
        start: Date, end: OptionalDate]

-----------------------------------------------------------------------------
(* NewSubscription(owner, priceRUB, service, startTime, endTime)           *)

\* The checks of NewSubscription, of which the first that fails is reported.
NewSubscriptionAccepted(a, now) ==
  /\ a.start <= now
  /\ a.owner # NilUUID
  /\ Trim[a.service] # Empty
  /\ a.price >= 0
  /\ a.end # Nil => a.end >= a.start

NewSubscription(a) == [a EXCEPT !.service = Trim[a.service]]

-----------------------------------------------------------------------------
(* The mutators: X(s, v) is the subscription after a call that returned    *)
(* nil, XAccepted the condition under which it does.  An operator whose    *)
(* comment begins "A mistake" is a faulty variant of the one that follows: *)
(* no specification uses it; it shows what a property would catch.         *)

ChangeOwnerAccepted(owner) == owner # NilUUID
ChangeOwner(s, owner) == [s EXCEPT !.owner = owner]

\* A mistake: the end date is left alone.
ResetEndTimeForgotten(s) == s

ResetEndTime(s) == [s EXCEPT !.end = Nil]

ChangeStartTimeAccepted(s, start, now) ==
  /\ s.end # Nil => start <= s.end
  /\ start <= now
ChangeStartTime(s, start) == [s EXCEPT !.start = start]

\* A mistake: an end before the start is accepted.
ChangeEndTimeUnchecked(s, end) == TRUE

ChangeEndTimeAccepted(s, end) == s.start <= end
ChangeEndTime(s, end) == [s EXCEPT !.end = end]

ChangePriceAccepted(price) == price >= 0
ChangePrice(s, price) == [s EXCEPT !.price = price]

ChangeServiceNameAccepted(service) == service # Empty
ChangeServiceName(s, service) == [s EXCEPT !.service = service]

-----------------------------------------------------------------------------
(* The chain of mutators of UpdateExistingSubscription on the subscription *)
(* s it read, for the arguments u.                                         *)

Restarted(s, u) ==
  ChangeStartTime(ResetEndTime(ChangeOwner(s, u.owner)), u.start)

UpdateAccepted(s, u, now) ==
  /\ ChangeOwnerAccepted(u.owner)
  /\ ChangeStartTimeAccepted(ResetEndTime(s), u.start, now)
  /\ u.end # Nil => ChangeEndTimeAccepted(Restarted(s, u), u.end)
  /\ ChangePriceAccepted(u.price)
  /\ ChangeServiceNameAccepted(u.service)

Updated(s, u) ==
  LET ended == IF u.end = Nil THEN Restarted(s, u)
               ELSE ChangeEndTime(Restarted(s, u), u.end)
  IN ChangeServiceName(ChangePrice(ended, u.price), u.service)

-----------------------------------------------------------------------------
\* What every stored subscription is to satisfy on day `now`, whichever of
\* NewSubscription and the mutators produced it.
ValidSub(s, now) ==
  /\ s.owner # NilUUID
  /\ s.service # Empty
  /\ s.price >= 0
  /\ s.start <= now
  /\ s.end # Nil => s.start <= s.end
=============================================================================
