----------------------------- MODULE OperatorPlan -----------------------------
(***************************************************************************)
(* What an operator may do under a plan: events with their monthly limit,  *)
(* devices with theirs, the subscriptions, and the lifecycle of an event   *)
(* (apps/events, apps/operators, apps/subscriptions).                      *)
(*                                                                         *)
(* Two transactions, the creation of an event and the registration of a    *)
(* device, count under the lock of the operator row and write afterwards;  *)
(* a PATCH reads the row of an event, and later saves every field of what  *)
(* it read.  start, finish, destroy and assign read and write in one step, *)
(* under the row lock they take or with one UPDATE.                        *)
(***************************************************************************)
EXTENDS Naturals, FiniteSets

CONSTANTS
    Operators, Handlers, Events, Installations, Plans,
    EventLimit,     \* Plan.max_events_per_month
    DeviceLimit,    \* Plan.max_devices
    NoOne, NoPlan, NoEvent,
    Followed,       \* a bound: the events that change once they are created
    LastMonth       \* a bound: the months the model lets pass

Statuses == {"DRAFT", "ACTIVE", "FINISHED", "DELETED"}

\* month is that of created_at, until that of retention_until, 0 for null:
\* a plan keeps the videos of an event for a month.
EventRow ==
    [operator : Operators, month : 0 .. LastMonth, status : Statuses,
     until : 0 .. (LastMonth + 1), public : BOOLEAN]

ASSUME PlanAssumption ==
    /\ IsFiniteSet(Events) /\ IsFiniteSet(Installations)
    /\ EventLimit \in [Plans -> Nat]
    /\ DeviceLimit \in [Plans -> Nat]
    /\ NoOne \notin Handlers \cup Operators
    /\ NoPlan \notin Plans
    /\ NoEvent \notin EventRow
    /\ Followed \subseteq Events
    /\ LastMonth \in Nat

VARIABLES
    month,      \* the month it is
    sub,        \* the current subscription of an operator: plan, grants_access
    event,      \* Event rows, or NoEvent
    device,     \* the operator of a Device row, or NoOne
    job,        \* what a request handler is in the middle of
    lock        \* the handler that holds the lock of an operator row

vars == <<month, sub, event, device, job, lock>>

Idle == [pc |-> "idle", operator |-> NoOne, target |-> NoOne, copy |-> NoEvent]

Init ==
    /\ month = 0
    /\ sub = [o \in Operators |-> [plan |-> NoPlan, grants |-> FALSE]]
    /\ event = [e \in Events |-> NoEvent]
    /\ device = [i \in Installations |-> NoOne]
    /\ job = [r \in Handlers |-> Idle]
    /\ lock = [o \in Operators |-> NoOne]

-----------------------------------------------------------------------------
(***************************************************************************)
(* Subscriptions.                                                          *)
(***************************************************************************)
\* require_active_subscription.
Grants(o) == sub[o].plan # NoPlan /\ sub[o].grants

\* Mutation of LockFree: select_for_update is left out.
NeverWaits(o) == TRUE

LockFree(o) == lock[o] = NoOne

\* ManualSubscriptionProvider.assign: any plan, and any status and dates.
AssignSubscription(o) ==
    /\ LockFree(o)
    /\ \E p \in Plans, g \in BOOLEAN :
          sub' = [sub EXCEPT ![o] = [plan |-> p, grants |-> g]]
    /\ UNCHANGED <<month, event, device, job, lock>>

\* It starts, expires, is cancelled, or its plan is withdrawn.
SubscriptionTurns(o) ==
    /\ sub[o].plan # NoPlan
    /\ \E g \in BOOLEAN : sub' = [sub EXCEPT ![o].grants = g]
    /\ UNCHANGED <<month, event, device, job, lock>>

-----------------------------------------------------------------------------
(***************************************************************************)
(* Transactions under the lock of the operator.  A refusal changes         *)
(* nothing.                                                                *)
(***************************************************************************)
\* Mutation of BeginUnderLock: the transaction does not span the write.
BeginUnlocked(r, o, j) ==
    /\ job[r] = Idle
    /\ LockFree(o)
    /\ Grants(o)
    /\ job' = [job EXCEPT ![r] = j]
    /\ UNCHANGED lock

BeginUnderLock(r, o, j) ==
    /\ job[r] = Idle
    /\ LockFree(o)
    /\ Grants(o)
    /\ lock' = [lock EXCEPT ![o] = r]
    /\ job' = [job EXCEPT ![r] = j]

EndTransaction(r) ==
    /\ lock' = [lock EXCEPT ![job[r].operator] = NoOne]
    /\ job' = [job EXCEPT ![r] = Idle]

\* locked_operator.events.filter(created_at__gte=month_start).
EventsSince(o, m) ==
    {e \in Events : event[e] # NoEvent /\ event[e].operator = o
                                       /\ event[e].month >= m}

\* create_event up to the check of the limit.
CreateCounts(r, o) ==
    /\ BeginUnderLock(r, o, [Idle EXCEPT !.pc = "creating", !.operator = o])
    /\ Cardinality(EventsSince(o, month)) < EventLimit[sub[o].plan]
    /\ UNCHANGED <<month, sub, event, device>>

\* The row is inserted, in the month it is by then, and committed.
CreateCommits(r) ==
    /\ job[r].pc = "creating"
    /\ \E e \in Events :
          /\ event[e] = NoEvent
          /\ event' = [event EXCEPT ![e] =
                 [operator |-> job[r].operator, month |-> month,
                  status |-> "DRAFT", until |-> 0, public |-> TRUE]]
    /\ EndTransaction(r)
    /\ UNCHANGED <<month, sub, device>>

\* operator.devices.
DevicesOf(o) == {i \in Installations : device[i] = o}

\* DeviceSerializer.create up to the checks.
RegisterReads(r, o, i) ==
    /\ BeginUnderLock(r, o, [Idle EXCEPT !.pc = "registering", !.operator = o,
                                         !.target = i])
    /\ \/ device[i] = o
       \/ /\ device[i] = NoOne
          /\ Cardinality(DevicesOf(o)) < DeviceLimit[sub[o].plan]
    /\ UNCHANGED <<month, sub, event, device>>

\* Mutation of RegisterCommits: update_or_create by installation.
RegisterTakesOver(r) ==
    /\ job[r].pc = "registering"
    /\ device' = [device EXCEPT ![job[r].target] = job[r].operator]
    /\ EndTransaction(r)
    /\ UNCHANGED <<month, sub, event>>

\* installation_id is unique: another operator may have inserted it since.
RegisterCommits(r) ==
    /\ job[r].pc = "registering"
    /\ device[job[r].target] \in {NoOne, job[r].operator}
    /\ device' = [device EXCEPT ![job[r].target] = job[r].operator]
    /\ EndTransaction(r)
    /\ UNCHANGED <<month, sub, event>>

\* A constraint fails, the connection is lost, or the process dies.
RollBack(r) ==
    /\ job[r].pc \in {"creating", "registering"}
    /\ EndTransaction(r)
    /\ UNCHANGED <<month, sub, event, device>>

-----------------------------------------------------------------------------
(***************************************************************************)
(* The lifecycle of an event.                                              *)
(***************************************************************************)
StartEvent(e) ==
    /\ event[e] # NoEvent
    /\ event[e].status = "DRAFT"
    /\ Grants(event[e].operator)
    /\ event' = [event EXCEPT ![e].status = "ACTIVE"]
    /\ UNCHANGED <<month, sub, device, job, lock>>

\* Mutation of FinishEvent: retention_until is not among the saved fields.
FinishWithoutRetention(e) ==
    /\ event[e] # NoEvent
    /\ event[e].status = "ACTIVE"
    /\ sub[event[e].operator].plan # NoPlan
    /\ event' = [event EXCEPT ![e].status = "FINISHED"]
    /\ UNCHANGED <<month, sub, device, job, lock>>

\* Mutation of FinishEvent: a finished event is finished again.
FinishAgain(e) ==
    /\ event[e] # NoEvent
    /\ event[e].status \in {"ACTIVE", "FINISHED"}
    /\ sub[event[e].operator].plan # NoPlan
    /\ event' = [event EXCEPT ![e].status = "FINISHED", ![e].until = month + 1]
    /\ UNCHANGED <<month, sub, device, job, lock>>

FinishEvent(e) ==
    /\ event[e] # NoEvent
    /\ event[e].status = "ACTIVE"
    /\ sub[event[e].operator].plan # NoPlan
    /\ event' = [event EXCEPT ![e].status = "FINISHED", ![e].until = month + 1]
    /\ UNCHANGED <<month, sub, device, job, lock>>

\* perform_destroy.
DestroyEvent(e) ==
    /\ event[e] # NoEvent
    /\ event' = [event EXCEPT ![e].status = "DELETED", ![e].public = FALSE]
    /\ UNCHANGED <<month, sub, device, job, lock>>

\* PATCH: get_object, then a save of every field, public_access_enabled
\* among them: its value comes with the request, and the old one is not kept.
EditReads(r, e) ==
    /\ job[r] = Idle
    /\ event[e] # NoEvent
    /\ Grants(event[e].operator)
    /\ job' = [job EXCEPT ![r] = [Idle EXCEPT !.pc = "editing", !.target = e,
                               !.copy = [event[e] EXCEPT !.public = FALSE]]]
    /\ UNCHANGED <<month, sub, event, device, lock>>

EditSaves(r) ==
    /\ job[r].pc = "editing"
    /\ \/ UNCHANGED event      \* the data is refused
       \/ \E b \in BOOLEAN :
             event' = [event EXCEPT ![job[r].target] =
                          [job[r].copy EXCEPT !.public = b]]
    /\ job' = [job EXCEPT ![r] = Idle]
    /\ UNCHANGED <<month, sub, device, lock>>

\* Time passes.
NextMonth ==
    /\ month < LastMonth
    /\ month' = month + 1
    /\ UNCHANGED <<sub, event, device, job, lock>>

\* _event_is_public: what the portal shows.
EventIsPublic(e) ==
    /\ event[e] # NoEvent
    /\ event[e].public
    /\ event[e].status # "DELETED"
    /\ event[e].until = 0 \/ month < event[e].until

Next ==
    \/ \E o \in Operators : AssignSubscription(o) \/ SubscriptionTurns(o)
    \/ \E r \in Handlers :
          \/ \E o \in Operators :
                \/ CreateCounts(r, o)
                \/ \E i \in Installations : RegisterReads(r, o, i)
          \/ CreateCommits(r)
          \/ RegisterCommits(r)
          \/ RollBack(r)
          \/ \E e \in Followed : EditReads(r, e)
          \/ EditSaves(r)
    \/ \E e \in Followed :
          \/ StartEvent(e)
          \/ FinishEvent(e)
          \/ DestroyEvent(e)
    \/ NextMonth

Spec == Init /\ [][Next]_vars
=============================================================================
