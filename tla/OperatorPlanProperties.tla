------------------------ MODULE OperatorPlanProperties ------------------------
(***************************************************************************)
(* What holds of the events and devices of an operator however requests,   *)
(* renewals of the subscription and the end of a month interleave.         *)
(***************************************************************************)
EXTENDS OperatorPlan, ByteRange

Transactions == {"creating", "registering"}

Jobs ==
    {Idle}
    \cup [pc : {"creating"}, operator : Operators,
          target : {NoOne}, copy : {NoEvent}]
    \cup [pc : {"registering"}, operator : Operators,
          target : Installations, copy : {NoEvent}]
    \cup [pc : {"editing"}, operator : {NoOne},
          target : Followed, copy : EventRow]

\* A lock is held by the handler in a transaction on that operator.
LocksMatch ==
    \A o \in Operators, r \in Handlers :
        lock[o] = r <=> job[r].pc \in Transactions /\ job[r].operator = o

\* Rows, request handlers and locks have the shape the code gives them, and
\* a lock is held exactly while the transaction that took it lasts, from the
\* count to the write.
PlanTypeOK ==
    /\ month \in 0 .. LastMonth
    /\ sub \in [Operators -> [plan : Plans \cup {NoPlan}, grants : BOOLEAN]]
    /\ event \in [Events -> EventRow \cup {NoEvent}]
    /\ device \in [Installations -> Operators \cup {NoOne}]
    /\ job \in [Handlers -> Jobs]
    /\ lock \in [Operators -> Handlers \cup {NoOne}]
    /\ LocksMatch

\* create_event: the events of the month fit the plan the operator has when
\* one is added, although they are counted earlier, other requests and a
\* change of plan arrive meanwhile, and the month may end in between.
EventsOfMonth(o, m) ==
    {e \in EventsSince(o, m) : event[e].month = m}
EventFits(e, o) ==
    event[e] = NoEvent /\ event'[e] # NoEvent /\ event'[e].operator = o =>
        /\ sub[o].plan # NoPlan
        /\ Cardinality(EventsOfMonth(o, month)') <= EventLimit[sub[o].plan]
EventsFitThePlan ==
    [][\A e \in Events, o \in Operators : EventFits(e, o)]_vars

\* DeviceSerializer.create: the devices fit the plan when one is added.
DeviceFits(i, o) ==
    device[i] = NoOne /\ device'[i] = o =>
        /\ sub[o].plan # NoPlan
        /\ Cardinality(DevicesOf(o)') <= DeviceLimit[sub[o].plan]
DevicesFitThePlan ==
    [][\A i \in Installations, o \in Operators : DeviceFits(i, o)]_vars

\* An installation never passes from one operator to another, although two
\* operators register it at once and neither finds a row to lock.
InstallationsStay ==
    [][\A i \in Installations :
          device[i] # NoOne => device'[i] = device[i]]_vars

\* A stale PATCH may bring back an old row, but never half of one: a draft
\* or an active event has no retention yet, and a finished one has.
RowIsWhole(row) ==
    /\ row.status \in {"DRAFT", "ACTIVE"} => row.until = 0
    /\ row.status = "FINISHED" => row.until > 0
EventsKeepTheirStory ==
    \A e \in Events : event[e] # NoEvent => RowIsWhole(event[e])

\* Only a PATCH can take an event back.  start, finish and destroy, in any
\* order and repeated at will, never bring a finished or deleted event back,
\* postpone its retention, or show it to the public again (docs/api.md:67:
\* finish is idempotent).
Rank(status) ==
    CASE status = "DRAFT" -> 0 [] status = "ACTIVE" -> 1
      [] status = "FINISHED" -> 2 [] status = "DELETED" -> 3
GoesOn(e) ==
    /\ Rank(event'[e].status) >= Rank(event[e].status)
    /\ event[e].until # 0 => event'[e].until = event[e].until
    /\ EventIsPublic(e)' => EventIsPublic(e)
OnlyEditsGoBack ==
    [][\A e \in Events : event[e] # NoEvent =>
          GoesOn(e) \/ \E r \in Handlers : EditSaves(r)]_vars

\* _video_bytes: while the event of a video is public, the portal serves the
\* bytes a Range header asks for, up to the end of the file, and refuses only
\* a header that asks for none of them.
MaxSize == 4
EveryRangeIsServed ==
    \A size \in 0 .. MaxSize, h \in Headers(0 .. (MaxSize + 1)) :
        ServesWhatIsAsked(h, size)
RangesAreServed ==
    \A e \in Events : EventIsPublic(e) => EveryRangeIsServed
=============================================================================
