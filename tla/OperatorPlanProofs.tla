-------------------------- MODULE OperatorPlanProofs --------------------------
(***************************************************************************)
(* The properties of OperatorPlan, for every number of operators, handlers,*)
(* events, installations and plans.                                        *)
(*                                                                         *)
(* The limits are counted in one step and used in a later one.  What makes *)
(* them inductive is what the handler of a transaction may rely on while   *)
(* it holds the lock of its operator: CreationsFit and RegistrationsFit.   *)
(***************************************************************************)
EXTENDS OperatorPlanProperties, TLAPS, FiniteSetTheorems

-----------------------------------------------------------------------------
(***************************************************************************)
(* The Range arithmetic of the portal, for every file and header.          *)
(***************************************************************************)
\* _file_chunks reads at start the positions up to the clipped end.
LEMMA ServedPositions ==
    ASSUME NEW h \in Headers(Nat), NEW size \in Nat, ~Unsatisfiable(h, size)
    PROVE  Served(h, size) = RangeStart(h, size) .. ClippedEnd(h, size)
  BY DEF Headers, Absent, Unsatisfiable, Served, RangeStart, RangeEnd,
         ClippedEnd

\* A refused header asks for no byte of the file.
LEMMA RefusalIsRight ==
    ASSUME NEW h \in Headers(Nat), NEW size \in Nat, Unsatisfiable(h, size),
           NEW n \in 0 .. (size - 1)
    PROVE  ~AskedFor(h, size, n)
  BY DEF Headers, Absent, Unsatisfiable, RangeStart, RangeEnd, AskedFor

\* _video_bytes: whatever the size of the file and the numbers of the
\* header, the portal sends the bytes the header asks for, or refuses when
\* there is none.
THEOREM RangeServesRequest ==
    ASSUME NEW h \in Headers(Nat), NEW size \in Nat
    PROVE  ServesWhatIsAsked(h, size)
<1>1. CASE Unsatisfiable(h, size)
  BY <1>1, RefusalIsRight DEF ServesWhatIsAsked
<1>2. CASE ~Unsatisfiable(h, size)
  <2>1. ASSUME NEW n \in Int
        PROVE  n \in RangeStart(h, size) .. ClippedEnd(h, size)
                 <=> n \in 0 .. (size - 1) /\ AskedFor(h, size, n)
    BY <1>2 DEF Headers, Absent, Unsatisfiable, RangeStart, RangeEnd,
                ClippedEnd, AskedFor
  <2>2. RangeStart(h, size) .. ClippedEnd(h, size)
          = {n \in 0 .. (size - 1) : AskedFor(h, size, n)}
    BY <2>1
  <2> QED
    BY <1>2, <2>2, ServedPositions DEF ServesWhatIsAsked
<1> QED
  BY <1>1, <1>2

-----------------------------------------------------------------------------
(***************************************************************************)
(* Events, devices and plans.                                              *)
(***************************************************************************)
EventsArePast ==
    \A e \in Events : event[e] # NoEvent => event[e].month <= month

\* What a PATCH has read is whole, and of the same event.
EditsKnowTheirEvent ==
    \A r \in Handlers : job[r].pc = "editing" =>
        /\ event[job[r].target] # NoEvent
        /\ event[job[r].target].operator = job[r].copy.operator
        /\ event[job[r].target].month = job[r].copy.month
        /\ RowIsWhole(job[r].copy)

\* While its transaction lasts, there is room for the event that was counted
\* for, in this month and in the next,
RoomForEvent(o) ==
    /\ sub[o].plan \in Plans
    /\ Cardinality(EventsOfMonth(o, month)) < EventLimit[sub[o].plan]
CreationsFit ==
    \A r \in Handlers :
        job[r].pc = "creating" => RoomForEvent(job[r].operator)

\* and for the device, unless the operator has it already.
RoomForDevice(o) ==
    /\ sub[o].plan \in Plans
    /\ Cardinality(DevicesOf(o)) < DeviceLimit[sub[o].plan]
RegistrationsFit ==
    \A r \in Handlers : job[r].pc = "registering" =>
        \/ device[job[r].target] = job[r].operator
        \/ RoomForDevice(job[r].operator)

PlanInv ==
    /\ PlanTypeOK
    /\ EventsKeepTheirStory
    /\ EventsArePast
    /\ EditsKnowTheirEvent
    /\ CreationsFit
    /\ RegistrationsFit

-----------------------------------------------------------------------------
(***************************************************************************)
(* The initial state, and the rows and locks in every step.                *)
(***************************************************************************)
LEMMA InitInv == Init => PlanInv
<1> SUFFICES ASSUME Init PROVE PlanInv
  OBVIOUS
<1>1. PlanTypeOK
  BY PlanAssumption
     DEF Init, PlanTypeOK, Jobs, LocksMatch, Transactions, Idle
<1> QED
  BY <1>1 DEF Init, PlanInv, EventsKeepTheirStory, EventsArePast,
              EditsKnowTheirEvent, CreationsFit, RegistrationsFit, Idle

\* BeginUnderLock takes a free lock for a handler that holds none.
LEMMA BeginTypes ==
    ASSUME PlanTypeOK, NEW r \in Handlers, NEW o \in Operators,
           NEW j \in Jobs, j.pc \in Transactions, j.operator = o,
           BeginUnderLock(r, o, j)
    PROVE  /\ job' \in [Handlers -> Jobs]
           /\ lock' \in [Operators -> Handlers \cup {NoOne}]
           /\ LocksMatch'
<1> USE DEF BeginUnderLock, PlanTypeOK
<1>1. job' \in [Handlers -> Jobs]
  OBVIOUS
<1>2. lock' \in [Operators -> Handlers \cup {NoOne}]
  OBVIOUS
<1>3. job[r].pc \notin Transactions /\ lock[o] = NoOne /\ NoOne \notin Handlers
  BY PlanAssumption DEF Idle, Transactions, LockFree
<1>4. ASSUME NEW p \in Operators, NEW q \in Handlers
      PROVE  lock'[p] = q
               <=> job'[q].pc \in Transactions /\ job'[q].operator = p
  BY <1>3 DEF LocksMatch
<1> QED
  BY <1>1, <1>2, <1>4 DEF LocksMatch

\* EndTransaction gives back the lock of the handler and no other.
LEMMA EndTypes ==
    ASSUME PlanTypeOK, NEW r \in Handlers, job[r].pc \in Transactions,
           EndTransaction(r)
    PROVE  /\ job[r].operator \in Operators
           /\ job' \in [Handlers -> Jobs]
           /\ lock' \in [Operators -> Handlers \cup {NoOne}]
           /\ LocksMatch'
<1> USE DEF EndTransaction, PlanTypeOK
<1>1. job[r].operator \in Operators
  BY DEF Jobs, Idle, Transactions
<1>2. job' \in [Handlers -> Jobs]
  BY DEF Jobs
<1>3. lock' \in [Operators -> Handlers \cup {NoOne}]
  BY <1>1
<1>4. lock[job[r].operator] = r /\ NoOne \notin Handlers
  BY <1>1, PlanAssumption DEF LocksMatch
<1>5. Idle.pc \notin Transactions
  BY DEF Idle, Transactions
<1>6. ASSUME NEW p \in Operators, NEW q \in Handlers
      PROVE  lock'[p] = q
               <=> job'[q].pc \in Transactions /\ job'[q].operator = p
  BY <1>1, <1>4, <1>5 DEF LocksMatch
<1> QED
  BY <1>1, <1>2, <1>3, <1>6 DEF LocksMatch

LEMMA EditJobs ==
    ASSUME PlanTypeOK, NEW r \in Handlers, job[r].pc = "editing"
    PROVE  /\ job[r].target \in Events
           /\ job[r].copy \in EventRow
           /\ job[r].copy # NoEvent
  BY PlanAssumption DEF PlanTypeOK, Jobs, Idle

LEMMA TypeStep == PlanTypeOK /\ [Next]_vars => PlanTypeOK'
<1> SUFFICES ASSUME PlanTypeOK, [Next]_vars PROVE PlanTypeOK'
  OBVIOUS
<1> USE PlanAssumption
<1>1. ASSUME NEW o \in Operators, AssignSubscription(o) PROVE PlanTypeOK'
  BY <1>1 DEF AssignSubscription, PlanTypeOK, LocksMatch
<1>2. ASSUME NEW o \in Operators, SubscriptionTurns(o) PROVE PlanTypeOK'
  BY <1>2 DEF SubscriptionTurns, PlanTypeOK, LocksMatch
<1>3. ASSUME NEW r \in Handlers, NEW o \in Operators, CreateCounts(r, o)
      PROVE  PlanTypeOK'
  <2> DEFINE j == [Idle EXCEPT !.pc = "creating", !.operator = o]
  <2>1. j \in Jobs /\ j.pc \in Transactions /\ j.operator = o
    BY DEF Jobs, Idle, Transactions
  <2>2. BeginUnderLock(r, o, j)
    BY <1>3 DEF CreateCounts
  <2> QED
    BY <1>3, <2>1, <2>2, BeginTypes DEF CreateCounts, PlanTypeOK
<1>4. ASSUME NEW r \in Handlers, NEW o \in Operators,
             NEW i \in Installations, RegisterReads(r, o, i)
      PROVE  PlanTypeOK'
  <2> DEFINE j == [Idle EXCEPT !.pc = "registering", !.operator = o,
                               !.target = i]
  <2>1. j \in Jobs /\ j.pc \in Transactions /\ j.operator = o
    BY DEF Jobs, Idle, Transactions
  <2>2. BeginUnderLock(r, o, j)
    BY <1>4 DEF RegisterReads
  <2> QED
    BY <1>4, <2>1, <2>2, BeginTypes DEF RegisterReads, PlanTypeOK
<1>5. ASSUME NEW r \in Handlers, CreateCommits(r) PROVE PlanTypeOK'
  <2>1. job[r].pc \in Transactions /\ EndTransaction(r)
    BY <1>5 DEF CreateCommits, Transactions
  <2>2. job[r].operator \in Operators
    BY <2>1, EndTypes
  <2>3. event' \in [Events -> EventRow \cup {NoEvent}]
    BY <1>5, <2>2 DEF CreateCommits, PlanTypeOK, EventRow, Statuses
  <2> QED
    BY <1>5, <2>1, <2>3, EndTypes DEF CreateCommits, PlanTypeOK
<1>6. ASSUME NEW r \in Handlers, RegisterCommits(r) PROVE PlanTypeOK'
  <2>1. job[r].pc \in Transactions /\ EndTransaction(r)
    BY <1>6 DEF RegisterCommits, Transactions
  <2>2. device' \in [Installations -> Operators \cup {NoOne}]
    BY <1>6, <2>1, EndTypes DEF RegisterCommits, PlanTypeOK
  <2> QED
    BY <1>6, <2>1, <2>2, EndTypes DEF RegisterCommits, PlanTypeOK
<1>7. ASSUME NEW r \in Handlers, RollBack(r) PROVE PlanTypeOK'
  BY <1>7, EndTypes DEF RollBack, PlanTypeOK, Transactions
<1>8. ASSUME NEW r \in Handlers, NEW e \in Followed, EditReads(r, e)
      PROVE  PlanTypeOK'
  <2> DEFINE j == [Idle EXCEPT !.pc = "editing", !.target = e,
                               !.copy = [event[e] EXCEPT !.public = FALSE]]
  <2>1. event[e] \in EventRow
    BY <1>8 DEF EditReads, PlanTypeOK
  <2>2. [event[e] EXCEPT !.public = FALSE] \in EventRow
    BY <2>1 DEF EventRow
  <2>3. j \in Jobs
    BY <2>2 DEF Jobs, Idle
  <2>4. job' \in [Handlers -> Jobs]
    BY <1>8, <2>3 DEF EditReads, PlanTypeOK
  <2>5. job[r].pc \notin Transactions /\ job'[r].pc \notin Transactions
    BY <1>8 DEF EditReads, PlanTypeOK, Idle, Transactions
  <2>6. LocksMatch'
    BY <1>8, <2>5 DEF EditReads, PlanTypeOK, LocksMatch
  <2> QED
    BY <1>8, <2>4, <2>6 DEF EditReads, PlanTypeOK
<1>9. ASSUME NEW r \in Handlers, EditSaves(r) PROVE PlanTypeOK'
  <2>1. job[r].pc = "editing"
    BY <1>9 DEF EditSaves
  <2>2. ASSUME NEW b \in BOOLEAN
        PROVE  [job[r].copy EXCEPT !.public = b] \in EventRow
    BY <2>1, EditJobs DEF EventRow
  <2>3. event' \in [Events -> EventRow \cup {NoEvent}]
    BY <1>9, <2>2 DEF EditSaves, PlanTypeOK
  <2>4. job' \in [Handlers -> Jobs]
    BY <1>9 DEF EditSaves, PlanTypeOK, Jobs
  <2>5. job[r].pc \notin Transactions /\ job'[r].pc \notin Transactions
    BY <1>9 DEF EditSaves, PlanTypeOK, Idle, Transactions
  <2>6. LocksMatch'
    BY <1>9, <2>5 DEF EditSaves, PlanTypeOK, LocksMatch
  <2> QED
    BY <1>9, <2>3, <2>4, <2>6 DEF EditSaves, PlanTypeOK
<1>10. ASSUME NEW e \in Followed,
              StartEvent(e) \/ FinishEvent(e) \/ DestroyEvent(e)
       PROVE  PlanTypeOK'
  <2>1. event[e] \in EventRow
    BY <1>10 DEF StartEvent, FinishEvent, DestroyEvent, PlanTypeOK
  <2>2. event' \in [Events -> EventRow \cup {NoEvent}]
    BY <1>10, <2>1
       DEF StartEvent, FinishEvent, DestroyEvent, PlanTypeOK, EventRow, Statuses
  <2> QED
    BY <1>10, <2>2
       DEF StartEvent, FinishEvent, DestroyEvent, PlanTypeOK, LocksMatch
<1>11. CASE NextMonth
  BY <1>11 DEF NextMonth, PlanTypeOK, LocksMatch
<1>12. CASE UNCHANGED vars
  BY <1>12 DEF vars, PlanTypeOK, LocksMatch
<1> QED
  BY <1>1, <1>2, <1>3, <1>4, <1>5, <1>6, <1>7, <1>8, <1>9, <1>10, <1>11, <1>12
     DEF Next

\* Spec keeps the shape of rows, requests and locks: a lock is held exactly
\* from the count of a transaction to its write.
THEOREM TypeCorrect == Spec => []PlanTypeOK
<1>1. Init => PlanTypeOK
  BY InitInv DEF PlanInv
<1> QED
  BY <1>1, TypeStep, PTL DEF Spec

-----------------------------------------------------------------------------
(***************************************************************************)
(* What an event keeps.                                                    *)
(***************************************************************************)
\* The steps on an event, a stale PATCH among them, neither add nor remove a
\* row, nor do they give it another operator or month.
SameEvents ==
    \A e \in Events :
        /\ event'[e] = NoEvent <=> event[e] = NoEvent
        /\ event[e] # NoEvent => /\ event'[e].operator = event[e].operator
                                 /\ event'[e].month = event[e].month

LEMMA EditsKeepEvents ==
    ASSUME PlanInv, NEW r \in Handlers, EditSaves(r)
    PROVE  SameEvents
<1>1. /\ job[r].pc = "editing"
      /\ job[r].target \in Events
      /\ job[r].copy \in EventRow
  BY EditJobs DEF EditSaves, PlanInv
<1>2. ASSUME NEW b \in BOOLEAN
      PROVE  LET row == [job[r].copy EXCEPT !.public = b]
             IN  /\ row \in EventRow /\ row # NoEvent
                 /\ row.operator = job[r].copy.operator
                 /\ row.month = job[r].copy.month
  BY <1>1, PlanAssumption DEF EventRow
<1> QED
  BY <1>1, <1>2 DEF EditSaves, SameEvents, PlanInv, PlanTypeOK,
                    EditsKnowTheirEvent

LEMMA HandlersKeepEvents ==
    ASSUME PlanInv, NEW e \in Followed,
           StartEvent(e) \/ FinishEvent(e) \/ DestroyEvent(e)
    PROVE  SameEvents
<1>1. event[e] \in EventRow
  BY PlanAssumption
     DEF StartEvent, FinishEvent, DestroyEvent, PlanInv, PlanTypeOK
<1>2. /\ event'[e] \in EventRow
      /\ event'[e].operator = event[e].operator
      /\ event'[e].month = event[e].month
      /\ \A d \in Events : d # e => event'[d] = event[d]
  BY <1>1, PlanAssumption DEF StartEvent, FinishEvent, DestroyEvent, PlanInv,
     PlanTypeOK, EventRow, Statuses
<1> QED
  BY <1>1, <1>2, PlanAssumption DEF SameEvents

LEMMA SameCounts ==
    ASSUME SameEvents, NEW o \in Operators, UNCHANGED month
    PROVE  EventsOfMonth(o, month)' = EventsOfMonth(o, month)
  BY DEF SameEvents, EventsOfMonth, EventsSince

\* Rows stay whole and in the past, and so does what a PATCH has read.
StoryInv == EventsKeepTheirStory /\ EventsArePast /\ EditsKnowTheirEvent

LEMMA StoryStep ==
    ASSUME PlanInv, [Next]_vars
    PROVE  StoryInv'
<1> USE DEF PlanInv, StoryInv
<1>0. /\ event \in [Events -> EventRow \cup {NoEvent}]
      /\ month \in 0 .. LastMonth
      /\ job \in [Handlers -> Jobs]
      /\ NoEvent \notin EventRow
      /\ Followed \subseteq Events
      /\ LastMonth \in Nat
  BY PlanAssumption DEF PlanTypeOK
<1>1. ASSUME UNCHANGED <<event, month>>,
             \A r \in Handlers : job'[r].pc = "editing" => job'[r] = job[r]
      PROVE  StoryInv'
  BY <1>0, <1>1 DEF EventsKeepTheirStory, EventsArePast, EditsKnowTheirEvent,
                    RowIsWhole
<1>2. ASSUME NEW r \in Handlers, EndTransaction(r), UNCHANGED <<event, month>>
      PROVE  StoryInv'
  BY <1>0, <1>1, <1>2 DEF EndTransaction, Idle
<1>3. ASSUME NEW r \in Handlers, CreateCommits(r) PROVE StoryInv'
  <2>1. PICK e \in Events :
           /\ event[e] = NoEvent
           /\ event' = [event EXCEPT ![e] =
                  [operator |-> job[r].operator, month |-> month,
                   status |-> "DRAFT", until |-> 0, public |-> TRUE]]
    BY <1>3 DEF CreateCommits
  <2>2. \A q \in Handlers : job'[q].pc = "editing" => job'[q] = job[q]
    BY <1>0, <1>3 DEF CreateCommits, EndTransaction, Idle
  <2>3. EventsKeepTheirStory' /\ EventsArePast'
    BY <1>0, <1>3, <2>1 DEF CreateCommits, EventsKeepTheirStory,
                            EventsArePast, RowIsWhole
  <2>4. EditsKnowTheirEvent'
    BY <1>0, <2>1, <2>2, EditJobs DEF EditsKnowTheirEvent, RowIsWhole
  <2> QED
    BY <2>3, <2>4
<1>4. ASSUME NEW r \in Handlers, NEW e \in Followed, EditReads(r, e)
      PROVE  StoryInv'
  <2>1. event[e] \in EventRow
    BY <1>0, <1>4 DEF EditReads
  <2>2. ASSUME NEW q \in Handlers
        PROVE  job'[q] = IF q = r
                           THEN [Idle EXCEPT !.pc = "editing", !.target = e,
                                  !.copy = [event[e] EXCEPT !.public = FALSE]]
                           ELSE job[q]
    BY <1>0, <1>4 DEF EditReads
  <2>3. EditsKnowTheirEvent'
    BY <1>0, <1>4, <2>1, <2>2
       DEF EditReads, EditsKnowTheirEvent, Idle, RowIsWhole, EventRow,
           EventsKeepTheirStory
  <2> QED
    BY <1>0, <1>4, <2>3 DEF EditReads, EventsKeepTheirStory, EventsArePast,
                            RowIsWhole
<1>5. ASSUME NEW r \in Handlers, EditSaves(r) PROVE StoryInv'
  <2>1. SameEvents
    BY <1>5, EditsKeepEvents
  <2>2. \A q \in Handlers : job'[q].pc = "editing" => job'[q] = job[q]
    BY <1>0, <1>5 DEF EditSaves, Idle
  <2>3. EditsKnowTheirEvent' /\ EventsArePast'
    BY <1>0, <1>5, <2>1, <2>2, EditJobs
       DEF SameEvents, EditsKnowTheirEvent, EventsArePast, RowIsWhole,
           EditSaves
  <2>4. ASSUME NEW b \in BOOLEAN
        PROVE  RowIsWhole([job[r].copy EXCEPT !.public = b])
    BY <1>5, EditJobs DEF EditSaves, EditsKnowTheirEvent, RowIsWhole, EventRow
  <2>5. EventsKeepTheirStory'
    BY <1>0, <1>5, <2>4, EditJobs DEF EditSaves, EventsKeepTheirStory,
                                      RowIsWhole
  <2> QED
    BY <2>3, <2>5
<1>6. ASSUME NEW e \in Followed,
             StartEvent(e) \/ FinishEvent(e) \/ DestroyEvent(e)
      PROVE  StoryInv'
  <2>1. SameEvents
    BY <1>6, HandlersKeepEvents
  <2>2. EditsKnowTheirEvent' /\ EventsArePast'
    BY <1>0, <1>6, <2>1, EditJobs
       DEF SameEvents, EditsKnowTheirEvent, EventsArePast, RowIsWhole,
           StartEvent, FinishEvent, DestroyEvent
  <2>3. event[e] \in EventRow
    BY <1>0, <1>6 DEF StartEvent, FinishEvent, DestroyEvent
  <2>4. EventsKeepTheirStory'
    BY <1>0, <1>6, <2>3 DEF StartEvent, FinishEvent, DestroyEvent, EventRow,
                            EventsKeepTheirStory, RowIsWhole
  <2> QED
    BY <2>2, <2>4
<1>7. CASE NextMonth
  <2>1. EventsKeepTheirStory' /\ EditsKnowTheirEvent'
    BY <1>7 DEF NextMonth, EventsKeepTheirStory, EditsKnowTheirEvent,
                RowIsWhole
  <2>2. EventsArePast'
    BY <1>0, <1>7 DEF NextMonth, EventsArePast, EventRow
  <2> QED
    BY <2>1, <2>2
<1>8. ASSUME NEW r \in Handlers, NEW o \in Operators,
             \/ CreateCounts(r, o)
             \/ \E i \in Installations : RegisterReads(r, o, i)
      PROVE  StoryInv'
  BY <1>0, <1>1, <1>8 DEF CreateCounts, RegisterReads, BeginUnderLock, Idle
<1>9. ASSUME NEW r \in Handlers, RegisterCommits(r) \/ RollBack(r)
      PROVE  StoryInv'
  BY <1>2, <1>9 DEF RegisterCommits, RollBack
<1>10. ASSUME NEW o \in Operators, AssignSubscription(o) \/ SubscriptionTurns(o)
       PROVE  StoryInv'
  BY <1>1, <1>10 DEF AssignSubscription, SubscriptionTurns
<1>11. CASE UNCHANGED vars
  BY <1>1, <1>11 DEF vars
<1> QED
  BY <1>3, <1>4, <1>5, <1>6, <1>7, <1>8, <1>9, <1>10, <1>11 DEF Next

-----------------------------------------------------------------------------
(***************************************************************************)
(* Room for what was counted.                                              *)
(***************************************************************************)
LEMMA CountsAreNat ==
    ASSUME NEW o, NEW m
    PROVE  /\ IsFiniteSet(EventsSince(o, m)) /\ IsFiniteSet(EventsOfMonth(o, m))
           /\ IsFiniteSet(DevicesOf(o))
           /\ Cardinality(EventsSince(o, m)) \in Nat
           /\ Cardinality(EventsOfMonth(o, m)) \in Nat
           /\ Cardinality(DevicesOf(o)) \in Nat
           /\ Cardinality(EventsOfMonth(o, m)) <= Cardinality(EventsSince(o, m))
<1>1. /\ EventsSince(o, m) \subseteq Events
      /\ EventsOfMonth(o, m) \subseteq EventsSince(o, m)
      /\ DevicesOf(o) \subseteq Installations
  BY DEF EventsSince, EventsOfMonth, DevicesOf
<1>2. /\ IsFiniteSet(EventsSince(o, m)) /\ IsFiniteSet(EventsOfMonth(o, m))
      /\ IsFiniteSet(DevicesOf(o))
  BY <1>1, PlanAssumption, FS_Subset
<1> QED
  BY <1>1, <1>2, FS_CardinalityType, FS_Subset

\* A transaction keeps everybody else off its operator.
LEMMA OthersHaveOthers ==
    ASSUME PlanTypeOK, NEW r \in Handlers, NEW q \in Handlers, r # q,
           job[r].pc \in Transactions, job[q].pc \in Transactions
    PROVE  job[r].operator # job[q].operator
<1>1. job[r].operator \in Operators
  BY DEF PlanTypeOK, Jobs, Idle, Transactions
<1> QED
  BY <1>1 DEF PlanTypeOK, LocksMatch

LEMMA LockedIsNotFree ==
    ASSUME PlanTypeOK, NEW q \in Handlers, job[q].pc \in Transactions,
           NEW o \in Operators, LockFree(o)
    PROVE  job[q].operator # o
  BY PlanAssumption DEF PlanTypeOK, LocksMatch, LockFree

\* What a handler in a transaction relies on survives a step that changes
\* neither its plan nor what was counted.
LEMMA RoomStays ==
    ASSUME NEW o,
           sub'[o].plan = sub[o].plan
    PROVE  /\ EventsOfMonth(o, month)' = EventsOfMonth(o, month)
                => (RoomForEvent(o) => RoomForEvent(o)')
           /\ DevicesOf(o)' = DevicesOf(o)
                => (RoomForDevice(o) => RoomForDevice(o)')
  BY DEF RoomForEvent, RoomForDevice

RoomInv == CreationsFit /\ RegistrationsFit

\* The operator of a transaction is not that of an assignment, nor of
\* another commit.
LEMMA RoomStep ==
    ASSUME PlanInv, [Next]_vars
    PROVE  RoomInv'
<1> USE DEF RoomInv
<1>0. /\ job \in [Handlers -> Jobs]
      /\ sub \in [Operators -> [plan : Plans \cup {NoPlan}, grants : BOOLEAN]]
      /\ NoPlan \notin Plans
      /\ EventLimit \in [Plans -> Nat] /\ DeviceLimit \in [Plans -> Nat]
      /\ Followed \subseteq Events
      /\ PlanTypeOK
      /\ \A q \in Handlers : job[q].pc \in Transactions =>
             job[q].operator \in Operators
  BY PlanAssumption DEF PlanInv, PlanTypeOK, Jobs, Idle, Transactions
<1>1. ASSUME UNCHANGED month,
             \A q \in Handlers : job'[q].pc \in Transactions =>
                 /\ job'[q] = job[q]
                 /\ sub'[job[q].operator].plan = sub[job[q].operator].plan
                 /\ \/ UNCHANGED event
                    \/ SameEvents
                    \/ \A e \in Events :
                          \/ event'[e] = event[e]
                          \/ /\ event[e] = NoEvent
                             /\ event'[e].operator # job[q].operator
                 /\ \A i \in Installations :
                       \/ device'[i] = device[i]
                       \/ /\ device[i] = NoOne
                          /\ device'[i] # job[q].operator
      PROVE  RoomInv'
  <2>1. ASSUME NEW q \in Handlers, job'[q].pc \in Transactions
        PROVE  /\ EventsOfMonth(job[q].operator, month)'
                    = EventsOfMonth(job[q].operator, month)
               /\ DevicesOf(job[q].operator)' = DevicesOf(job[q].operator)
    <3> DEFINE o == job[q].operator
    <3>1. o \in Operators /\ NoOne \notin Operators
      BY <1>0, <1>1, <2>1, PlanAssumption
    <3>2. {e \in Events : event'[e] # NoEvent /\ event'[e].operator = o
                             /\ event'[e].month >= month
                             /\ event'[e].month = month}
            = {e \in Events : event[e] # NoEvent /\ event[e].operator = o
                             /\ event[e].month >= month
                             /\ event[e].month = month}
      BY <1>1, <2>1, <3>1 DEF SameEvents
    <3>3. {i \in Installations : device'[i] = o}
            = {i \in Installations : device[i] = o}
      BY <1>1, <2>1, <3>1
    <3> QED
      BY <1>1, <2>1, <3>2, <3>3 DEF EventsOfMonth, EventsSince, DevicesOf
  <2>2. CreationsFit'
    BY <1>0, <1>1, <2>1, RoomStays DEF PlanInv, CreationsFit, Transactions
  <2>3. ASSUME NEW q \in Handlers, job'[q].pc = "registering"
        PROVE  \/ device'[job[q].target] = job[q].operator
               \/ RoomForDevice(job[q].operator)'
    <3>1. /\ job'[q] = job[q]
          /\ job[q].target \in Installations
          /\ job[q].operator # NoOne
      BY <1>0, <1>1, <2>3, PlanAssumption
         DEF Transactions, PlanTypeOK, Jobs, Idle
    <3>2. CASE device[job[q].target] = job[q].operator
      BY <1>1, <2>3, <3>1, <3>2 DEF Transactions
    <3>3. CASE RoomForDevice(job[q].operator)
      BY <1>1, <2>1, <2>3, <3>3, RoomStays DEF Transactions
    <3> QED
      BY <2>3, <3>1, <3>2, <3>3 DEF PlanInv, RegistrationsFit
  <2> QED
    BY <1>1, <2>2, <2>3 DEF RegistrationsFit, Transactions
<1>2. ASSUME NEW o \in Operators, AssignSubscription(o) PROVE RoomInv'
  BY <1>0, <1>1, <1>2, LockedIsNotFree DEF AssignSubscription
<1>3. ASSUME NEW o \in Operators, SubscriptionTurns(o) PROVE RoomInv'
  BY <1>0, <1>1, <1>3 DEF SubscriptionTurns
<1>4. ASSUME NEW r \in Handlers, NEW o \in Operators, CreateCounts(r, o)
      PROVE  RoomInv'
  <2>1. /\ UNCHANGED <<month, sub, event, device>>
        /\ job' = [job EXCEPT ![r] =
               [Idle EXCEPT !.pc = "creating", !.operator = o]]
    BY <1>4 DEF CreateCounts, BeginUnderLock
  <2>2. RoomForEvent(o)
    BY <1>0, <1>4, CountsAreNat
       DEF CreateCounts, BeginUnderLock, Grants, RoomForEvent
  <2>3. CreationsFit'
    BY <1>0, <2>1, <2>2, RoomStays DEF PlanInv, CreationsFit, Idle,
       EventsOfMonth, EventsSince
  <2>4. RegistrationsFit'
    BY <1>0, <2>1 DEF PlanInv, RegistrationsFit, Idle, RoomForDevice, DevicesOf
  <2> QED
    BY <2>3, <2>4
<1>5. ASSUME NEW r \in Handlers, NEW o \in Operators,
             NEW i \in Installations, RegisterReads(r, o, i)
      PROVE  RoomInv'
  <2>1. /\ UNCHANGED <<month, sub, event, device>>
        /\ job' = [job EXCEPT ![r] =
               [Idle EXCEPT !.pc = "registering", !.operator = o,
                            !.target = i]]
    BY <1>5 DEF RegisterReads, BeginUnderLock
  <2>2. device[i] = o \/ RoomForDevice(o)
    BY <1>0, <1>5 DEF RegisterReads, BeginUnderLock, Grants, RoomForDevice
  <2>3. CreationsFit'
    BY <1>0, <2>1 DEF PlanInv, CreationsFit, Idle, RoomForEvent,
       EventsOfMonth, EventsSince
  <2>4. RegistrationsFit'
    BY <1>0, <2>1, <2>2, RoomStays DEF PlanInv, RegistrationsFit, Idle,
       DevicesOf
  <2> QED
    BY <2>3, <2>4
<1>6. ASSUME NEW r \in Handlers, CreateCommits(r) PROVE RoomInv'
  <2>1. PICK e \in Events :
           /\ event[e] = NoEvent
           /\ event' = [event EXCEPT ![e] =
                  [operator |-> job[r].operator, month |-> month,
                   status |-> "DRAFT", until |-> 0, public |-> TRUE]]
    BY <1>6 DEF CreateCommits
  <2>2. job' = [job EXCEPT ![r] = Idle] /\ job[r].pc \in Transactions
    BY <1>6 DEF CreateCommits, EndTransaction, Transactions
  <2>3. ASSUME NEW q \in Handlers, job'[q].pc \in Transactions
        PROVE  q # r /\ job'[q] = job[q]
                     /\ job[r].operator # job[q].operator
    BY <1>0, <2>2, <2>3, OthersHaveOthers DEF Idle, Transactions
  <2>4. \A d \in Events :
           \/ event'[d] = event[d]
           \/ event[d] = NoEvent /\ event'[d].operator = job[r].operator
    BY <2>1 DEF PlanInv, PlanTypeOK
  <2> QED
    BY <1>1, <1>6, <2>3, <2>4 DEF CreateCommits
<1>7. ASSUME NEW r \in Handlers, RegisterCommits(r) PROVE RoomInv'
  <2>1. job' = [job EXCEPT ![r] = Idle] /\ job[r].pc \in Transactions
    BY <1>7 DEF RegisterCommits, EndTransaction, Transactions
  <2>2. ASSUME NEW q \in Handlers, job'[q].pc \in Transactions
        PROVE  q # r /\ job'[q] = job[q]
                     /\ job[r].operator # job[q].operator
    BY <1>0, <2>1, <2>2, OthersHaveOthers DEF Idle, Transactions
  <2>3. \A i \in Installations :
           \/ device'[i] = device[i]
           \/ device[i] = NoOne /\ device'[i] = job[r].operator
    BY <1>7 DEF RegisterCommits, PlanInv, PlanTypeOK
  <2> QED
    BY <1>1, <1>7, <2>2, <2>3 DEF RegisterCommits
<1>8. ASSUME NEW r \in Handlers, RollBack(r) PROVE RoomInv'
  BY <1>0, <1>1, <1>8 DEF RollBack, EndTransaction, Idle, Transactions
<1>9. ASSUME NEW r \in Handlers, NEW e \in Followed, EditReads(r, e)
      PROVE  RoomInv'
  BY <1>0, <1>1, <1>9 DEF EditReads, Idle, Transactions
<1>10. ASSUME NEW r \in Handlers, EditSaves(r) PROVE RoomInv'
  <2>1. SameEvents
    BY <1>10, EditsKeepEvents
  <2> QED
    BY <1>0, <1>1, <1>10, <2>1 DEF EditSaves, Idle, Transactions
<1>11. ASSUME NEW e \in Followed,
              StartEvent(e) \/ FinishEvent(e) \/ DestroyEvent(e)
       PROVE  RoomInv'
  <2>1. SameEvents
    BY <1>11, HandlersKeepEvents
  <2> QED
    BY <1>1, <1>11, <2>1 DEF StartEvent, FinishEvent, DestroyEvent
\* A month begins without events.
<1>12. CASE NextMonth
  <2>1. ASSUME NEW o PROVE EventsOfMonth(o, month)' = {}
    <3>1. \A e \in Events : event[e] # NoEvent =>
             event[e].month \in Int /\ event[e].month <= month
      BY DEF PlanInv, EventsArePast, PlanTypeOK, EventRow
    <3>2. \A e \in Events : event'[e] # NoEvent => event'[e].month # month'
      BY <1>12, <3>1 DEF NextMonth, PlanInv, PlanTypeOK
    <3> QED
      BY <3>2 DEF EventsOfMonth, EventsSince
  <2>2. ASSUME NEW o, RoomForEvent(o) PROVE RoomForEvent(o)'
    <3>1. /\ Cardinality(EventsOfMonth(o, month)) \in Nat
          /\ Cardinality(EventsOfMonth(o, month)') = 0
      BY <2>1, CountsAreNat, FS_EmptySet
    <3>2. sub[o].plan \in Plans /\ sub' = sub
      BY <1>12, <2>2 DEF NextMonth, RoomForEvent
    <3>3. 0 < EventLimit[sub[o].plan]
      BY <1>0, <2>2, <3>1, <3>2 DEF RoomForEvent
    <3> QED
      BY <3>1, <3>2, <3>3 DEF RoomForEvent
  <2>3. CreationsFit'
    BY <1>12, <2>2 DEF NextMonth, PlanInv, CreationsFit
  <2>4. RegistrationsFit'
    BY <1>12 DEF NextMonth, PlanInv, RegistrationsFit, RoomForDevice, DevicesOf
  <2> QED
    BY <2>3, <2>4
<1>13. CASE UNCHANGED vars
  BY <1>0, <1>1, <1>13 DEF vars
<1> QED
  BY <1>2, <1>3, <1>4, <1>5, <1>6, <1>7, <1>8, <1>9, <1>10, <1>11, <1>12, <1>13
     DEF Next

THEOREM InvCorrect == Spec => []PlanInv
<1>1. PlanInv /\ [Next]_vars => PlanInv'
  BY TypeStep, StoryStep, RoomStep DEF PlanInv, StoryInv, RoomInv
<1> QED
  BY <1>1, InitInv, PTL DEF Spec

-----------------------------------------------------------------------------
(***************************************************************************)
(* The limits and the lifecycle.                                           *)
(***************************************************************************)
LEMMA ElementAdds ==
    ASSUME NEW S, NEW x, IsFiniteSet(S), Cardinality(S) \in Nat
    PROVE  /\ IsFiniteSet(S \cup {x})
           /\ Cardinality(S \cup {x}) <= Cardinality(S) + 1
<1>1. CASE x \in S
  <2>1. S \cup {x} = S
    BY <1>1
  <2>2. Cardinality(S) <= Cardinality(S) + 1
    OBVIOUS
  <2> QED
    BY <2>1, <2>2
<1>2. CASE x \notin S
  BY <1>2, FS_AddElement
<1> QED
  BY <1>1, <1>2

\* Only the commit of a creation makes a row, and of a registration a device.
LEMMA RowsAreCreated ==
    ASSUME PlanInv, [Next]_vars, NEW e \in Events,
           event[e] = NoEvent, event'[e] # NoEvent
    PROVE  \E r \in Handlers : CreateCommits(r)
<1>1. ASSUME NEW r \in Handlers, EditSaves(r) PROVE FALSE
  BY <1>1, EditsKeepEvents DEF SameEvents
<1>2. ASSUME NEW f \in Followed,
             StartEvent(f) \/ FinishEvent(f) \/ DestroyEvent(f)
      PROVE  FALSE
  BY <1>2, HandlersKeepEvents DEF SameEvents
<1> QED
  BY <1>1, <1>2 DEF Next, vars, AssignSubscription, SubscriptionTurns,
     CreateCounts, RegisterReads, RegisterCommits, RollBack, EditReads,
     NextMonth

LEMMA DevicesAreRegistered ==
    ASSUME [Next]_vars, device' # device
    PROVE  \E r \in Handlers : RegisterCommits(r)
  BY DEF Next, vars, AssignSubscription, SubscriptionTurns, CreateCounts,
     CreateCommits, RegisterReads, RollBack, EditReads, EditSaves,
     StartEvent, FinishEvent, DestroyEvent, NextMonth

\* create_event: however requests and changes of plan interleave, and even
\* when the month ends between the count and the insert, an event is added
\* only within the monthly limit of the plan of its operator.
THEOREM EventLimitHolds == Spec => EventsFitThePlan
<1>1. ASSUME PlanInv, [Next]_vars, NEW e \in Events, NEW o \in Operators,
             event[e] = NoEvent, event'[e] # NoEvent, event'[e].operator = o
      PROVE  /\ sub[o].plan # NoPlan
             /\ Cardinality(EventsOfMonth(o, month)')
                  <= EventLimit[sub[o].plan]
  <2>1. PICK r \in Handlers : CreateCommits(r)
    BY <1>1, RowsAreCreated
  <2>2. PICK d \in Events :
           /\ event[d] = NoEvent
           /\ event' = [event EXCEPT ![d] =
                  [operator |-> job[r].operator, month |-> month,
                   status |-> "DRAFT", until |-> 0, public |-> TRUE]]
    BY <2>1 DEF CreateCommits
  <2>3. d = e /\ job[r].operator = o
    BY <1>1, <2>2 DEF PlanInv, PlanTypeOK
  <2>4. RoomForEvent(o)
    BY <1>1, <2>1, <2>3 DEF CreateCommits, PlanInv, CreationsFit
  <2>5. EventsOfMonth(o, month)' \subseteq EventsOfMonth(o, month) \cup {e}
    BY <2>1, <2>2, <2>3
       DEF CreateCommits, EventsOfMonth, EventsSince, PlanInv, PlanTypeOK
  <2>6. /\ IsFiniteSet(EventsOfMonth(o, month))
        /\ Cardinality(EventsOfMonth(o, month)) \in Nat
    BY CountsAreNat
  <2>7. /\ IsFiniteSet(EventsOfMonth(o, month) \cup {e})
        /\ Cardinality(EventsOfMonth(o, month) \cup {e})
             <= Cardinality(EventsOfMonth(o, month)) + 1
    BY <2>6, ElementAdds
  <2>8. /\ Cardinality(EventsOfMonth(o, month)') \in Nat
        /\ Cardinality(EventsOfMonth(o, month)')
             <= Cardinality(EventsOfMonth(o, month) \cup {e})
    BY <2>5, <2>7, FS_Subset, FS_CardinalityType
  <2>9. Cardinality(EventsOfMonth(o, month) \cup {e}) \in Nat
    BY <2>7, FS_CardinalityType
  <2>10. EventLimit[sub[o].plan] \in Nat /\ sub[o].plan # NoPlan
    BY <2>4, PlanAssumption DEF RoomForEvent
  <2> QED
    BY <2>4, <2>6, <2>7, <2>8, <2>9, <2>10 DEF RoomForEvent
<1>2. PlanInv /\ [Next]_vars
        => [\A e \in Events, o \in Operators : EventFits(e, o)]_vars
  BY <1>1 DEF EventFits
<1> QED
  BY <1>2, InvCorrect, PTL DEF Spec, EventsFitThePlan

\* DeviceSerializer.create: a device is added only within the limit of the
\* plan of its operator.
THEOREM DeviceLimitHolds == Spec => DevicesFitThePlan
<1>1. ASSUME PlanInv, [Next]_vars, NEW i \in Installations,
             NEW o \in Operators, device[i] = NoOne, device'[i] = o
      PROVE  /\ sub[o].plan # NoPlan
             /\ Cardinality(DevicesOf(o)') <= DeviceLimit[sub[o].plan]
  <2>1. NoOne \notin Operators
    BY PlanAssumption
  <2>2. PICK r \in Handlers : RegisterCommits(r)
    BY <1>1, <2>1, DevicesAreRegistered
  <2>3. /\ job[r].target = i /\ job[r].operator = o
        /\ device' = [device EXCEPT ![i] = o]
    BY <1>1, <2>1, <2>2 DEF RegisterCommits, PlanInv, PlanTypeOK
  <2>4. RoomForDevice(o)
    BY <1>1, <2>1, <2>2, <2>3 DEF RegisterCommits, PlanInv, RegistrationsFit
  <2>5. DevicesOf(o)' \subseteq DevicesOf(o) \cup {i}
    BY <2>3 DEF DevicesOf, PlanInv, PlanTypeOK
  <2>6. IsFiniteSet(DevicesOf(o)) /\ Cardinality(DevicesOf(o)) \in Nat
    BY CountsAreNat
  <2>7. /\ IsFiniteSet(DevicesOf(o) \cup {i})
        /\ Cardinality(DevicesOf(o) \cup {i}) <= Cardinality(DevicesOf(o)) + 1
    BY <2>6, ElementAdds
  <2>8. /\ Cardinality(DevicesOf(o)') \in Nat
        /\ Cardinality(DevicesOf(o)') <= Cardinality(DevicesOf(o) \cup {i})
        /\ Cardinality(DevicesOf(o) \cup {i}) \in Nat
    BY <2>5, <2>7, FS_Subset, FS_CardinalityType
  <2>9. DeviceLimit[sub[o].plan] \in Nat /\ sub[o].plan # NoPlan
    BY <2>4, PlanAssumption DEF RoomForDevice
  <2> QED
    BY <2>4, <2>6, <2>7, <2>8, <2>9 DEF RoomForDevice
<1>2. PlanInv /\ [Next]_vars
        => [\A i \in Installations, o \in Operators : DeviceFits(i, o)]_vars
  BY <1>1 DEF DeviceFits
<1> QED
  BY <1>2, InvCorrect, PTL DEF Spec, DevicesFitThePlan

\* An installation keeps its operator for ever.
THEOREM InstallationKeepsOperator == Spec => InstallationsStay
<1>1. ASSUME PlanInv, [Next]_vars, NEW i \in Installations,
             device[i] # NoOne
      PROVE  device'[i] = device[i]
  <2>1. CASE device' = device
    BY <2>1
  <2>2. CASE device' # device
    <3>1. PICK r \in Handlers : RegisterCommits(r)
      BY <1>1, <2>2, DevicesAreRegistered
    <3> QED
      BY <1>1, <3>1 DEF RegisterCommits, PlanInv, PlanTypeOK
  <2> QED
    BY <2>1, <2>2
<1>2. PlanInv /\ [Next]_vars
        => [\A i \in Installations :
               device[i] # NoOne => device'[i] = device[i]]_vars
  BY <1>1
<1> QED
  BY <1>2, InvCorrect, PTL DEF Spec, InstallationsStay

\* A row never mixes two moments of its event, although a PATCH saves what it
\* read before other requests moved the event on.
THEOREM StoriesAreWhole == Spec => []EventsKeepTheirStory
<1>1. PlanInv => EventsKeepTheirStory
  BY DEF PlanInv
<1> QED
  BY <1>1, InvCorrect, PTL

\* No sequence of start, finish and destroy takes an event back, postpones
\* its retention, or publishes it again; only a PATCH does.
THEOREM OnlyPatchGoesBack == Spec => OnlyEditsGoBack
<1>1. ASSUME PlanInv, [Next]_vars, NEW e \in Events, event[e] # NoEvent
      PROVE  GoesOn(e) \/ \E r \in Handlers : EditSaves(r)
  <2>1. /\ event[e] \in EventRow
        /\ month \in Nat
        /\ RowIsWhole(event[e])
        /\ Rank(event[e].status) \in Nat
    BY <1>1, PlanAssumption
       DEF PlanInv, PlanTypeOK, EventsKeepTheirStory, EventRow, Statuses, Rank
  <2>2. ASSUME event'[e] = event[e], month' >= month, month' \in Nat
        PROVE  GoesOn(e)
    BY <1>1, <2>1, <2>2 DEF EventIsPublic, EventRow, GoesOn
  <2>3. ASSUME NEW f \in Followed,
               StartEvent(f) \/ FinishEvent(f) \/ DestroyEvent(f)
        PROVE  GoesOn(e)
    <3>1. CASE f # e
      BY <1>1, <2>1, <2>2, <2>3, <3>1
         DEF StartEvent, FinishEvent, DestroyEvent, PlanInv, PlanTypeOK
    <3>2. CASE f = e
      BY <1>1, <2>1, <2>3, <3>2
         DEF StartEvent, FinishEvent, DestroyEvent, PlanInv, PlanTypeOK,
             EventIsPublic, EventRow, Statuses, Rank, RowIsWhole, GoesOn
    <3> QED
      BY <3>1, <3>2
  <2>4. ASSUME NEW r \in Handlers, CreateCommits(r) PROVE GoesOn(e)
    BY <1>1, <2>1, <2>2, <2>4 DEF CreateCommits, PlanInv, PlanTypeOK
  <2>5. CASE NextMonth
    BY <2>1, <2>2, <2>5 DEF NextMonth
  <2>6. CASE UNCHANGED <<event, month>>
    BY <2>1, <2>2, <2>6
  <2> QED
    BY <1>1, <2>3, <2>4, <2>5, <2>6
       DEF Next, vars, AssignSubscription, SubscriptionTurns, CreateCounts,
           RegisterReads, RegisterCommits, RollBack, EditReads
<1>2. PlanInv /\ [Next]_vars
        => [\A e \in Events : event[e] # NoEvent =>
               GoesOn(e) \/ \E r \in Handlers : EditSaves(r)]_vars
  BY <1>1
<1> QED
  BY <1>2, InvCorrect, PTL DEF Spec, OnlyEditsGoBack

\* _video_bytes serves every range of a video of a public event.
THEOREM PublicRangesAreServed == Spec => []RangesAreServed
<1>1. EveryRangeIsServed
  BY RangeServesRequest DEF EveryRangeIsServed, MaxSize, Headers, Absent
<1>2. RangesAreServed
  BY <1>1 DEF RangesAreServed
<1> QED
  BY <1>2, PTL
=============================================================================
