------------------------ MODULE ScheduleEditorProofs ------------------------
(***************************************************************************)
(* Proofs about ScheduleEditor for every set of uuids, every set of bodies *)
(* and every bound on the requests: the type invariant, one dispatched     *)
(* action per visit, and the form of a mounted view holding the routed     *)
(* schedule.                                                               *)
(***************************************************************************)
EXTENDS ScheduleEditor, TLAPS

(***************************************************************************)
(* The schedule lookup of the constructor and of componentWillReceiveProps *)
(* yields undefined or a schedule object of the uuid it looked up.         *)
(***************************************************************************)
LEMMA ScheduleOfType ==
    ASSUME NEW u \in Uuids \cup {Undefined},
           NEW list \in [Uuids -> StoredSchedule \cup {NoSchedule}]
    PROVE  /\ ScheduleOf(u, list) \in FormValue \cup {Undefined}
           /\ UuidOf(ScheduleOf(u, list)) \in {u, Undefined}
BY DEF ScheduleOf, FormValue, StoredSchedule, UuidOf

(***************************************************************************)
(* An edit keeps the uuid the form data carries.                           *)
(***************************************************************************)
LEMMA EditKeepsUuid ==
    ASSUME NEW fd \in FormValue \cup {Undefined}, NEW named \in BOOLEAN,
           NEW body \in Bodies
    PROVE  LET new == [uuid |-> UuidOf(fd), named |-> named, body |-> body]
           IN  /\ new \in FormValue
               /\ UuidOf(new) \in {UuidOf(fd), Undefined}
BY DEF UuidOf, FormValue

(***************************************************************************)
(* The save or add that onSubmit dispatches for valid form data is well    *)
(* formed.                                                                 *)
(***************************************************************************)
LEMMA SubmitRequest ==
    ASSUME NEW fd \in FormValue \cup {Undefined}, Valid(fd)
    PROVE  [kind |-> SubmitKind(fd), data |-> fd] \in Request
BY ScheduleAssumption DEF Valid, SubmitKind, Request, FormValue

(***************************************************************************)
(* The inductive invariant.  OneActionPerVisit is not inductive alone: it  *)
(* needs that a mounted view has dispatched nothing yet, since both        *)
(* actions that dispatch also unmount.  The type of visitSent rests on the *)
(* same fact.                                                              *)
(***************************************************************************)
NothingSentWhileMounted == mounted => visitSent = 0

IInv == /\ TypeOK
        /\ NothingSentWhileMounted
        /\ OneActionPerVisit
        /\ FormBelongsToRoute

LEMMA InvInit == Init => IInv
<1> SUFFICES ASSUME Init PROVE IInv
  OBVIOUS
<1>1. requests \in Seq(Request) /\ Len(requests) <= MaxRequests
  BY ScheduleAssumption DEF Init
<1>2. visitSent \in 0..MaxRequests
  BY ScheduleAssumption DEF Init
<1>3. TypeOK
  BY <1>1, <1>2 DEF Init, TypeOK
<1>4. QED
  BY <1>3
     DEF Init, IInv, NothingSentWhileMounted, OneActionPerVisit,
         FormBelongsToRoute

\* The two actions that dispatch: one more request, sent from a fresh visit.
LEMMA DispatchStep ==
    ASSUME IInv, NEW req \in Request, mounted, Len(requests) < MaxRequests,
           requests' = Append(requests, req), visitSent' = visitSent + 1,
           mounted' = FALSE
    PROVE  /\ requests' \in Seq(Request) /\ Len(requests') <= MaxRequests
           /\ visitSent' \in 0..MaxRequests
           /\ NothingSentWhileMounted' /\ OneActionPerVisit'
           /\ FormBelongsToRoute'
<1>1. visitSent = 0
  BY DEF IInv, NothingSentWhileMounted
<1>2. requests' \in Seq(Request) /\ Len(requests') <= MaxRequests
  BY ScheduleAssumption DEF IInv, TypeOK
<1>3. visitSent' \in 0..MaxRequests
  BY <1>1, ScheduleAssumption DEF IInv, TypeOK
<1>4. QED
  BY <1>1, <1>2, <1>3
     DEF NothingSentWhileMounted, OneActionPerVisit, FormBelongsToRoute

LEMMA InvStep == IInv /\ [Next]_vars => IInv'
<1> SUFFICES ASSUME IInv, [Next]_vars PROVE IInv'
  OBVIOUS
<1>1. ASSUME NEW u \in Uuids \cup {Undefined}, Mount(u) PROVE IInv'
  BY <1>1, ScheduleOfType, ScheduleAssumption
     DEF Mount, IInv, TypeOK, NothingSentWhileMounted, OneActionPerVisit,
         FormBelongsToRoute
<1>2. ASSUME NEW u \in Uuids \cup {Undefined}, Navigate(u) PROVE IInv'
  <2>1. formData' = ScheduleOf(u, schedules)
    BY <1>2 DEF Navigate, ComponentWillReceiveProps, ReloadNeeded
  <2>2. QED
    BY <1>2, <2>1, ScheduleOfType
       DEF Navigate, IInv, TypeOK, NothingSentWhileMounted,
           OneActionPerVisit, FormBelongsToRoute
<1>3. ASSUME NEW list \in [Uuids -> StoredSchedule \cup {NoSchedule}],
             SchedulesUpdate(list)
      PROVE  IInv'
  <2>1. formData' \in FormValue \cup {Undefined}
        /\ (mounted => UuidOf(formData') \in {route, Undefined})
    <3>1. CASE mounted
      <4>1. formData' = ScheduleOf(route, list)
        BY <1>3, <3>1
           DEF SchedulesUpdate, ComponentWillReceiveProps, ReloadNeeded
      <4>2. QED
        BY <4>1, ScheduleOfType DEF IInv, TypeOK
    <3>2. CASE ~mounted
      BY <1>3, <3>2 DEF SchedulesUpdate, IInv, TypeOK
    <3>3. QED
      BY <3>1, <3>2
  <2>2. QED
    BY <1>3, <2>1
       DEF SchedulesUpdate, IInv, TypeOK, NothingSentWhileMounted,
           OneActionPerVisit, FormBelongsToRoute
<1>4. ASSUME NEW named \in BOOLEAN, NEW body \in Bodies, Edit(named, body)
      PROVE  IInv'
  <2>1. formData' \in FormValue
        /\ UuidOf(formData') \in {UuidOf(formData), Undefined}
    BY <1>4, EditKeepsUuid DEF Edit, IInv, TypeOK
  <2>2. QED
    BY <1>4, <2>1
       DEF Edit, Valid, IInv, TypeOK, NothingSentWhileMounted,
           OneActionPerVisit, FormBelongsToRoute
<1>5. ASSUME Remove PROVE IInv'
  <2>1. [kind |-> "remove", uuid |-> route] \in Request
    BY DEF IInv, TypeOK, Request
  <2>2. QED
    BY <1>5, <2>1, DispatchStep DEF Remove, IInv, TypeOK
<1>6. ASSUME Submit PROVE IInv'
  <2>1. [kind |-> SubmitKind(formData), data |-> formData] \in Request
    BY <1>6, SubmitRequest DEF Submit, IInv, TypeOK
  <2>2. QED
    BY <1>6, <2>1, DispatchStep DEF Submit, LeaveAfterSubmit, IInv, TypeOK
<1>7. ASSUME Back PROVE IInv'
  BY <1>7
     DEF Back, IInv, TypeOK, NothingSentWhileMounted, OneActionPerVisit,
         FormBelongsToRoute
<1>8. CASE UNCHANGED vars
  BY <1>8
     DEF vars, IInv, TypeOK, NothingSentWhileMounted, OneActionPerVisit,
         FormBelongsToRoute
<1>9. QED
  BY <1>1, <1>2, <1>3, <1>4, <1>5, <1>6, <1>7, <1>8 DEF Next

(***************************************************************************)
(* The type invariant of the schedule editor: every save names a schedule *)
(* uuid, every add none, and the count of a visit's actions stays within   *)
(* the bound.                                                              *)
(***************************************************************************)
THEOREM TypeCorrect == Spec => []TypeOK
BY InvInit, InvStep, PTL DEF Spec, IInv

(***************************************************************************)
(* A visit of the schedule view dispatches at most one action, because     *)
(* onSubmit and onRemove both leave the view (history.push('/aut')).       *)
(***************************************************************************)
THEOREM OneAction == Spec => []OneActionPerVisit
BY InvInit, InvStep, PTL DEF Spec, IInv

(***************************************************************************)
(* The form of a mounted schedule view always holds a schedule of its     *)
(* route.                                                                  *)
(***************************************************************************)
THEOREM FormOfRoute == Spec => []FormBelongsToRoute
BY InvInit, InvStep, PTL DEF Spec, IInv
=============================================================================
