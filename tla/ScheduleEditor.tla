--------------------------- MODULE ScheduleEditor ---------------------------
(***************************************************************************)
(* The Schedule view of routes/automation/Schedule.js: the edit form of    *)
(* the schedule named by the route parameter uuid, loaded from the store's *)
(* schedule list, with the component state formData and isValid, and the   *)
(* add/save/remove actions it dispatches.  Save and Remove both leave the  *)
(* view (history.push('/aut')).  Form data is abstracted as in RuleEditor: *)
(* the uuid, whether the required name is set, and the other fields (when, *)
(* expression, enabled, actions) as one value of Bodies.                   *)
(***************************************************************************)
EXTENDS Naturals, Sequences

CONSTANTS
    Uuids,        \* uuids of schedules
    Undefined,    \* the JavaScript value undefined
    Bodies,       \* abstract values of the fields other than uuid and name
    MaxRequests   \* bound on the number of dispatched actions

ASSUME ScheduleAssumption ==
    /\ Undefined \notin Uuids
    /\ MaxRequests \in Nat

StoredSchedule == [named : BOOLEAN, body : Bodies]
NoSchedule == [none |-> TRUE]

FormValue == [uuid : Uuids \cup {Undefined}, named : BOOLEAN, body : Bodies]

\* A dispatched action: save or add of form data, remove of a uuid.
Request ==
    [kind : {"save"}, data : {fd \in FormValue : fd.uuid \in Uuids}]
    \cup [kind : {"add"}, data : {fd \in FormValue : fd.uuid = Undefined}]
    \cup [kind : {"remove"}, uuid : Uuids \cup {Undefined}]

VARIABLES
    mounted,     \* whether the view is mounted
    route,       \* match.params.uuid, Undefined on the new-schedule route
    schedules,   \* the store's schedule list: the stored schedule per uuid
    formData,    \* this.state.formData
    isValid,     \* this.state.isValid
    requests,    \* the actions dispatched so far, in order
    visitSent    \* the number of them dispatched since the view mounted

vars == <<mounted, route, schedules, formData, isValid, requests, visitSent>>

(***************************************************************************)
(* The schedule of the route as a plain object, actions defaulting to [].  *)
(* The constructor and componentWillReceiveProps repeat this code.         *)
(***************************************************************************)
ScheduleOf(u, list) ==
    IF u \in Uuids /\ list[u] # NoSchedule
      THEN [uuid |-> u, named |-> list[u].named, body |-> list[u].body]
      ELSE Undefined

\* The form passes the schema's validation: name is required.
Valid(fd) == fd # Undefined /\ fd.named

UuidOf(fd) == IF fd = Undefined THEN Undefined ELSE fd.uuid

Init ==
    /\ mounted = FALSE
    /\ route = Undefined
    /\ schedules \in [Uuids -> StoredSchedule \cup {NoSchedule}]
    /\ formData = Undefined
    /\ isValid = TRUE
    /\ requests = <<>>
    /\ visitSent = 0

\* constructor: load the schedule of route u, valid until the first edit.
Mount(u) ==
    /\ ~mounted
    /\ mounted' = TRUE
    /\ route' = u
    /\ formData' = ScheduleOf(u, schedules)
    /\ isValid' = TRUE
    /\ visitSent' = 0
    /\ UNCHANGED <<schedules, requests>>

\* Mutant: the reload test forgets the route parameter.
ReloadNeededListOnly(u, newList) == newList

\* The test of componentWillReceiveProps: another uuid or another list.
ReloadNeeded(u, newList) == u # route \/ newList

\* componentWillReceiveProps reloads formData only; isValid is kept.
ComponentWillReceiveProps(u, list, newList) ==
    IF ReloadNeeded(u, newList)
      THEN formData' = ScheduleOf(u, list)
      ELSE UNCHANGED formData

\* While mounted, the route changes to the schedule u.
Navigate(u) ==
    /\ mounted
    /\ u # route
    /\ route' = u
    /\ ComponentWillReceiveProps(u, schedules, FALSE)
    /\ UNCHANGED <<mounted, schedules, isValid, requests, visitSent>>

\* The store receives a new schedule list, passed to a mounted view.
SchedulesUpdate(list) ==
    /\ schedules' = list
    /\ IF mounted THEN ComponentWillReceiveProps(route, list, TRUE)
                  ELSE UNCHANGED formData
    /\ UNCHANGED <<mounted, route, isValid, requests, visitSent>>

\* onChange: the form reports the edited data and its validation errors.
Edit(named, body) ==
    /\ mounted
    /\ LET fd == [uuid |-> UuidOf(formData), named |-> named, body |-> body]
       IN  /\ formData' = fd
           /\ isValid' = Valid(fd)
    /\ UNCHANGED <<mounted, route, schedules, requests, visitSent>>

(***************************************************************************)
(* onRemove, confirmed: dispatch remove of the route's uuid and go back.   *)
(* The button is shown, and enabled, on every route.  A declined confirm   *)
(* changes nothing.                                                        *)
(***************************************************************************)
Remove ==
    /\ mounted
    /\ Len(requests) < MaxRequests
    /\ requests' = Append(requests, [kind |-> "remove", uuid |-> route])
    /\ visitSent' = visitSent + 1
    /\ mounted' = FALSE
    /\ UNCHANGED <<route, schedules, formData, isValid>>

\* Mutant: the two branches of onSubmit swapped.
SubmitKindSwapped(fd) == IF fd.uuid # Undefined THEN "add" ELSE "save"

\* onSubmit dispatches save when the form data has a uuid, add otherwise.
SubmitKind(fd) == IF fd.uuid # Undefined THEN "save" ELSE "add"

\* Mutant: onSubmit forgets history.push and the view stays.
LeaveAfterSubmitMissing == UNCHANGED mounted

\* history.push('/aut') at the end of onSubmit: the view unmounts.
LeaveAfterSubmit == mounted' = FALSE

(***************************************************************************)
(* onSubmit, reached when the form validates: dispatch save or add, then   *)
(* leave the view.                                                         *)
(***************************************************************************)
Submit ==
    /\ mounted
    /\ Valid(formData)
    /\ Len(requests) < MaxRequests
    /\ requests' = Append(requests, [kind |-> SubmitKind(formData),
                                     data |-> formData])
    /\ visitSent' = visitSent + 1
    /\ LeaveAfterSubmit
    /\ UNCHANGED <<route, schedules, formData, isValid>>

\* onBackClick: leave the view.
Back ==
    /\ mounted
    /\ mounted' = FALSE
    /\ UNCHANGED <<route, schedules, formData, isValid, requests, visitSent>>

Next ==
    \/ \E u \in Uuids \cup {Undefined} : Mount(u) \/ Navigate(u)
    \/ \E list \in [Uuids -> StoredSchedule \cup {NoSchedule}] :
          SchedulesUpdate(list)
    \/ \E named \in BOOLEAN, body \in Bodies : Edit(named, body)
    \/ Remove
    \/ Submit
    \/ Back

Spec == Init /\ [][Next]_vars

-----------------------------------------------------------------------------
(***************************************************************************)
(* The variables have their types; every save carries a stored uuid and   *)
(* every add none.                                                         *)
(***************************************************************************)
TypeOK ==
    /\ mounted \in BOOLEAN
    /\ route \in Uuids \cup {Undefined}
    /\ schedules \in [Uuids -> StoredSchedule \cup {NoSchedule}]
    /\ formData \in FormValue \cup {Undefined}
    /\ isValid \in BOOLEAN
    /\ requests \in Seq(Request)
    /\ Len(requests) <= MaxRequests
    /\ visitSent \in 0..MaxRequests

(***************************************************************************)
(* One visit of the view dispatches at most one action: Save and Remove    *)
(* both leave the view, so a visit can never save a schedule after         *)
(* removing it, nor add the same new schedule twice.                       *)
(***************************************************************************)
OneActionPerVisit == visitSent <= 1

(***************************************************************************)
(* The form of a mounted view only holds the schedule its route names.     *)
(***************************************************************************)
FormBelongsToRoute ==
    mounted /\ UuidOf(formData) # Undefined => UuidOf(formData) = route

(***************************************************************************)
(* Remove only removes a stored schedule: it names a uuid.  The Remove     *)
(* button is also rendered on the "New schedule" page (line 139), where    *)
(* the route has no uuid and remove(undefined) is dispatched.              *)
(***************************************************************************)
RemoveNamesSchedule ==
    \A i \in 1..Len(requests) :
        requests[i].kind = "remove" => requests[i].uuid \in Uuids

=============================================================================
