----------------------------- MODULE RuleEditor -----------------------------
(***************************************************************************)
(* The Automation view of routes/automation/Rule.js: the edit form of the  *)
(* rule named by the route parameter uuid, loaded from the store's rule    *)
(* list, with the component state formData, isValid and isModified, and    *)
(* the add/save actions it dispatches.  The store's rule list changes      *)
(* whenever the server pushes a new list; the form data of a rule is       *)
(* abstracted to its uuid, whether it has a name (the one field the schema *)
(* requires) and the rest of its fields as one value of Bodies.            *)
(***************************************************************************)
EXTENDS Naturals, Sequences

CONSTANTS
    Uuids,        \* uuids of rules
    Undefined,    \* the JavaScript value undefined
    Bodies,       \* abstract values of the fields other than uuid and name
    MaxRequests   \* bound on the number of dispatched add/save actions

\* A rule as the store holds it, and the absence of one.
StoredRule == [named : BOOLEAN, body : Bodies]
NoRule == [none |-> TRUE]

\* The form data of the view: undefined or a rule object.
FormValue == [uuid : Uuids \cup {Undefined}, named : BOOLEAN, body : Bodies]

\* undefined is neither a uuid nor an object.
ASSUME EditorAssumption ==
    /\ Undefined \notin Uuids
    /\ Undefined \notin FormValue
    /\ MaxRequests \in Nat

\* A dispatched action: save(formData) of a stored rule, add(formData) of
\* a new one.
Request ==
    [kind : {"save"}, data : {fd \in FormValue : fd.uuid \in Uuids}]
    \cup [kind : {"add"}, data : {fd \in FormValue : fd.uuid = Undefined}]

VARIABLES
    mounted,     \* whether the view is mounted (its route is shown)
    route,       \* match.params.uuid, Undefined on the new-rule route
    rules,       \* the store's rule list: the stored rule of each uuid
    formData,    \* this.state.formData
    isValid,     \* this.state.isValid
    isModified,  \* this.state.isModified
    requests     \* the add/save actions dispatched so far, in order

vars == <<mounted, route, rules, formData, isValid, isModified, requests>>

(***************************************************************************)
(* loadFromProps: the rule of the route, as a plain object; a rule without *)
(* actions gets an empty list, which the abstraction keeps in the body.    *)
(***************************************************************************)
LoadFromProps(u, list) ==
    IF u \in Uuids /\ list[u] # NoRule
      THEN [uuid |-> u, named |-> list[u].named, body |-> list[u].body]
      ELSE Undefined

\* The form passes the schema's validation: name is required.
Valid(fd) == fd # Undefined /\ fd.named

\* Mutant: an edit that loses the uuid of the form data.
UuidOfLost(fd) == Undefined

\* The uuid the form data carries, undefined for a new rule.
UuidOf(fd) == IF fd = Undefined THEN Undefined ELSE fd.uuid

Init ==
    /\ mounted = FALSE
    /\ route = Undefined
    /\ rules \in [Uuids -> StoredRule \cup {NoRule}]
    /\ formData = Undefined
    /\ isValid = TRUE
    /\ isModified = FALSE
    /\ requests = <<>>

(***************************************************************************)
(* The router mounts the view for route u: the constructor loads the rule  *)
(* and starts valid and unmodified.                                        *)
(***************************************************************************)
Mount(u) ==
    /\ ~mounted
    /\ mounted' = TRUE
    /\ route' = u
    /\ formData' = LoadFromProps(u, rules)
    /\ isValid' = TRUE
    /\ isModified' = FALSE
    /\ UNCHANGED <<rules, requests>>

\* Mutant: the reload test forgets the route parameter.
ReloadNeededRulesOnly(u, newList) == newList

\* Mutant: the reload test forgets the rule list.
ReloadNeededRouteOnly(u, newList) == u # route

(***************************************************************************)
(* The test of componentWillReceiveProps (this.props is always set): the   *)
(* route's uuid changed, or the rules prop is another list object, which   *)
(* it is whenever the store received a new list.                           *)
(***************************************************************************)
ReloadNeeded(u, newList) == u # route \/ newList

\* Mutant: a reload that forgets isModified: false (line 93).
ComponentWillReceivePropsKeepsModified(u, list, newList) ==
    IF ReloadNeeded(u, newList)
      THEN /\ formData' = LoadFromProps(u, list)
           /\ UNCHANGED isModified
      ELSE UNCHANGED <<formData, isModified>>

(***************************************************************************)
(* componentWillReceiveProps with route u and rule list list: on a reload  *)
(* formData is reloaded and isModified cleared; isValid is kept.           *)
(***************************************************************************)
ComponentWillReceiveProps(u, list, newList) ==
    IF ReloadNeeded(u, newList)
      THEN /\ formData' = LoadFromProps(u, list)
           /\ isModified' = FALSE
      ELSE UNCHANGED <<formData, isModified>>

(***************************************************************************)
(* While mounted, the route changes to the rule u.                         *)
(***************************************************************************)
Navigate(u) ==
    /\ mounted
    /\ u # route
    /\ route' = u
    /\ ComponentWillReceiveProps(u, rules, FALSE)
    /\ UNCHANGED <<mounted, rules, isValid, requests>>

(***************************************************************************)
(* The store receives a new rule list; a mounted view receives it as its   *)
(* rules prop.                                                             *)
(***************************************************************************)
RulesUpdate(list) ==
    /\ rules' = list
    /\ IF mounted THEN ComponentWillReceiveProps(route, list, TRUE)
                  ELSE UNCHANGED <<formData, isModified>>
    /\ UNCHANGED <<mounted, route, isValid, requests>>

(***************************************************************************)
(* onChange: the user edits the form; the form reports the new data and    *)
(* its validation errors.  The uuid field is not in the schema and is      *)
(* carried over unchanged.                                                 *)
(***************************************************************************)
Edit(named, body) ==
    /\ mounted
    /\ LET fd == [uuid |-> UuidOf(formData), named |-> named, body |-> body]
       IN  /\ formData' = fd
           /\ isValid' = Valid(fd)
    /\ isModified' = TRUE
    /\ UNCHANGED <<mounted, route, rules, requests>>

\* Mutant: the two branches of onSubmit swapped.
SubmitKindSwapped(fd) == IF fd.uuid # Undefined THEN "add" ELSE "save"

\* onSubmit dispatches save when the form data has a uuid, add otherwise.
SubmitKind(fd) == IF fd.uuid # Undefined THEN "save" ELSE "add"

\* The Save button's enabled state (props.disabled is not set by the route).
SaveEnabled == isValid

(***************************************************************************)
(* onSubmit: Save clicks the hidden submit button (or Enter submits the    *)
(* form); the form validates its data and calls onSubmit only without      *)
(* errors, which dispatches save for a rule with a uuid and add otherwise. *)
(***************************************************************************)
Submit ==
    /\ mounted
    /\ Valid(formData)
    /\ Len(requests) < MaxRequests
    /\ requests' = Append(requests, [kind |-> SubmitKind(formData),
                                     data |-> formData])
    /\ UNCHANGED <<mounted, route, rules, formData, isValid, isModified>>

(***************************************************************************)
(* onBackClick: history.push('/aut') leaves the view, which unmounts.      *)
(***************************************************************************)
Back ==
    /\ mounted
    /\ mounted' = FALSE
    /\ UNCHANGED <<route, rules, formData, isValid, isModified, requests>>

Next ==
    \/ \E u \in Uuids \cup {Undefined} : Mount(u) \/ Navigate(u)
    \/ \E list \in [Uuids -> StoredRule \cup {NoRule}] : RulesUpdate(list)
    \/ \E named \in BOOLEAN, body \in Bodies : Edit(named, body)
    \/ Submit
    \/ Back

Spec == Init /\ [][Next]_vars

-----------------------------------------------------------------------------
(***************************************************************************)
(* The variables have their types; in particular every dispatched save     *)
(* carries the uuid of a stored rule and every add carries none.           *)
(***************************************************************************)
TypeOK ==
    /\ mounted \in BOOLEAN
    /\ route \in Uuids \cup {Undefined}
    /\ rules \in [Uuids -> StoredRule \cup {NoRule}]
    /\ formData \in FormValue \cup {Undefined}
    /\ isValid \in BOOLEAN
    /\ isModified \in BOOLEAN
    /\ requests \in Seq(Request)
    /\ Len(requests) <= MaxRequests

(***************************************************************************)
(* The form of a mounted view only ever holds a stored rule of the rule    *)
(* its route names, so Save can only save that rule: navigation between    *)
(* rules must reload the form even when the rule list did not change.      *)
(***************************************************************************)
FormBelongsToRoute ==
    mounted /\ UuidOf(formData) # Undefined => UuidOf(formData) = route

(***************************************************************************)
(* While the view shows Save as unmodified, the form holds exactly the     *)
(* stored rule of the route in the current rule list: every edit marks the *)
(* form modified, and every new list or route reloads it.                  *)
(***************************************************************************)
UnmodifiedIsStored ==
    mounted /\ ~isModified => formData = LoadFromProps(route, rules)

(***************************************************************************)
(* The Save button is enabled exactly when the form data has no            *)
(* validation errors (isValid is errors.length === 0, line 101).  The      *)
(* constructor starts isValid at true and a reload keeps it, so it can     *)
(* describe other data than the form shows.                                *)
(***************************************************************************)
SaveEnabledIffValid ==
    mounted => (SaveEnabled <=> Valid(formData))

(***************************************************************************)
(* While the rule of the route is in the store's list, Save on its page    *)
(* saves it: every list change reloads the form (line 89) and an edit      *)
(* keeps the uuid of the data it replaces, so the form carries the route's *)
(* uuid whenever the rule exists.  onSubmit can dispatch add on an edit    *)
(* page only after the rule has left the list.                             *)
(***************************************************************************)
SaveWhileStored ==
    [][/\ Len(requests') > Len(requests)
       /\ route \in Uuids /\ rules[route] # NoRule
       => requests'[Len(requests')].kind = "save"]_vars

(***************************************************************************)
(* Save on the "Edit rule" page (a route with a uuid, line 145) saves that *)
(* rule and never adds a new one.  onSubmit chooses by formData.uuid, not  *)
(* by the route (line 110): when another client deletes the rule, the     *)
(* pushed list reloads the form to undefined, an edit builds form data     *)
(* without a uuid, and Save dispatches add, re-creating the rule.          *)
(***************************************************************************)
AddOnlyForNewRule ==
    [][Len(requests') > Len(requests) /\ route # Undefined =>
         requests'[Len(requests')].kind = "save"]_vars

-----------------------------------------------------------------------------
(***************************************************************************)
(* The refinement mapping to the abstract rule form: while the form is     *)
(* modified the draft is the form data, while it is unmodified there is no *)
(* draft and the abstract form shows the stored rule of the route.         *)
(***************************************************************************)
Form == INSTANCE RuleForm
            WITH draft <- IF isModified THEN formData ELSE [clean |-> TRUE]

(***************************************************************************)
(* The view implements the abstract rule form: Save always sends the rule *)
(* the form shows, which is the stored rule of the route in the current    *)
(* list unless the user edited it since the last reload, and isValid and   *)
(* the copy of the stored rule in formData are only bookkeeping.  It fails *)
(* if a reload misses a route change or a pushed list, or an edit does not *)
(* mark the form modified.                                                 *)
(***************************************************************************)
ImplementsRuleForm == Form!Spec

=============================================================================
