-------------------------- MODULE RuleEditorProofs --------------------------
(***************************************************************************)
(* Proofs about RuleEditor for every set of uuids, every set of bodies and *)
(* every bound on the requests: the type invariant, and that the form of a *)
(* mounted view holds the routed rule and, while unmodified, exactly the   *)
(* stored rule of the current list.                                        *)
(***************************************************************************)
EXTENDS RuleEditor, TLAPS

(***************************************************************************)
(* loadFromProps yields undefined or a rule object of the uuid it looked   *)
(* up.                                                                     *)
(***************************************************************************)
LEMMA LoadType ==
    ASSUME NEW u \in Uuids \cup {Undefined},
           NEW list \in [Uuids -> StoredRule \cup {NoRule}]
    PROVE  /\ LoadFromProps(u, list) \in FormValue \cup {Undefined}
           /\ UuidOf(LoadFromProps(u, list)) \in {u, Undefined}
BY DEF LoadFromProps, FormValue, StoredRule, UuidOf

(***************************************************************************)
(* An edit keeps the uuid the form data carries.                           *)
(***************************************************************************)
LEMMA EditKeepsUuid ==
    ASSUME NEW fd \in FormValue \cup {Undefined}, NEW named \in BOOLEAN,
           NEW body \in Bodies
    PROVE  LET new == [uuid |-> UuidOf(fd), named |-> named, body |-> body]
           IN  /\ new \in FormValue
               /\ UuidOf(new) \in {UuidOf(fd), Undefined}
BY DEF UuidOf, FormValue

(***************************************************************************)
(* The request onSubmit dispatches for valid form data is well formed:    *)
(* save carries a uuid, add none.                                          *)
(***************************************************************************)
LEMMA SubmitRequest ==
    ASSUME NEW fd \in FormValue \cup {Undefined}, Valid(fd)
    PROVE  [kind |-> SubmitKind(fd), data |-> fd] \in Request
BY EditorAssumption DEF Valid, SubmitKind, Request, FormValue

LEMMA TypeInit == Init => TypeOK
<1> SUFFICES ASSUME Init PROVE TypeOK
  OBVIOUS
<1>1. requests \in Seq(Request) /\ Len(requests) <= MaxRequests
  BY EditorAssumption DEF Init
<1>2. QED
  BY <1>1 DEF Init, TypeOK

LEMMA TypeStep == TypeOK /\ [Next]_vars => TypeOK'
<1> SUFFICES ASSUME TypeOK, [Next]_vars PROVE TypeOK'
  OBVIOUS
<1>1. ASSUME NEW u \in Uuids \cup {Undefined}, Mount(u) PROVE TypeOK'
  BY <1>1, LoadType DEF Mount, TypeOK
<1>2. ASSUME NEW u \in Uuids \cup {Undefined}, Navigate(u) PROVE TypeOK'
  BY <1>2, LoadType DEF Navigate, ComponentWillReceiveProps, TypeOK
<1>3. ASSUME NEW list \in [Uuids -> StoredRule \cup {NoRule}], RulesUpdate(list)
      PROVE  TypeOK'
  BY <1>3, LoadType DEF RulesUpdate, ComponentWillReceiveProps, TypeOK
<1>4. ASSUME NEW named \in BOOLEAN, NEW body \in Bodies, Edit(named, body)
      PROVE  TypeOK'
  <2>1. formData' \in FormValue
    BY <1>4, EditKeepsUuid DEF Edit, TypeOK
  <2>2. QED
    BY <1>4, <2>1 DEF Edit, TypeOK, Valid
<1>5. ASSUME Submit PROVE TypeOK'
  <2>1. [kind |-> SubmitKind(formData), data |-> formData] \in Request
    BY <1>5, SubmitRequest DEF Submit, TypeOK
  <2>2. QED
    BY <1>5, <2>1, EditorAssumption DEF Submit, TypeOK
<1>6. ASSUME Back PROVE TypeOK'
  BY <1>6 DEF Back, TypeOK
<1>7. CASE UNCHANGED vars
  BY <1>7 DEF vars, TypeOK
<1>8. QED
  BY <1>1, <1>2, <1>3, <1>4, <1>5, <1>6, <1>7 DEF Next

(***************************************************************************)
(* The type invariant of the rule editor: in particular every save the    *)
(* view dispatches names a rule uuid and every add none.                   *)
(***************************************************************************)
THEOREM TypeCorrect == Spec => []TypeOK
BY TypeInit, TypeStep, PTL DEF Spec

(***************************************************************************)
(* The inductive invariant: the types, the form of the routed rule, and   *)
(* an unmodified form equal to the stored rule.  Neither property is      *)
(* inductive alone, since each reload needs the types of the rule list.   *)
(***************************************************************************)
IInv == TypeOK /\ FormBelongsToRoute /\ UnmodifiedIsStored

LEMMA InvInit == Init => IInv
BY TypeInit DEF Init, IInv, FormBelongsToRoute, UnmodifiedIsStored

LEMMA InvStep == IInv /\ [Next]_vars => IInv'
<1> SUFFICES ASSUME IInv, [Next]_vars
             PROVE  FormBelongsToRoute' /\ UnmodifiedIsStored'
  BY TypeStep DEF IInv
<1> USE DEF IInv
<1>1. ASSUME NEW u \in Uuids \cup {Undefined}, Mount(u)
      PROVE  FormBelongsToRoute' /\ UnmodifiedIsStored'
  BY <1>1, LoadType
     DEF Mount, TypeOK, FormBelongsToRoute, UnmodifiedIsStored
<1>2. ASSUME NEW u \in Uuids \cup {Undefined}, Navigate(u)
      PROVE  FormBelongsToRoute' /\ UnmodifiedIsStored'
  <2>1. formData' = LoadFromProps(u, rules) /\ isModified' = FALSE
    BY <1>2 DEF Navigate, ComponentWillReceiveProps, ReloadNeeded
  <2>2. QED
    BY <1>2, <2>1, LoadType
       DEF Navigate, TypeOK, FormBelongsToRoute, UnmodifiedIsStored
<1>3. ASSUME NEW list \in [Uuids -> StoredRule \cup {NoRule}], RulesUpdate(list)
      PROVE  FormBelongsToRoute' /\ UnmodifiedIsStored'
  <2>1. CASE mounted
    <3>1. formData' = LoadFromProps(route, list) /\ isModified' = FALSE
      BY <1>3, <2>1 DEF RulesUpdate, ComponentWillReceiveProps, ReloadNeeded
    <3>2. QED
      BY <1>3, <3>1, LoadType
         DEF RulesUpdate, TypeOK, FormBelongsToRoute, UnmodifiedIsStored
  <2>2. CASE ~mounted
    BY <1>3, <2>2 DEF RulesUpdate, FormBelongsToRoute, UnmodifiedIsStored
  <2>3. QED
    BY <2>1, <2>2
<1>4. ASSUME NEW named \in BOOLEAN, NEW body \in Bodies, Edit(named, body)
      PROVE  FormBelongsToRoute' /\ UnmodifiedIsStored'
  BY <1>4, EditKeepsUuid
     DEF Edit, TypeOK, FormBelongsToRoute, UnmodifiedIsStored
<1>5. ASSUME Submit PROVE FormBelongsToRoute' /\ UnmodifiedIsStored'
  BY <1>5 DEF Submit, FormBelongsToRoute, UnmodifiedIsStored
<1>6. ASSUME Back PROVE FormBelongsToRoute' /\ UnmodifiedIsStored'
  BY <1>6 DEF Back, FormBelongsToRoute, UnmodifiedIsStored
<1>7. CASE UNCHANGED vars
  BY <1>7 DEF vars, FormBelongsToRoute, UnmodifiedIsStored
<1>8. QED
  BY <1>1, <1>2, <1>3, <1>4, <1>5, <1>6, <1>7 DEF Next

(***************************************************************************)
(* The form of a mounted view always holds a rule of its route: a route   *)
(* change reloads the form even when the rule list is the same object.    *)
(***************************************************************************)
THEOREM FormOfRoute == Spec => []FormBelongsToRoute
BY InvInit, InvStep, PTL DEF Spec, IInv

(***************************************************************************)
(* While Save shows the form unmodified, the form is the stored rule of   *)
(* the route in the current list: every pushed list reloads it.            *)
(***************************************************************************)
THEOREM UnmodifiedStored == Spec => []UnmodifiedIsStored
BY InvInit, InvStep, PTL DEF Spec, IInv
-----------------------------------------------------------------------------
(***************************************************************************)
(* SaveWhileStored.  Its strengthening: while the routed rule is in the    *)
(* list, a mounted form carries the route's uuid.  Each reload loads that  *)
(* rule, an edit keeps the uuid, and the list cannot change without a      *)
(* reload of a mounted view.                                               *)
(***************************************************************************)
StoredCarriesUuid ==
    mounted /\ route \in Uuids /\ rules[route] # NoRule =>
        UuidOf(formData) = route

SInv == TypeOK /\ StoredCarriesUuid

\* loadFromProps of a stored rule carries its uuid.
LEMMA LoadStoredUuid ==
    ASSUME NEW u \in Uuids, NEW list \in [Uuids -> StoredRule \cup {NoRule}],
           list[u] # NoRule
    PROVE  UuidOf(LoadFromProps(u, list)) = u
<1>1. LoadFromProps(u, list) \in FormValue
  BY DEF LoadFromProps, FormValue, StoredRule
<1>2. LoadFromProps(u, list) # Undefined
  BY <1>1, EditorAssumption
<1>3. QED
  BY <1>2 DEF LoadFromProps, UuidOf

LEMMA SInvInit == Init => SInv
BY TypeInit DEF Init, SInv, StoredCarriesUuid

LEMMA SInvStep == SInv /\ [Next]_vars => SInv'
<1> SUFFICES ASSUME SInv, [Next]_vars PROVE StoredCarriesUuid'
  BY TypeStep DEF SInv
<1>1. ASSUME NEW u \in Uuids \cup {Undefined}, Mount(u)
      PROVE  StoredCarriesUuid'
  BY <1>1, LoadStoredUuid DEF Mount, StoredCarriesUuid, SInv, TypeOK
<1>2. ASSUME NEW u \in Uuids \cup {Undefined}, Navigate(u)
      PROVE  StoredCarriesUuid'
  <2>1. formData' = LoadFromProps(u, rules)
    BY <1>2 DEF Navigate, ComponentWillReceiveProps, ReloadNeeded
  <2>2. QED
    BY <1>2, <2>1, LoadStoredUuid
       DEF Navigate, StoredCarriesUuid, SInv, TypeOK
<1>3. ASSUME NEW list \in [Uuids -> StoredRule \cup {NoRule}], RulesUpdate(list)
      PROVE  StoredCarriesUuid'
  <2>1. CASE mounted
    <3>1. formData' = LoadFromProps(route, list)
      BY <1>3, <2>1 DEF RulesUpdate, ComponentWillReceiveProps, ReloadNeeded
    <3>2. QED
      BY <1>3, <3>1, LoadStoredUuid DEF RulesUpdate, StoredCarriesUuid
  <2>2. CASE ~mounted
    BY <1>3, <2>2 DEF RulesUpdate, StoredCarriesUuid
  <2>3. QED
    BY <2>1, <2>2
<1>4. ASSUME NEW named \in BOOLEAN, NEW body \in Bodies, Edit(named, body)
      PROVE  StoredCarriesUuid'
  <2> DEFINE new == [uuid |-> UuidOf(formData), named |-> named, body |-> body]
  <2>1. formData' = new
    BY <1>4 DEF Edit
  <2>2. new \in FormValue
    BY EditKeepsUuid DEF SInv, TypeOK
  <2>3. UuidOf(new) = UuidOf(formData)
    BY <2>2, EditorAssumption DEF UuidOf
  <2>4. QED
    BY <1>4, <2>1, <2>3 DEF Edit, StoredCarriesUuid, SInv
<1>5. CASE Submit \/ Back \/ UNCHANGED vars
  BY <1>5 DEF Submit, Back, vars, StoredCarriesUuid, SInv
<1>6. QED
  BY <1>1, <1>2, <1>3, <1>4, <1>5 DEF Next

\* The step of SaveWhileStored.
SaveStep ==
    /\ Len(requests') > Len(requests)
    /\ route \in Uuids /\ rules[route] # NoRule
    => requests'[Len(requests')].kind = "save"

LEMMA SaveStepHolds == SInv /\ [Next]_vars => [SaveStep]_vars
<1> SUFFICES ASSUME SInv, Next PROVE SaveStep
  OBVIOUS
<1>1. ASSUME Submit PROVE SaveStep
  <2> SUFFICES ASSUME route \in Uuids, rules[route] # NoRule
               PROVE  requests'[Len(requests')].kind = "save"
    BY DEF SaveStep
  <2>1. formData \in FormValue /\ formData.uuid = route
    BY <1>1 DEF Submit, Valid, SInv, TypeOK, StoredCarriesUuid, UuidOf
  <2>2. requests \in Seq(Request)
    BY DEF SInv, TypeOK
  <2>3. QED
    BY <1>1, <2>1, <2>2, EditorAssumption DEF Submit, SubmitKind
<1>2. CASE Next /\ ~Submit
  <2>1. requests' = requests
    BY <1>2 DEF Next, Mount, Navigate, RulesUpdate, Edit, Back
  <2>2. QED
    BY <2>1 DEF SaveStep
<1>3. QED
  BY <1>1, <1>2

(***************************************************************************)
(* Save on the page of a rule that is in the store's list always saves    *)
(* that rule and never adds a copy of it.                                  *)
(***************************************************************************)
THEOREM SavesStoredRule == Spec => SaveWhileStored
<1>1. Spec => []SInv
  BY SInvInit, SInvStep, PTL DEF Spec
<1>2. QED
  BY <1>1, SaveStepHolds, PTL DEF Spec, SaveWhileStored, SaveStep
-----------------------------------------------------------------------------
(***************************************************************************)
(* Refinement of the abstract rule form (RuleForm, instantiated as Form).  *)
(***************************************************************************)

\* A modified form holds an edited rule object, never undefined.
ModifiedIsEdit == isModified => formData \in FormValue

RInv == IInv /\ ModifiedIsEdit

(***************************************************************************)
(* The abstract form reads the stored rule as loadFromProps does.          *)
(***************************************************************************)
LEMMA StoredIsLoad ==
    ASSUME NEW u, NEW list
    PROVE  Form!Stored(u, list) = LoadFromProps(u, list)
BY DEF Form!Stored, Form!NoRule, LoadFromProps, NoRule

(***************************************************************************)
(* In a mounted view, the abstract form shows the form data: the draft     *)
(* while modified, and otherwise the stored rule, which is the form data   *)
(* by UnmodifiedIsStored.                                                  *)
(***************************************************************************)
LEMMA ShownIsForm ==
    ASSUME RInv, mounted
    PROVE  Form!Shown = formData
<1>1. CASE isModified
  <2>1. formData \in FormValue
    BY <1>1 DEF RInv, ModifiedIsEdit
  <2>2. formData # Form!Clean
    BY <2>1 DEF FormValue, Form!Clean
  <2>3. QED
    BY <1>1, <2>2 DEF Form!Shown
<1>2. CASE ~isModified
  <2>1. formData = LoadFromProps(route, rules)
    BY <1>2 DEF RInv, IInv, UnmodifiedIsStored
  <2>2. QED
    BY <1>2, <2>1, StoredIsLoad DEF Form!Shown, Form!Clean
<1>3. QED
  BY <1>1, <1>2

LEMMA RInvInit == Init => RInv
BY InvInit DEF Init, RInv, ModifiedIsEdit

LEMMA RInvStep == RInv /\ [Next]_vars => RInv'
<1> SUFFICES ASSUME RInv, [Next]_vars PROVE ModifiedIsEdit'
  BY InvStep DEF RInv
<1>1. ASSUME NEW named \in BOOLEAN, NEW body \in Bodies, Edit(named, body)
      PROVE  ModifiedIsEdit'
  BY <1>1, EditKeepsUuid DEF Edit, ModifiedIsEdit, RInv, IInv, TypeOK
<1>2. ASSUME NEW u \in Uuids \cup {Undefined}, Mount(u) PROVE ModifiedIsEdit'
  BY <1>2 DEF Mount, ModifiedIsEdit
<1>3. ASSUME NEW u \in Uuids \cup {Undefined}, Navigate(u)
      PROVE  ModifiedIsEdit'
  BY <1>3 DEF Navigate, ComponentWillReceiveProps, ReloadNeeded, ModifiedIsEdit
<1>4. ASSUME NEW list \in [Uuids -> StoredRule \cup {NoRule}], RulesUpdate(list)
      PROVE  ModifiedIsEdit'
  BY <1>4
     DEF RulesUpdate, ComponentWillReceiveProps, ReloadNeeded, ModifiedIsEdit,
         RInv
<1>5. CASE Submit \/ Back \/ UNCHANGED vars
  BY <1>5 DEF Submit, Back, vars, ModifiedIsEdit, RInv
<1>6. QED
  BY <1>1, <1>2, <1>3, <1>4, <1>5 DEF Next

(***************************************************************************)
(* Every step of the view is a step of the abstract form or leaves the     *)
(* abstract state unchanged.                                               *)
(***************************************************************************)
LEMMA RefineStep == RInv /\ [Next]_vars => [Form!Next]_Form!vars
<1> SUFFICES ASSUME RInv, [Next]_vars PROVE [Form!Next]_Form!vars
  OBVIOUS
<1>1. ASSUME NEW u \in Uuids \cup {Undefined}, Mount(u) PROVE Form!Open(u)
  BY <1>1 DEF Mount, Form!Open, Form!Clean
<1>2. ASSUME NEW u \in Uuids \cup {Undefined}, Navigate(u)
      PROVE  Form!Navigate(u)
  <2>1. isModified' = FALSE
    BY <1>2 DEF Navigate, ComponentWillReceiveProps, ReloadNeeded
  <2>2. QED
    BY <1>2, <2>1 DEF Navigate, Form!Navigate, Form!Clean
<1>3. ASSUME NEW list \in [Uuids -> StoredRule \cup {NoRule}], RulesUpdate(list)
      PROVE  Form!Push(list)
  <2>1. CASE mounted
    <3>1. isModified' = FALSE
      BY <1>3, <2>1 DEF RulesUpdate, ComponentWillReceiveProps, ReloadNeeded
    <3>2. QED
      BY <1>3, <2>1, <3>1 DEF RulesUpdate, Form!Push, Form!Clean
  <2>2. CASE ~mounted
    BY <1>3, <2>2 DEF RulesUpdate, Form!Push, Form!Clean
  <2>3. QED
    BY <2>1, <2>2
<1>4. ASSUME NEW named \in BOOLEAN, NEW body \in Bodies, Edit(named, body)
      PROVE  Form!Edit(named, body)
  <2>1. Form!Shown = formData
    BY <1>4, ShownIsForm DEF Edit
  <2>2. QED
    BY <1>4, <2>1 DEF Edit, Form!Edit, UuidOf
<1>5. ASSUME Submit PROVE Form!Send
  <2>1. Form!Shown = formData
    BY <1>5, ShownIsForm DEF Submit
  <2>2. QED
    BY <1>5, <2>1 DEF Submit, Form!Send, Valid, SubmitKind
<1>6. ASSUME Back PROVE Form!Close
  BY <1>6 DEF Back, Form!Close
<1>7. CASE UNCHANGED vars
  BY <1>7 DEF vars, Form!vars
<1>8. Form!StoredRule = StoredRule /\ Form!NoRule = NoRule
  BY DEF Form!StoredRule, StoredRule, Form!NoRule, NoRule
<1>9. QED
  BY <1>1, <1>2, <1>3, <1>4, <1>5, <1>6, <1>7, <1>8 DEF Next, Form!Next

(***************************************************************************)
(* The rule editor view implements the abstract rule form: Save sends the *)
(* stored rule of the route in the current list or the user's edits made  *)
(* since the last reload, never a stale copy.                              *)
(***************************************************************************)
THEOREM Refinement == Spec => ImplementsRuleForm
<1>1. Init => Form!Init
  BY DEF Init, Form!Init, Form!Clean, Form!StoredRule, StoredRule,
         Form!NoRule, NoRule
<1>2. Spec => []RInv
  BY RInvInit, RInvStep, PTL DEF Spec
<1>3. QED
  BY <1>1, <1>2, RefineStep, PTL DEF Spec, ImplementsRuleForm, Form!Spec
=============================================================================
