------------------------ MODULE RuleConditionsProofs ------------------------
(***************************************************************************)
(* Proofs about RuleConditions for every set of rules and every set of     *)
(* stored selections: the type invariant, that the component state       *)
(* carries every constraint the owner holds (OwnerAgrees), and that a      *)
(* click keeps the owner's other constraints.                              *)
(***************************************************************************)
EXTENDS RuleConditions, TLAPS

(***************************************************************************)
(* An object over rule uuids is a function from some of the uuids to Val.  *)
(***************************************************************************)
LEMMA ObjectChar ==
    ASSUME NEW obj
    PROVE  IsObject(obj) <=> /\ DOMAIN obj \subseteq Rules
                             /\ obj \in [DOMAIN obj -> Val]
<1>1. ASSUME IsObject(obj) PROVE DOMAIN obj \subseteq Rules /\ obj \in [DOMAIN obj -> Val]
  <2>1. PICK keys \in SUBSET Rules : obj \in [keys -> Val]
    BY <1>1 DEF IsObject, Objects
  <2>2. QED
    BY <2>1
<1>2. ASSUME DOMAIN obj \subseteq Rules, obj \in [DOMAIN obj -> Val]
      PROVE  IsObject(obj)
  BY <1>2 DEF IsObject, Objects
<1>3. QED
  BY <1>1, <1>2

(***************************************************************************)
(* The shallow merge of setState keeps a state an object over rule uuids.  *)
(***************************************************************************)
LEMMA MergeIsObject ==
    ASSUME NEW u, NEW s, IsObject(u), IsObject(s)
    PROVE  IsObject(SetStateMerge(u, s))
<1>1. /\ DOMAIN u \subseteq Rules /\ u \in [DOMAIN u -> Val]
      /\ DOMAIN s \subseteq Rules /\ s \in [DOMAIN s -> Val]
  BY ObjectChar
<1>2. /\ DOMAIN SetStateMerge(u, s) \subseteq Rules
      /\ SetStateMerge(u, s) \in [DOMAIN SetStateMerge(u, s) -> Val]
  BY <1>1 DEF SetStateMerge
<1>3. QED
  BY <1>2, ObjectChar

(***************************************************************************)
(* After the merge, every key of the update holds the update's value.      *)
(***************************************************************************)
LEMMA MergeTakesUpdate ==
    ASSUME NEW u, NEW s, NEW r \in DOMAIN u
    PROVE  /\ r \in DOMAIN SetStateMerge(u, s)
           /\ SetStateMerge(u, s)[r] = u[r]
BY DEF SetStateMerge

(***************************************************************************)
(* The merge keeps every key of the state that the update does not name.  *)
(***************************************************************************)
LEMMA MergeKeepsOthers ==
    ASSUME NEW u, NEW s, NEW r \in DOMAIN s \ DOMAIN u
    PROVE  /\ r \in DOMAIN SetStateMerge(u, s)
           /\ SetStateMerge(u, s)[r] = s[r]
BY DEF SetStateMerge

(***************************************************************************)
(* Spreading the owner's value or a stored selection yields an object.     *)
(***************************************************************************)
LEMMA SpreadIsObject ==
    ASSUME NEW fd, fd = Undefined \/ IsObject(fd)
    PROVE  IsObject(Spread(fd))
<1>1. IsObject(EmptyObject)
  BY ObjectChar DEF EmptyObject
<1>2. QED
  BY <1>1 DEF Spread

LEMMA SeedIsObject ==
    ASSUME NEW fd \in SeedData \cup {Undefined}
    PROVE  fd = Undefined \/ IsObject(fd)
BY SeedDataAssumption

(***************************************************************************)
(* componentWillReceiveProps keeps the state an object.                    *)
(***************************************************************************)
LEMMA ReceivePropsTypes ==
    ASSUME NEW fd, fd = Undefined \/ IsObject(fd), IsObject(state),
           ComponentWillReceiveProps(fd)
    PROVE  IsObject(state') /\ notified' \in BOOLEAN
<1>1. IsObject(Spread(fd))
  BY SpreadIsObject
<1>2. IsObject(SetStateMerge(Spread(fd), state))
  BY <1>1, MergeIsObject
<1>3. QED
  BY <1>2 DEF ComponentWillReceiveProps

(***************************************************************************)
(* The type invariant holds initially and every step preserves it.        *)
(***************************************************************************)
LEMMA TypeInit == Init => TypeOK
<1> SUFFICES ASSUME Init PROVE TypeOK
  OBVIOUS
<1>1. PICK fd \in SeedData \cup {Undefined} :
             /\ state = Spread(fd)
             /\ owner = fd
  BY DEF Init
<1>2. IsObject(state)
  BY <1>1, SeedIsObject, SpreadIsObject
<1>3. owner = Undefined \/ IsObject(owner)
  BY <1>1, SeedIsObject
<1>4. QED
  BY <1>2, <1>3 DEF Init, TypeOK

LEMMA TypeStep == TypeOK /\ [Next]_vars => TypeOK'
<1> SUFFICES ASSUME TypeOK, [Next]_vars PROVE TypeOK'
  OBVIOUS
<1>1. ASSUME NEW name \in Rules, NEW value \in BOOLEAN, Toggle(name, value)
      PROVE  TypeOK'
  <2> DEFINE upd == [r \in {name} |->
                       IF CheckboxChecked(IsChecked(state, name, value))
                         THEN value
                         ELSE Undefined]
  <2>1. IsObject(upd)
    BY ObjectChar DEF Val
  <2>2. IsObject(SetStateMerge(upd, state))
    BY <2>1, MergeIsObject DEF TypeOK
  <2>3. state' = SetStateMerge(upd, state) /\ owner' = state'
    BY <1>1 DEF Toggle
  <2>4. QED
    BY <1>1, <2>2, <2>3 DEF Toggle, TypeOK
<1>2. ASSUME NEW x \in Rules \cup {Undefined},
             NEW fd \in SeedData \cup {Undefined}, Reseed(x, fd)
      PROVE  TypeOK'
  <2>1. fd = Undefined \/ IsObject(fd)
    BY SeedIsObject
  <2>2. IsObject(state') /\ notified' \in BOOLEAN
    BY <1>2, <2>1, ReceivePropsTypes DEF Reseed, TypeOK
  <2>3. QED
    BY <1>2, <2>1, <2>2 DEF Reseed, TypeOK
<1>3. ASSUME Rerender PROVE TypeOK'
  <2>1. IsObject(state') /\ notified' \in BOOLEAN
    BY <1>3, ReceivePropsTypes DEF Rerender, TypeOK
  <2>2. QED
    BY <1>3, <2>1 DEF Rerender, TypeOK
<1>4. ASSUME NEW list \in SUBSET Rules, RulesChange(list) PROVE TypeOK'
  <2>1. IsObject(state') /\ notified' \in BOOLEAN
    BY <1>4, ReceivePropsTypes DEF RulesChange, TypeOK
  <2>2. QED
    BY <1>4, <2>1 DEF RulesChange, TypeOK
<1>5. CASE UNCHANGED vars
  BY <1>5 DEF vars, TypeOK
<1>6. QED
  BY <1>1, <1>2, <1>3, <1>4, <1>5 DEF Next

(***************************************************************************)
(* The type invariant.                                                     *)
(***************************************************************************)
THEOREM TypeCorrect == Spec => []TypeOK
BY TypeInit, TypeStep, PTL DEF Spec

(***************************************************************************)
(* The inductive invariant behind OwnerAgrees: it needs the types, because *)
(* a re-render passes the owner's own value back to the component.         *)
(***************************************************************************)
IInv == TypeOK /\ OwnerAgrees

(***************************************************************************)
(* componentWillReceiveProps with the owner's value fd re-establishes the  *)
(* agreement: either fd is the state, or its keys are merged into it.      *)
(***************************************************************************)
LEMMA ReceivePropsAgrees ==
    ASSUME NEW fd, fd = Undefined \/ IsObject(fd), IsObject(state),
           ComponentWillReceiveProps(fd), owner' = fd
    PROVE  OwnerAgrees'
<1> SUFFICES ASSUME fd # Undefined, NEW r \in DOMAIN fd
             PROVE  r \in DOMAIN state' /\ state'[r] = fd[r]
  BY DEF OwnerAgrees
<1>1. CASE fd # state
  <2>1. state' = SetStateMerge(fd, state)
    BY <1>1 DEF ComponentWillReceiveProps, Spread
  <2>2. QED
    BY <2>1, MergeTakesUpdate
<1>2. CASE fd = state
  BY <1>2 DEF ComponentWillReceiveProps
<1>3. QED
  BY <1>1, <1>2

LEMMA IInvInit == Init => IInv
<1> SUFFICES ASSUME Init PROVE OwnerAgrees
  BY TypeInit DEF IInv
<1>1. PICK fd \in SeedData \cup {Undefined} :
             /\ state = Spread(fd)
             /\ owner = fd
  BY DEF Init
<1>2. QED
  BY <1>1 DEF OwnerAgrees, Spread

LEMMA IInvStep == IInv /\ [Next]_vars => IInv'
<1> SUFFICES ASSUME IInv, [Next]_vars PROVE IInv'
  OBVIOUS
<1>1. TypeOK'
  BY TypeStep DEF IInv
<1>2. ASSUME NEW name \in Rules, NEW value \in BOOLEAN, Toggle(name, value)
      PROVE  OwnerAgrees'
  BY <1>2 DEF Toggle, OwnerAgrees
<1>3. ASSUME NEW x \in Rules \cup {Undefined},
             NEW fd \in SeedData \cup {Undefined}, Reseed(x, fd)
      PROVE  OwnerAgrees'
  BY <1>3, SeedIsObject, ReceivePropsAgrees DEF Reseed, IInv, TypeOK
<1>4. ASSUME Rerender PROVE OwnerAgrees'
  BY <1>4, ReceivePropsAgrees DEF Rerender, IInv, TypeOK
<1>5. ASSUME NEW list \in SUBSET Rules, RulesChange(list)
      PROVE  OwnerAgrees'
  BY <1>5, ReceivePropsAgrees DEF RulesChange, IInv, TypeOK
<1>6. CASE UNCHANGED vars
  BY <1>1, <1>6 DEF vars, IInv, OwnerAgrees
<1>7. QED
  BY <1>1, <1>2, <1>3, <1>4, <1>5, <1>6 DEF Next, IInv

(***************************************************************************)
(* The component state carries every constraint the owner holds, with    *)
(* the owner's value (whether a row shows it is ReportedAreShown).         *)
(***************************************************************************)
THEOREM OwnerAgreement == Spec => []OwnerAgrees
BY IInvInit, IInvStep, PTL DEF Spec, IInv

-----------------------------------------------------------------------------
(***************************************************************************)
(* The step of ToggleKeepsOwnerConstraints.  Only a toggle sets the event  *)
(* to "toggle"; it reports the merge of one key into the state, and by     *)
(* OwnerAgrees every other key the owner held is in the state with the     *)
(* owner's value, so the merge keeps it.                                   *)
(***************************************************************************)
ToggleKeeps ==
    owner # Undefined /\ event' = "toggle" =>
        \E name \in Rules :
            \A r \in DOMAIN owner \ {name} :
                r \in DOMAIN owner' /\ owner'[r] = owner[r]

LEMMA ToggleKeepsStep == IInv /\ [Next]_vars => [ToggleKeeps]_vars
<1> SUFFICES ASSUME IInv, Next PROVE ToggleKeeps
  OBVIOUS
<1>1. ASSUME NEW name \in Rules, NEW value \in BOOLEAN, Toggle(name, value)
      PROVE  ToggleKeeps
  <2> DEFINE upd == [r \in {name} |->
                       IF CheckboxChecked(IsChecked(state, name, value))
                         THEN value
                         ELSE Undefined]
  <2>1. owner' = SetStateMerge(upd, state)
    BY <1>1 DEF Toggle
  <2>2. SUFFICES ASSUME owner # Undefined, NEW r \in DOMAIN owner \ {name}
                 PROVE  r \in DOMAIN owner' /\ owner'[r] = owner[r]
    BY DEF ToggleKeeps
  <2>3. r \in DOMAIN state /\ state[r] = owner[r]
    BY <2>2 DEF IInv, OwnerAgrees
  <2>4. r \in DOMAIN state \ DOMAIN upd
    BY <2>3
  <2>5. QED
    BY <2>1, <2>3, <2>4, MergeKeepsOthers
<1>2. ASSUME NEW x \in Rules \cup {Undefined},
             NEW fd \in SeedData \cup {Undefined}, Reseed(x, fd)
      PROVE  ToggleKeeps
  BY <1>2 DEF Reseed, ToggleKeeps
<1>3. ASSUME Rerender PROVE ToggleKeeps
  BY <1>3 DEF Rerender, ToggleKeeps
<1>4. ASSUME NEW list \in SUBSET Rules, RulesChange(list) PROVE ToggleKeeps
  BY <1>4 DEF RulesChange, ToggleKeeps
<1>5. QED
  BY <1>1, <1>2, <1>3, <1>4 DEF Next

(***************************************************************************)
(* A click on a checkbox never changes or drops another constraint the     *)
(* owner held (it may add keys the owner lacked): onChange merges one key  *)
(* into the state and reports the whole state, and the state always        *)
(* carries the owner's constraints.                                        *)
(***************************************************************************)
THEOREM OwnerConstraintsKept == Spec => ToggleKeepsOwnerConstraints
<1>1. Spec => []IInv
  BY IInvInit, IInvStep, PTL DEF Spec
<1>2. QED
  BY <1>1, ToggleKeepsStep, PTL DEF Spec, ToggleKeepsOwnerConstraints, ToggleKeeps
=============================================================================
