--------------------------- MODULE RuleConditions ---------------------------
(***************************************************************************)
(* The RuleConditions form field of formComponents.js: a table with an     *)
(* "Active" and a "Standby" checkbox per rule, whose selection is the      *)
(* component's React state, a JavaScript object from rule uuids to true,   *)
(* false or undefined.  The owner of the field (the json-schema form) holds *)
(* the value the field last reported through props.onChange and passes a   *)
(* value back as props.formData whenever it re-renders.                     *)
(*                                                                         *)
(* An object is a function whose domain is the set of its keys.  React's   *)
(* setState shallow-merges its argument into the current state.            *)
(***************************************************************************)
EXTENDS Naturals

CONSTANTS
    Rules,      \* the uuids of the rules that can be in the store's rule list
    Undefined,  \* the JavaScript value undefined
    SeedData    \* selections the owner can supply as formData (stored data)

\* A key of the selection holds true, false or undefined (the value an
\* unchecked box writes, line 286).
Val == BOOLEAN \cup {Undefined}

\* The JavaScript objects over rule uuids, and membership in them.
Objects == UNION {[keys -> Val] : keys \in SUBSET Rules}

IsObject(obj) == obj \in Objects

ASSUME UndefinedAssumption == Undefined \notin BOOLEAN \cup Rules

ASSUME SeedDataAssumption ==
    \A fd \in SeedData : IsObject(fd) /\ \A r \in DOMAIN fd : fd[r] \in BOOLEAN

VARIABLES
    state,     \* this.state of the component
    rules,     \* props.rules: the uuids in the store's rule list
    owner,     \* the value the owner holds for the field (passed as formData)
    current,   \* uiSchema.current: the uuid of the rule being edited
    event,     \* the kind of the last event handled (history)
    notified,  \* whether props.onChange was called during that event
    seeded,    \* the formData of the last (re)seed (history)
    touched    \* the rules toggled by the user since that seed (history)

vars == <<state, rules, owner, current, event, notified, seeded, touched>>

EmptyObject == [r \in {} |-> Undefined]

\* Mutant: the state is formData itself, not a copy of it.
SpreadRaw(fd) == fd

\* The object spread { ...fd }: spreading undefined yields {}.
Spread(fd) == IF fd = Undefined THEN EmptyObject ELSE fd

\* setState(update): the keys of update overwrite those of st, the other
\* keys of st are kept.
SetStateMerge(update, st) ==
    [r \in DOMAIN update \cup DOMAIN st |->
        IF r \in DOMAIN update THEN update[r] ELSE st[r]]

\* The checked prop of the checkbox of rule r for value v (lines 324, 331).
IsChecked(obj, r, v) == r \in DOMAIN obj /\ obj[r] = v

(***************************************************************************)
(* CustomCheckbox renders a controlled input checked by its value prop and *)
(* calls onChange(event.target.checked); a click on a controlled checkbox  *)
(* reports the opposite of what the last render showed.                   *)
(***************************************************************************)
CheckboxChecked(shown) == ~shown

\* The rows of the table: every listed rule but the one being edited.
Shown == {r \in rules : r # current}

\* The owner seeds the field for rule x with a selection over the listed
\* rules other than x (or with none).
CleanSeed(x, fd, list) == fd # Undefined => DOMAIN fd \subseteq list \ {x}

(***************************************************************************)
(* constructor: the state is a copy of formData; without formData the      *)
(* owner is told onChange() with no argument.                              *)
(***************************************************************************)
Init ==
    \E fd \in SeedData \cup {Undefined}, x \in Rules \cup {Undefined},
      list \in SUBSET Rules :
        /\ CleanSeed(x, fd, list)
        /\ state = Spread(fd)
        /\ rules = list
        /\ owner = fd
        /\ current = x
        /\ event = "mount"
        /\ notified = (fd = Undefined)
        /\ seeded = fd
        /\ touched = {}

\* Mutant: a componentWillReceiveProps that never takes the new formData.
ComponentWillReceivePropsIgnored(fd) ==
    /\ UNCHANGED state
    /\ notified' = FALSE

(***************************************************************************)
(* componentWillReceiveProps(props) with props.formData = fd.  The         *)
(* reference test formData !== this.state is true unless the owner passes  *)
(* back the very object it was given, whose content is then the state.     *)
(* The setState callback reports onChange() only when fd is undefined;     *)
(* the owner then holds undefined, which it already passed.                *)
(***************************************************************************)
ComponentWillReceiveProps(fd) ==
    IF fd # state
      THEN /\ state' = SetStateMerge(Spread(fd), state)
           /\ notified' = (fd = Undefined)
      ELSE /\ UNCHANGED state
           /\ notified' = FALSE

\* Mutant: the setState callback reports only the changed key (line 288).
ToggleReportsDelta(name, value) ==
    /\ name \in Shown
    /\ LET checked == CheckboxChecked(IsChecked(state, name, value))
           delta   == [r \in {name} |-> IF checked THEN value ELSE Undefined]
       IN  /\ state' = SetStateMerge(delta, state)
           /\ owner' = delta
    /\ event' = "toggle"
    /\ notified' = TRUE
    /\ touched' = touched \cup {name}
    /\ UNCHANGED <<rules, current, seeded>>

(***************************************************************************)
(* The user clicks the checkbox of rule name for value value.  The box is  *)
(* controlled, so the click flips the checked state the last render        *)
(* showed.  onChange(name, value)(checked) sets state[name] to value or    *)
(* undefined and its setState callback reports the whole state.            *)
(***************************************************************************)
Toggle(name, value) ==
    /\ name \in Shown
    /\ LET checked == CheckboxChecked(IsChecked(state, name, value))
           next    == SetStateMerge([r \in {name} |->
                                        IF checked THEN value ELSE Undefined],
                                    state)
       IN  /\ state' = next
           /\ owner' = next
    /\ event' = "toggle"
    /\ notified' = TRUE
    /\ touched' = touched \cup {name}
    /\ UNCHANGED <<rules, current, seeded>>

(***************************************************************************)
(* The owner re-renders the field with the stored selection fd of the rule *)
(* x: the user navigated to rule x, or the store's rule list changed and   *)
(* the editor reloaded its form data.                                      *)
(***************************************************************************)
Reseed(x, fd) ==
    /\ CleanSeed(x, fd, rules)
    /\ owner' = fd
    /\ current' = x
    /\ ComponentWillReceiveProps(fd)
    /\ event' = "seed"
    /\ seeded' = fd
    /\ touched' = {}
    /\ UNCHANGED rules

(***************************************************************************)
(* The owner re-renders the field with the value it holds, as it does when *)
(* another field of the form changes.                                      *)
(***************************************************************************)
Rerender ==
    /\ ComponentWillReceiveProps(owner)
    /\ event' = "rerender"
    /\ UNCHANGED <<rules, owner, current, seeded, touched>>

(***************************************************************************)
(* The store's rule list changes (a rule is added or deleted by any        *)
(* client); the connected field receives the new rules prop together with  *)
(* the formData its owner holds, and the table shows the new list.         *)
(***************************************************************************)
RulesChange(list) ==
    /\ rules' = list
    /\ ComponentWillReceiveProps(owner)
    /\ event' = "rerender"
    /\ UNCHANGED <<owner, current, seeded, touched>>

Next ==
    \/ \E name \in Rules, value \in BOOLEAN : Toggle(name, value)
    \/ \E x \in Rules \cup {Undefined}, fd \in SeedData \cup {Undefined} :
          Reseed(x, fd)
    \/ Rerender
    \/ \E list \in SUBSET Rules : RulesChange(list)

Spec == Init /\ [][Next]_vars

-----------------------------------------------------------------------------
(***************************************************************************)
(* Properties                                                              *)
(***************************************************************************)

(***************************************************************************)
(* The state, and the owner's value when defined, are objects over rule    *)
(* uuids: the constructor and componentWillReceiveProps copy formData with *)
(* a spread, which turns an undefined formData into {}.                    *)
(***************************************************************************)
TypeOK ==
    /\ IsObject(state)
    /\ rules \subseteq Rules
    /\ owner = Undefined \/ IsObject(owner)
    /\ current \in Rules \cup {Undefined}
    /\ event \in {"mount", "toggle", "seed", "rerender"}
    /\ notified \in BOOLEAN
    /\ seeded \in SeedData \cup {Undefined}
    /\ touched \subseteq Rules

(***************************************************************************)
(* The component state carries every constraint the owner holds: every   *)
(* key of the value the owner would save is in this.state with the same    *)
(* value.  It says nothing of rows: the table leaves out the edited rule   *)
(* and unlisted rules (ReportedAreShown), and the state may hold more keys *)
(* than the owner (SelectionProvenance).  It rests on                      *)
(* componentWillReceiveProps copying every key of a new formData into the  *)
(* state and on onChange reporting the whole state.                        *)
(***************************************************************************)
OwnerAgrees ==
    owner # Undefined =>
        \A r \in DOMAIN owner : r \in DOMAIN state /\ state[r] = owner[r]

(***************************************************************************)
(* The selection is replaced wholesale on a re-seed (spec 3, 4.1): every   *)
(* constraint the owner receives was in the data of the last seed or was  *)
(* set by the user since.  Broken by the shallow merge of setState at line *)
(* 275, which keeps the previous rule's selection.                         *)
(***************************************************************************)
SelectionProvenance ==
    owner # Undefined =>
        \A r \in DOMAIN owner :
            owner[r] \in BOOLEAN =>
                \/ r \in touched
                \/ seeded # Undefined /\ r \in DOMAIN seeded
                                      /\ seeded[r] = owner[r]

(***************************************************************************)
(* notifyChange is called exactly once per toggle and per seed or re-seed  *)
(* and on mount only without initial data (spec 4.1, 8); a plain          *)
(* re-render is not an event that reports.  The code reports a re-seed     *)
(* only when its data is undefined (line 276), and reports again on every  *)
(* re-render while the owner holds undefined.                              *)
(***************************************************************************)
NotifyContract ==
    notified <=> \/ event \in {"toggle", "seed"}
                 \/ event = "mount" /\ seeded = Undefined

(***************************************************************************)
(* Every constraint the owner would save is on a row of the table, so the  *)
(* user sees it and can clear it: the table leaves out the edited rule and *)
(* every rule not in the list (line 318), but the state keeps their keys   *)
(* when the list loses a rule or a re-seed merges in an old selection.     *)
(***************************************************************************)
ReportedAreShown ==
    owner # Undefined =>
        \A r \in DOMAIN owner : owner[r] \in BOOLEAN => r \in Shown

(***************************************************************************)
(* A click keeps every other constraint the owner held (spec 4.1 and 8:   *)
(* toggle sets one identifier and reports the complete map): after a       *)
(* toggle every key the owner held, except the clicked one, is still in    *)
(* its value with the same value.  It does not forbid the click adding     *)
(* keys the owner did not hold; stale keys kept by the merge at line 275   *)
(* do reach the owner that way (SelectionProvenance).  onChange sets one   *)
(* key of the component state and reports the whole state (line 288).      *)
(***************************************************************************)
ToggleKeepsOwnerConstraints ==
    [][owner # Undefined /\ event' = "toggle" =>
         \E name \in Rules :
             \A r \in DOMAIN owner \ {name} :
                 r \in DOMAIN owner' /\ owner'[r] = owner[r]]_vars

=============================================================================
