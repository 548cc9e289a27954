# Verification of the stampzilla-go automation editors (web UI)

This directory holds TLA+ models of the automation part of the
stampzilla-server web UI (`src/nodes/stampzilla-server/web/src`). It also holds
the TLC configurations that check the models and the TLAPS proofs about them.

## 1. Inventory

### Components

| Component | Source | State it keeps | Operations that change state |
|---|---|---|---|
| RuleConditions selection field | `components/formComponents.js` 264-357 | `this.state`: an object from rule uuid to `true` (must be active), `false` (must be standby) or `undefined` | `constructor`, `componentWillReceiveProps`, the checkbox handler `onChange(name, value)(checked)` |
| Rule editor view (`Automation`) | `routes/automation/Rule.js` | `formData`, `isValid`, `isModified` | `constructor`, `componentWillReceiveProps`, `onChange`, `onSubmit` (dispatches `save`/`add`), `onBackClick` |
| Schedule editor view | `routes/automation/Schedule.js` | `formData`, `isValid` | `constructor`, `componentWillReceiveProps`, `onChange`, `onRemove` (confirm, dispatch `remove`, leave), `onSubmit` (dispatch `save`/`add`, leave), `onBackClick` |
| Form templates and widgets | `formComponents.js` 6-246 | none (render functions) | `CustomCheckbox` reports `event.target.checked` (modelled in RuleConditions). The array add, reorder and remove handlers come from react-jsonschema-form. |
| Status colour `stateToTextColor` | `formComponents.js` 248-262 | none (pure) | none |
| Redux store, server | not in this fragment (`ducks/*`) | rule list, schedule list, rule status | list pushes from the server; the dispatched actions |

### How they interact

- The **owner** of RuleConditions is the json-schema form. It passes the
  selection down as `props.formData` on every re-render. It receives the
  selection back through `props.onChange`. The field copies `formData` into its
  state with a spread (`{ ...formData }`). React's `setState` *shallow-merges*
  that copy into the current state.
- The editor views read their rule or schedule from the store (`connect`,
  `mapToProps`). They read the uuid from the route. They reload the form
  whenever the route uuid changes or a new list object arrives. They write
  back only by dispatching `save`, `add` or `remove`. The store list changes
  asynchronously, whenever the server pushes one. This can happen at any
  moment of an edit, because other clients edit rules too.
- Everything runs on the browser's single event loop. Each handler,
  including its `setState` callback, runs to completion. The hard behaviours
  are therefore the **orders** of events: user edits, navigation, server
  pushes and re-renders by the owner, together with state that a handler
  keeps from an earlier event.

### What makes each component correct

- RuleConditions: the table shows exactly the selection the owner will save.
  A re-seed replaces the selection. The owner is told of every change once.
- Rule and Schedule editors: the form holds the routed rule. An unmodified
  form is the stored rule. Save is enabled exactly for valid data. Actions
  name the right rule. A visit never sends conflicting actions.

The hazards are listed, each at its line, in `PROJECT.json` (`hazards`).

## 2. Plan

1. `RuleConditions` (done): the selection field and its owner.
2. `RuleEditor` (done) and `ScheduleEditor` (done): the two editor views. The
   router and the store's list are their environment.
3. Proofs (done): `RuleConditionsProofs`, `RuleEditorProofs` and
   `ScheduleEditorProofs` prove every invariant of the passing runs.
4. A changing rule list in RuleConditions (done). It shows the hidden-keys
   hazard (`formComponents.js:318`) as the violation of `ReportedAreShown`.
5. Abstract specifications (partly done). `RuleForm` is the abstract rule
   form, and `RuleEditor` is proved to implement it. An abstract selection
   field is not written: the code's merge makes "a seed replaces the
   selection" false (run `rule_conditions_provenance`), so a refinement could
   only be shown for a corrected field, not for this code.
6. Compose the rule editor with a server model: pending `add` requests and
   list pushes that reflect them. This states the double-add hazard
   (`Rule.js:113`) as a property.

## 3. Modules and how they map to the code

### RuleConditions (`formComponents.js` 264-350)

A JavaScript object is a function whose domain is its set of keys (`Objects`).
`Spread` is `{ ...fd }`: spreading `undefined` gives `{}`. `SetStateMerge` is
React's shallow merge.

- `Init`: the constructor. The state is a copy of `formData`. Without
  `formData`, `onChange()` is called with no argument.
- `ComponentWillReceiveProps(fd)`: the reference test
  `formData !== this.state` is modelled as a content test. This is exact here:
  the two differ only when the owner passes back the very object it was given,
  whose content is then the state, and the merge would leave the state
  unchanged anyway.
- `Reseed(x, fd)`: the owner re-renders with the stored selection `fd` of the
  rule `x` (navigation or a reload).
- `Rerender`: the owner re-renders with its own value.
- `Toggle(name, value)`: a click on a `CustomCheckbox` whose `checked` prop
  is the state the last render showed. The checkbox reports `!checked`
  (`CheckboxChecked`). The handler sets `state[name]` to `value`
  or to `undefined`. Its `setState` callback reports the whole state.
- `rules`: the store's rule list (`mapStateToProps`). The table shows its
  rules other than the edited one (`Shown`). `RulesChange(list)`: a store
  push gives the field a new `rules` prop; the owner re-renders it with its
  own value at the same time.
- `CleanSeed`: an assumption about the owner, not code of this repository. A
  stored selection only names listed rules other than the rule it belongs to.
  Without it every seed would show hidden keys at once, and the hidden-keys
  trace below would be trivial.
- History variables: `event`, `notified`, `seeded` and `touched` are read only
  by properties.

### RuleEditor (`Rule.js`) and ScheduleEditor (`Schedule.js`)

Form data is abstracted to three parts:

- the uuid;
- whether the required `name` is set (the schema's only validation);
- the other fields, as one value of `Bodies`. The `actions || []`
  normalisation lives here.

The store's list is a function from uuid to a stored rule or `NoRule`. The
actions are:

- `Mount(u)`: the constructor.
- `Navigate(u)`: a route change while mounted.
- `RulesUpdate` / `SchedulesUpdate`: a pushed list. It is always a new object,
  so `rules !== this.props.rules`.
- `Edit`: `onChange`.
- `Submit`: `onSubmit`, which the form calls only when validation passes.
- `Remove`: a confirmed `onRemove` (Schedule only).
- `Back`: `onBackClick`.

In Schedule, `Submit` and `Remove` also unmount the view (`history.push`). In
Rule they do not.

### RuleForm: what the rule view promises

`RuleForm` has no `isValid`, no `isModified` and no copy of the stored rule.
Its `draft` is either `Clean` or the user's edit. `Shown` is what the form
shows: the stored rule of the route in the current list when `draft` is
`Clean`, and the draft otherwise. Open, Navigate and a pushed list reset the
draft to `Clean`. Edit keeps the uuid of what is shown. Send sends `Shown`.
`RuleEditor` instantiates it as `Form` with the refinement mapping
`draft <- IF isModified THEN formData ELSE Clean`. The other variables map to
themselves. `ImplementsRuleForm == Form!Spec`.

## 4. Runs

| Run | Checks | Result | What it shows |
|---|---|---|---|
| `rule_conditions` | TypeOK, OwnerAgrees, ToggleKeepsOwnerConstraints | pass (38,721 states) | Every constraint the owner holds is in the component state with the same value. This says nothing of rows: `rule_conditions_hidden` shows a constraint with no row. A click keeps every other constraint the owner held, but it can add stale ones (`rule_conditions_provenance`). |
| `rule_conditions_provenance` | SelectionProvenance | violation | See below: a re-seed keeps the old selection. |
| `rule_conditions_notify` | NotifyContract | violation | A re-seed with data is never reported (line 276). |
| `rule_conditions_hidden` | ReportedAreShown | violation | A constraint on a rule that leaves the list stays in the owner's value, with no row to show or clear it. |
| `rule_editor` | TypeOK, FormBelongsToRoute, UnmodifiedIsStored, SaveWhileStored | pass (64,500 states) | The form always holds the routed rule. An unmodified form is exactly the stored rule. While the routed rule is in the list, Save dispatches `save`. |
| `rule_editor_refinement` | ImplementsRuleForm | pass (64,500 states) | Save sends the routed stored rule or the edits since the last reload. `isModified` marks which of the two the form holds. |
| `rule_editor_save_enabled` | SaveEnabledIffValid | violation | `isValid` is never recomputed on mount or reload. |
| `rule_editor_readd` | AddOnlyForNewRule | violation | Save on the "Edit rule" page of a rule missing from the list dispatches `add` (line 110). |
| `schedule_editor` | TypeOK, OneActionPerVisit, FormBelongsToRoute | pass (126,660 states) | A visit dispatches at most one action. The form holds the routed schedule. |
| `schedule_remove` | RemoveNamesSchedule | violation | Remove on the new-schedule page sends `remove(undefined)`. |

The provenance trace that TLC reports has three steps:

1. Mount the field for rule `r1` with the stored selection `{r2: false}`.
2. Navigate to rule `r2`, which has no stored selection (`formData`
   undefined). The owner is told `onChange()`, but the state keeps
   `r2: false`.
3. Toggle standby on `r1`. The owner receives `{r1: false, r2: false}`. Rule
   `r2` is saved conditioned on itself, by a constraint that was neither
   seeded nor set by the user.

The hidden-keys trace is two states long. The owner seeds `{r1: true}` while
`r1` is listed, and the store then pushes a list without `r1`. The owner's
value keeps `r1: true`. It is saved with the rule, but no row shows it.

The re-add trace has three steps:

1. Mount the route of `u1` while `u1` is not in the list (a stale link, or
   a rule deleted by another client).
2. Edit. The form data has no uuid.
3. Save dispatches `add`.

The same happens when the rule is deleted during an edit: the pushed list
reloads the form to `undefined`. `SaveWhileStored` (proved) shows that this
is the only way: as long as the rule is listed, Save saves it.

Bounds and why they are enough:

- RuleConditions has three rules and four stored selections: `{}`,
  `{r1: true}`, `{r2: false}` and `{r1: false, r3: true}`. A re-seed can then
  add, drop and overwrite keys, and the edited rule can be any of them.
- The editors have two uuids, two bodies, every list over them, and two
  dispatched requests. That is enough to navigate between two stored rules,
  to delete the routed rule under an edit, and to send a second request in
  one visit.

Every property of a passing run has a mutant in `PROJECT.json`. Each mutant is
a plausible bug that TLC detects:

- the plain `this.state = formData`;
- a reload that forgets `isModified: false`. Only the refinement catches this
  one: the form still holds the routed rule, but a server copy passes as the
  user's edit;
- a reload test that lacks one disjunct;
- swapped `save`/`add` branches;
- a checkbox handler that reports only the changed key, the "partial delta"
  that spec 9 rules out;
- an edit that drops the uuid of the form data;
- a missing `history.push`.

No fairness is assumed, and no liveness property is checked. Every event in
this code is started by the user, the router or the server, and nothing in the
code guarantees that any of them happens.

## 5. What is proved

`RuleConditionsProofs` (checked by TLAPS) proves two theorems for every set of
rules and every set of stored selections (`SeedDataAssumption`: stored
selections are objects over rule uuids with boolean values):

- `TypeCorrect`: `Spec => []TypeOK`. It rests on the lemmas `MergeIsObject`
  and `SpreadIsObject`.
- `OwnerAgreement`: `Spec => []OwnerAgrees`: the component state carries
  every constraint the owner holds, with the owner's value. It does not say
  that a row shows each of them (that is `ReportedAreShown`, which fails).
  OwnerAgrees alone is not
  inductive, because a re-render passes the owner's value back into
  `componentWillReceiveProps`. The inductive invariant is
  `IInv == TypeOK /\ OwnerAgrees`. The argument has three cases:
  - a toggle makes the owner equal to the state;
  - a re-seed or re-render either passes the state itself, or merges the
    owner's value into the state, and every key of the update then holds the
    update's value (lemma `MergeTakesUpdate`);
  - an undefined owner makes OwnerAgrees hold trivially.
- `OwnerConstraintsKept`: `Spec => ToggleKeepsOwnerConstraints`, an action
  property. A click keeps every constraint the owner held except the clicked
  one. It does not exclude the click adding keys the owner lacked. It follows from `IInv` through the step lemma `ToggleKeepsStep`.
  Only a toggle sets the event to `"toggle"`. The toggle reports the merge of
  one key into the state. By OwnerAgrees, every other key the owner held is in
  the state with the owner's value, and `MergeKeepsOthers` shows that the
  merge keeps it.

`RuleEditorProofs` proves, for every set of uuids and bodies and every
request bound (`EditorAssumption`):

- `TypeCorrect`, `FormOfRoute` and `UnmodifiedStored`. Their inductive
  invariant is `IInv == TypeOK /\ FormBelongsToRoute /\ UnmodifiedIsStored`.
  `UnmodifiedIsStored` needs `FormBelongsToRoute` because an edit keeps the
  uuid the form holds.
- `Refinement`: `Spec => ImplementsRuleForm`. The step lemma `RefineStep` needs
  `RInv == IInv /\ ModifiedIsEdit`: a modified form holds form data and not
  `undefined`. With it, `Form!Shown = formData` in every mounted state (lemma
  `ShownIsForm`). Every step of the view is then a step of `RuleForm`, or
  leaves its variables unchanged.
- `SavesStoredRule`: `Spec => SaveWhileStored`, an action property. Its
  invariant is `SInv == TypeOK /\ StoredCarriesUuid`: while the routed rule
  is in the list, a mounted form carries the route's uuid. This is inductive
  for three reasons. Every reload loads that rule (lemma `LoadStoredUuid`).
  An edit keeps the uuid. A list never changes under a mounted view without a
  reload. With it, `Submit` dispatches `save`. The proof needs the assumption
  that `undefined` is not a rule object (`Undefined \notin FormValue` in
  `EditorAssumption`), which JavaScript guarantees.

`ScheduleEditorProofs` proves `TypeCorrect`, `OneAction` and `FormOfRoute`.
`OneActionPerVisit` is not inductive alone. The strengthening
`NothingSentWhileMounted` (`mounted => visitSent = 0`) holds because both
actions that dispatch also unmount the view.

Only the violations are left to TLC alone. Liveness and `ENABLED` are beyond
TLAPS here. No recursive operator is used.

## 6. What is not modelled

- Rendering and CSS: the templates, the status colour and the device
  parameter listing in `Rule.js` render. `stateToTextColor` is a pure table
  lookup, and no state depends on it.
- Unsaved edits discarded by a pushed list (`Rule.js:89`). This is the code's
  design, and no statement says edits must survive. `UnmodifiedIsStored` and
  the refinement take the reload as intended, so they do not cover this
  hazard. They cover the converse: a missed reload that would leave a stale
  copy.
- The double-add hazard (`Rule.js:113`): Save on the new-rule page can be
  pressed again before the store's list contains the new rule. Stating it
  needs a server model (plan step 6).
- The json-schema form library (validation beyond the required `name`, array
  editing), which is outside this repository fragment.
- The server and the Redux reducers. They are not in the fragment and appear
  only as an environment that may push any list.
- A declined `confirm` in `onRemove`, which changes no state.
