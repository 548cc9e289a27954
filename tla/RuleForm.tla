------------------------------ MODULE RuleForm ------------------------------
(***************************************************************************)
(* What the rule editor view of routes/automation/Rule.js promises, with   *)
(* its bookkeeping left out.  The form shows either the stored rule of the *)
(* route in the current rule list, or a draft the user has edited; a new   *)
(* route, a new visit and every pushed list drop the draft; Save sends     *)
(* what the form shows, as save when it names a rule and as add otherwise. *)
(* There is no isValid and no copy of the stored rule: the stored rule is  *)
(* read from the list whenever the form shows it.                          *)
(***************************************************************************)
EXTENDS Naturals, Sequences

CONSTANTS Uuids, Undefined, Bodies, MaxRequests

VARIABLES
    mounted,   \* whether the view is shown
    route,     \* the uuid of the route, Undefined for a new rule
    rules,     \* the store's rule list
    draft,     \* the user's edited rule, or Clean
    requests   \* the save and add actions sent, in order

vars == <<mounted, route, rules, draft, requests>>

StoredRule == [named : BOOLEAN, body : Bodies]
NoRule == [none |-> TRUE]
FormValue == [uuid : Uuids \cup {Undefined}, named : BOOLEAN, body : Bodies]

\* No draft: the form shows the stored rule.
Clean == [clean |-> TRUE]

\* The stored rule of uuid u in the list, as form data.
Stored(u, list) ==
    IF u \in Uuids /\ list[u] # NoRule
      THEN [uuid |-> u, named |-> list[u].named, body |-> list[u].body]
      ELSE Undefined

\* What the form shows.
Shown == IF draft = Clean THEN Stored(route, rules) ELSE draft

Init ==
    /\ mounted = FALSE
    /\ route = Undefined
    /\ rules \in [Uuids -> StoredRule \cup {NoRule}]
    /\ draft = Clean
    /\ requests = <<>>

\* A visit of route u starts with the stored rule.
Open(u) ==
    /\ ~mounted
    /\ mounted' = TRUE
    /\ route' = u
    /\ draft' = Clean
    /\ UNCHANGED <<rules, requests>>

\* Another route while shown: the form shows the stored rule of u.
Navigate(u) ==
    /\ mounted
    /\ u # route
    /\ route' = u
    /\ draft' = Clean
    /\ UNCHANGED <<mounted, rules, requests>>

\* A pushed list; a shown form drops its draft.
Push(list) ==
    /\ rules' = list
    /\ draft' = IF mounted THEN Clean ELSE draft
    /\ UNCHANGED <<mounted, route, requests>>

\* The user edits the form; the rule it names stays the same.
Edit(named, body) ==
    /\ mounted
    /\ draft' = [uuid  |-> IF Shown = Undefined THEN Undefined ELSE Shown.uuid,
                 named |-> named,
                 body  |-> body]
    /\ UNCHANGED <<mounted, route, rules, requests>>

\* Save of a form with a name sends what the form shows.
Send ==
    /\ mounted
    /\ Shown # Undefined /\ Shown.named
    /\ Len(requests) < MaxRequests
    /\ requests' = Append(requests,
                          [kind |-> IF Shown.uuid # Undefined THEN "save"
                                                             ELSE "add",
                           data |-> Shown])
    /\ UNCHANGED <<mounted, route, rules, draft>>

Close ==
    /\ mounted
    /\ mounted' = FALSE
    /\ UNCHANGED <<route, rules, draft, requests>>

Next ==
    \/ \E u \in Uuids \cup {Undefined} : Open(u) \/ Navigate(u)
    \/ \E list \in [Uuids -> StoredRule \cup {NoRule}] : Push(list)
    \/ \E named \in BOOLEAN, body \in Bodies : Edit(named, body)
    \/ Send
    \/ Close

Spec == Init /\ [][Next]_vars
=============================================================================
