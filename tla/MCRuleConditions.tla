-------------------------- MODULE MCRuleConditions --------------------------
(***************************************************************************)
(* RuleConditions on three rules.  The stored selections the owner can     *)
(* supply: none, the empty object, one constraint per value, and two       *)
(* constraints, so that a re-seed can drop, keep and overwrite keys.       *)
(***************************************************************************)
EXTENDS RuleConditions, TLC

CONSTANTS r1, r2, r3

MCRules == {r1, r2, r3}

MCSeedData ==
    { EmptyObject,
      r1 :> TRUE,
      r2 :> FALSE,
      (r1 :> FALSE) @@ (r3 :> TRUE) }
=============================================================================
