---------------------------- MODULE MCRuleEditor ----------------------------
(***************************************************************************)
(* RuleEditor with two rules, two bodies and two dispatched requests.    *)
(***************************************************************************)
EXTENDS RuleEditor

CONSTANTS u1, u2, b1, b2

MCUuids == {u1, u2}
MCBodies == {b1, b2}
=============================================================================
