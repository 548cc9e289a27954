-------------------------- MODULE MCScheduleEditor --------------------------
(***************************************************************************)
(* ScheduleEditor with two schedules, two bodies and two dispatched        *)
(* actions, enough for a second action in one visit.                       *)
(***************************************************************************)
EXTENDS ScheduleEditor

CONSTANTS u1, u2, b1, b2

MCUuids == {u1, u2}
MCBodies == {b1, b2}
=============================================================================
