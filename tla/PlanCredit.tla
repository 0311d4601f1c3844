----------------------------- MODULE PlanCredit -----------------------------
(***************************************************************************)
(* What a plan payment promises a seller (backend/src/config/plans.js, the *)
(* durations of PLANS): every payment that is applied adds its days to     *)
(* those that are left, and a day that passes takes one.                   *)
(***************************************************************************)
EXTENDS Naturals

CONSTANT Duration       \* days of a plan

VARIABLE credit         \* days left

CInit == credit = 0

Buy == credit' = credit + Duration

DayPasses == credit > 0 /\ credit' = credit - 1

CNext == Buy \/ DayPasses

CSpec == CInit /\ [][CNext]_credit
=============================================================================
