-------------------------- MODULE MCAutomationRuns --------------------------
(* Instances of AutomationRuns for TLC. *)
EXTENDS AutomationRuns, TLC

CONSTANTS a, b

FirstASecondB == a :> 1 @@ b :> 2
=============================================================================
