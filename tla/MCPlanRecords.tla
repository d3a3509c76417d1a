--------------------------- MODULE MCPlanRecords ---------------------------
(***************************************************************************)
(* Audit ids that sort against the order of the writers, and a reference   *)
(* that three of them use, two with the same payload and one with another; *)
(* a plan that is recorded, and started and sent a signal without a        *)
(* payload while a control recorded before fails again and again.  A pass  *)
(* of the recovery lists fewer commands than there are and one more than   *)
(* can be stuck.                                                           *)
(***************************************************************************)
EXTENDS PlanRecords

ReplayIDs == <<2, 1, 2, 2>>
ReplayValues == <<"a", "a", "b", "a">>

DistinctIDs == <<3, 2, 1>>
DistinctValues == <<"a", "a", "a">>

OnePlan == [c \in {"start", "control", "bare"} |-> "plan"]
Calling == [x \in {"start", "bare"} |-> x]

=============================================================================
