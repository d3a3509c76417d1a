--------------------------- MODULE MCPlanWorkflow ---------------------------
(***************************************************************************)
(* Small plans for model checking PlanWorkflow.                            *)
(***************************************************************************)
EXTENDS PlanWorkflow

Edge(a, b, trigger) == [from |-> a, to |-> b, on |-> trigger]
Msg(t, n) == [type |-> t, node |-> n]

NoMessages == {}
AllTrue == {[nodes |-> {}, edges |-> {}]}

NoEdges == {}
ChainEdges == {Edge(1, 2, "success")}

\* Two roots that compete for the capacity and a node that joins them.
JoinEdges == {Edge(1, 3, "success"), Edge(2, 3, "complete")}
JoinAll == [n \in Nodes |-> "all"]
JoinAny == [n \in Nodes |-> "any"]
JoinConditions ==
    {[nodes |-> N, edges |-> D] :
        N \in {{}, {3}}, D \in SUBSET JoinEdges}

\* Nodes 2 and 3, which node 1 proposes, come before node 4, which is there
\* already and which node 3 waits for.
ExpansionEdges == {Edge(1, 2, "success"), Edge(1, 3, "success"), Edge(4, 3, "always")}

CancelMessages == {Msg("cancel", 1)}
ControlMessages == {Msg("pause", 1), Msg("cancel", 1), Msg("forward", 1)}
ApprovalMessages ==
    {Msg("pause", 1), Msg("resume", 1), Msg("approve", 1), Msg("reject", 1), Msg("retry", 1)}

OneDelta == [n \in Nodes |-> IF n = 1 THEN {2, 3} ELSE {}]

NoDelta == [n \in Nodes |-> {}]
OneAttempt == [n \in Nodes |-> 1]
TwoAtFour == [n \in Nodes |-> IF n = 4 THEN 2 ELSE 1]
TwoAttempts == [n \in Nodes |-> IF n = 1 THEN 2 ELSE 1]

=============================================================================
