---------------------------- MODULE MCAutopilotBuild ----------------------------
(* Small plans for `avs create`, for TLC. *)
EXTENDS AutopilotBuild

Same == [t \in Tasks |-> 1]
Apart == [t \in Tasks |-> t]
Chain == [t \in Tasks |-> {u \in Tasks : u + 1 = t}]
Reverse == [t \in Tasks |-> {u \in Tasks : u = t + 1}]
Fork == [t \in Tasks |-> IF t = 1 THEN {} ELSE {1}]
Loop == [t \in Tasks |-> Tasks]
Old == [t \in Tasks |-> "old"]
Mixed == [t \in Tasks |-> IF t = 1 THEN "old" ELSE "new"]

\* One plan in the planner's order.
OnePlan == {[deps |-> Chain, lane |-> Same, title |-> Old]}
\* A re-plan that turns the order round and renames all but the first task,
\* and one that dag_check refuses.
TwoPlans == OnePlan \cup {[deps |-> Reverse, lane |-> Same, title |-> Mixed],
                         [deps |-> Loop, lane |-> Same, title |-> Old]}
\* One task that unblocks the others, in lanes of their own or in one lane.
ForkPlan == {[deps |-> Fork, lane |-> Apart, title |-> Old],
             [deps |-> Fork, lane |-> Same, title |-> Old]}
=============================================================================
