------------------------------ MODULE MCStepPlan ------------------------------
(* Instances of StepPlan for TLC.                                          *)
EXTENDS StepPlan

ClassOf == <<"build", "emulator", "indexer", "build">>

Step(id, deps) == [id |-> id, deps |-> deps, class |-> ClassOf[id], sound |-> TRUE]

(* Three steps, pushed in any order, with any dependencies: also on        *)
(* themselves and on the fourth, which the plan does not have.             *)
ThreeSteps ==
    {<<Step(2, d2), Step(1, d1), Step(3, d3)>> : d1, d2, d3 \in SUBSET (1 .. 4)}
        \cup {<<Step(3, d3), Step(1, d1), Step(2, d2)>> : d1, d2, d3 \in SUBSET (1 .. 3)}

(* Four steps whose dependencies are chosen among the other three.         *)
Others(id) == SUBSET ((1 .. 4) \ {id})
FourSteps ==
    {<<Step(4, d4), Step(2, d2), Step(3, d3), Step(1, d1)>> :
        d1 \in Others(1), d2 \in Others(2), d3 \in Others(3), d4 \in Others(4)}

(* A repeated identifier and a malformed one.                              *)
Malformed == {<<Step(1, {}), Step(1, {})>>, <<[Step(1, {}) EXCEPT !.sound = FALSE]>>}

(* The thresholds of the policy and both sides of its memory bounds.       *)
MCConditions ==
    [profile : {"low", "balanced"}, pressure : {999, 1000, 5000}, battery : BOOLEAN,
     memory : {4096}]
        \cup [profile : {"standard", "workstation"}, pressure : {0}, battery : BOOLEAN,
              memory : {1, 100, 16384}]

Chain == <<Step(1, {2}), Step(2, {3}), Step(3, {})>>

(* Every plan in one condition, and one plan in every condition.           *)
MCCalls ==
    ((ThreeSteps \cup FourSteps \cup Malformed)
        \X {[profile |-> "low", pressure |-> 999, battery |-> FALSE, memory |-> 4096]})
    \cup {Chain} \X MCConditions
=============================================================================
