------------------------------ MODULE MCProvision ------------------------------
(***************************************************************************)
(* Provision behind its planner, for TLC.  The planner answers each caller *)
(* from the request alone, so that one caller asks it anything; once a     *)
(* Start is accepted the service runs, and later callers start any of the  *)
(* plans below.                                                            *)
(***************************************************************************)
EXTENDS Provision, ProvisionPlanner

CONSTANTS
    blue, green,        \* two pinned environment images
    floating            \* one that is not

Op(id, image) == [id |-> id, image |-> image]

Pulled(image) ==
    [ids |-> <<"rust", "node">>, ops |-> <<Op("rust", image), Op("node", image)>>,
     external |-> FALSE]

(* Two environments from either of two images, one of them together with   *)
(* an external item, an external item alone, and an application.           *)
SomePlans ==
    {Pulled(blue), Pulled(green),
     [ids |-> <<"rust", "codex">>, ops |-> <<Op("rust", blue)>>, external |-> TRUE],
     [ids |-> <<"codex">>, ops |-> <<>>, external |-> TRUE],
     [ids |-> <<"chrome">>, ops |-> <<AddRemote, Op("chrome", NoImage)>>, external |-> FALSE]}

ComposedInit == Init /\ PlannerInit

Asking == PlannerNext /\ UNCHANGED vars

(* The call is over.                                                       *)
Over ==
    /\ place = "answered" /\ place' = "over"
    /\ request' = None /\ position' = 1 /\ error' = "none"
    /\ selected' = <<>> /\ estimate' = 0 /\ operations' = <<>> /\ external' = <<>>

(* It was a Start that was accepted, for one of the plans, ...             *)
Began ==
    /\ Over
    /\ Planned /\ request.consent /\ PlanMade \in Plans
    /\ Start(PlanMade)

(* ... or it was refused, or a Plan call.                                  *)
Left == Over /\ UNCHANGED vars

Running ==
    /\ place = "over"
    /\ Next
    /\ UNCHANGED plannerVars

ComposedNext == Asking \/ Began \/ Left \/ Running

Composed == ComposedInit /\ [][ComposedNext]_<<vars, plannerVars>>

FairComposed == Composed /\ \A r \in Requests : WF_vars(Worker(r))
=============================================================================
