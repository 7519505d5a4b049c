----------------------------- MODULE EraseContract -----------------------------
(***************************************************************************)
(* What the installer promises its clients about one irreversible step.    *)
(* A job is open, then either withdrawn by a client or committed to the    *)
(* storage boundary, never both; only a committed job overwrites a disk;   *)
(* and one job is under way at a time.  A restart forgets all jobs.        *)
(***************************************************************************)
CONSTANT Jobs

VARIABLES
    stage,   \* where each job stands
    wiped    \* the jobs that have overwritten a disk

contractVars == <<stage, wiped>>

UnderWay(j) == stage[j] \in {"open", "withdrawn", "committed"}

ContractInit ==
    /\ stage = [j \in Jobs |-> "unborn"]
    /\ wiped = {}

Move(j, from, to) ==
    /\ stage[j] \in from
    /\ stage' = [stage EXCEPT ![j] = to]
    /\ UNCHANGED wiped

Open(j) == (\A k \in Jobs : ~UnderWay(k)) /\ Move(j, {"unborn"}, "open")

Withdraw(j) == Move(j, {"open"}, "withdrawn")

Commit(j) == Move(j, {"open"}, "committed")

Wipe(j) ==
    /\ stage[j] = "committed"
    /\ wiped' = wiped \cup {j}
    /\ UNCHANGED stage

Close(j) == Move(j, {"open", "withdrawn", "committed"}, "closed")

Restart ==
    /\ stage' = [j \in Jobs |-> "unborn"]
    /\ wiped' = {}

ContractNext ==
    \/ \E j \in Jobs : Open(j) \/ Withdraw(j) \/ Commit(j) \/ Wipe(j) \/ Close(j)
    \/ Restart

ContractSpec == ContractInit /\ [][ContractNext]_contractVars
=============================================================================
