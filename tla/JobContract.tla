------------------------------ MODULE JobContract ------------------------------
(***************************************************************************)
(* What the job registry promises its callers about one job identifier: it *)
(* moves from queued to running to one final verdict, never back; it is    *)
(* cancelled only if somebody asked; and a verdict of the program itself   *)
(* is given only once the complete record of this very run is stored.      *)
(***************************************************************************)
CONSTANT Jobs

VARIABLES
    phase,    \* what Status answers for each identifier
    asked,    \* identifiers whose cancellation was requested
    stored    \* identifiers whose record is complete and of this run

contractVars == <<phase, asked, stored>>

ContractInit ==
    /\ phase = [j \in Jobs |-> "unknown"]
    /\ asked = {}
    /\ stored = {}

Move(j, from, to) ==
    /\ phase[j] = from
    /\ phase' = [phase EXCEPT ![j] = to]

Accept(j) == Move(j, "unknown", "queued") /\ UNCHANGED <<asked, stored>>

(* No thread could be had for the job.                                     *)
Drop(j) == Move(j, "queued", "unknown") /\ asked' = asked \ {j} /\ UNCHANGED stored

Begin(j) == Move(j, "queued", "running") /\ UNCHANGED <<asked, stored>>

Ask(j) ==
    /\ phase[j] # "unknown"
    /\ asked' = asked \cup {j}
    /\ UNCHANGED <<phase, stored>>

Store(j) ==
    /\ phase[j] = "running"
    /\ stored' = stored \cup {j}
    /\ UNCHANGED <<phase, asked>>

Finish(j, verdict) ==
    /\ verdict = "cancelled" => j \in asked
    /\ verdict \in {"succeeded", "cancelled"} => j \in stored
    /\ Move(j, "running", verdict)
    /\ UNCHANGED <<asked, stored>>

Restart ==
    /\ phase' = [j \in Jobs |-> "unknown"]
    /\ asked' = {}
    /\ stored' = {}

ContractNext ==
    \/ \E j \in Jobs :
          \/ Accept(j) \/ Drop(j) \/ Begin(j) \/ Ask(j) \/ Store(j)
          \/ \E verdict \in {"succeeded", "failed", "cancelled"} : Finish(j, verdict)
    \/ Restart

ContractSpec == ContractInit /\ [][ContractNext]_contractVars
=============================================================================
