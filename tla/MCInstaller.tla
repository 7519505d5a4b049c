------------------------------ MODULE MCInstaller ------------------------------
(* Instances of Installer for TLC.                                         *)
EXTENDS Installer, TLC

(* Every disk has a phrase of its own.                                     *)
DistinctPhrases == [d \in Disks |-> d]

(* No disk and no device name is special.                                  *)
Renamings == {f @@ g : f \in Permutations(Devices), g \in Permutations(Disks)}

(* The view of the run with two disks: everything the program is in, and   *)
(* the history of the job that runs.  What its properties ask of a job is  *)
(* over when the job is, and they do not ask who was told of a cancel.     *)
PresentHistory ==
    <<{x \in erased : Running(x[1])},
      [j \in {i \in Jobs : Running(i)} |-> consent[j]],
      swapped>>

WithoutPast == <<svcVars, workVars, clientVars, worldVars, PresentHistory>>
=============================================================================
