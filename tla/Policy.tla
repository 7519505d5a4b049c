-------------------------------- MODULE Policy --------------------------------
(***************************************************************************)
(* The resource policy of shared/core: how many workers a class of work    *)
(* may use on a machine in a given condition, and the memory settings of   *)
(* its scope.  A snapshot is a record of                                   *)
(*   profile    the machine's profile                                      *)
(*   pressure   the greatest ten-second PSI average, in 1/1000 per cent    *)
(*   battery    a battery is present and the machine known to be off mains *)
(*   memory     the total memory, in units of which a MiB has MiB          *)
(***************************************************************************)
EXTENDS Naturals, FiniteSetsExt

CONSTANTS
    MiB,         \* a mebibyte, in the units of memory
    Conditions   \* conditions the machine may be in, snapshots

ASSUME MiBAssumption == MiB \in Nat \ {0}

MachineProfile == {"low", "balanced", "standard", "workstation"}

WorkloadClass == {"interactive", "build", "indexer", "emulator", "cache"}

ResourceSnapshot ==
    [profile : MachineProfile, pressure : Nat, battery : BOOLEAN, memory : Nat]

ASSUME ConditionsAssumption == Conditions \subseteq ResourceSnapshot

(* HardwareCapacity::initial_profile: the lower of the two dimensions.     *)
InitialProfile(cpus, memory) ==
    CASE cpus <= 2 \/ memory <= 4096 * MiB -> "low"
      [] cpus > 2 /\ memory > 4096 * MiB /\ (cpus <= 4 \/ memory <= 8192 * MiB) -> "balanced"
      [] cpus > 4 /\ memory > 8192 * MiB /\ (cpus <= 8 \/ memory <= 16384 * MiB) -> "standard"
      [] OTHER -> "workstation"

Contention == 1000
SevereContention == 5000

(* Interactive and cache work have one worker everywhere; the others a     *)
(* number for each profile.                                                *)
PerProfile(low, balanced, standard, workstation) ==
    [low |-> low, balanced |-> balanced, standard |-> standard, workstation |-> workstation]

BaseWorkers(profile, class) ==
    CASE class \in {"interactive", "cache"} -> 1
      [] class = "build" -> PerProfile(1, 2, 4, 8)[profile]
      [] class = "indexer" -> PerProfile(1, 1, 2, 4)[profile]
      [] class = "emulator" -> PerProfile(0, 1, 1, 2)[profile]

Protection(class) ==
    CASE class = "interactive" -> "protected"
      [] class \in {"build", "indexer"} -> "normal"
      [] class \in {"emulator", "cache"} -> "reclaimable"

(* div_ceil(2).max(1)                                                      *)
Halved(workers) == Max({(workers + 1) \div 2, 1})

UnderPressure(pressure, class, workers) ==
    CASE pressure < Contention -> workers
      [] pressure >= Contention /\ class = "emulator" -> 0
      [] pressure >= SevereContention /\ class # "emulator" -> 1
      [] OTHER -> Halved(workers)

OnBattery(battery, class, workers) ==
    CASE battery /\ class = "build" -> Halved(workers)
      [] battery /\ class = "emulator" -> 0
      [] OTHER -> workers

(* workload_budget: interactive work keeps its base.  (The last rule, no   *)
(* emulator on a low machine, is in the base already.)                     *)
Workers(snapshot, class) ==
    LET base == BaseWorkers(snapshot.profile, class) IN
    IF class = "interactive" THEN base
    ELSE OnBattery(snapshot.battery, class, UnderPressure(snapshot.pressure, class, base))

Deferred(snapshot, class) == Workers(snapshot, class) = 0

(* Mutant: the floor is not limited by what the machine has.               *)
ClampedFloor(total, divisor, floor, ceiling) ==
    Min({Max({total \div divisor, floor}), ceiling})

ClampedBudget(total, divisor, floor, ceiling) ==
    Min({Max({total \div divisor, Min({floor, total})}), Min({ceiling, total})})

(* workload_scope: the memory settings systemd is given; an absent one is  *)
(* an empty set.                                                           *)
MemoryLow(total, class) ==
    IF Protection(class) = "protected"
    THEN {ClampedBudget(total, 8, 64 * MiB, 512 * MiB)} ELSE {}

MemoryHigh(total, class) ==
    IF Protection(class) = "reclaimable"
    THEN {ClampedBudget(total, 2, 256 * MiB, 2048 * MiB)} ELSE {}

MemoryMax(total, class) ==
    IF class = "emulator" THEN {ClampedBudget(total, 2, 256 * MiB, 4096 * MiB)} ELSE {}
=============================================================================
