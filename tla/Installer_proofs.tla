--------------------------- MODULE Installer_proofs ---------------------------
(* Theorems about Installer, for any clients, disks, devices and MaxJob.   *)
EXTENDS Installer, TLAPS

(***************************************************************************)
(* Type correctness.                                                       *)
(***************************************************************************)

(* The values of a daemon that has seen no disk yet.                       *)
LEMMA NothingType ==
    /\ NoDisk \in [id : Disks \cup {None}, device : Devices \cup {None}]
    /\ <<>> \in Seq(Disks)
  <1>1. NoDisk \in [id : Disks \cup {None}, device : Devices \cup {None}]
    BY DEF NoDisk
  <1>2. <<>> \in Seq(Disks)
    OBVIOUS
  <1>3. QED
    BY <1>1, <1>2

LEMMA InitType == Init => TypeOK
  <1> SUFFICES ASSUME Init PROVE TypeOK
    OBVIOUS
  <1>1. /\ state \in InstallerState
        /\ workerActive \in BOOLEAN /\ bus \in BOOLEAN
        /\ told \subseteq Paths /\ inUse \subseteq Disks
    BY DEF Init, InstallerState
  <1>5. jobPath \in Paths /\ nextJob \in 1 .. MaxJob
    BY MaxJobAssumption DEF Init, Paths
  <1>2. /\ preflight \in [id : Disks \cup {None}, device : Devices \cup {None}]
        /\ mounts \in Seq(Disks)
    BY NothingType DEF Init
  <1>3. /\ pc \in [Jobs -> Steps] /\ storage \in [Jobs -> BOOLEAN]
        /\ target \in [Jobs -> Disks \cup {None}]
        /\ dev \in [Jobs -> Devices \cup {None}]
        /\ consent \in [Jobs -> Disks \cup {None}]
        /\ erased \subseteq Jobs \X Disks /\ swapped \subseteq Disks
    BY DEF Init, Steps
  <1>4. /\ reviewed \in [Clients -> Disks \cup {None}]
        /\ starting \in [Clients -> Disks \cup {None}]
        /\ device \in [Disks -> Devices \cup {None}]
        /\ content \in [Disks -> {"original", "blank", "deployed", "configured",
                                  "bootable"}]
    BY DEF Init
  <1>6. QED
    BY <1>1, <1>2, <1>3, <1>4, <1>5 DEF TypeOK

(* Handlers keep the types.                                                *)
LEMMA HandlerType ==
    ASSUME TypeOK, NEW c \in Clients
    PROVE  /\ \A d \in Disks : Preflight(c, d) => TypeOK'
           /\ StartCalled(c) => TypeOK'
           /\ StartRefused(c) => TypeOK'
           /\ StartAccepted(c) => TypeOK'
           /\ StartNotSpawned(c) => TypeOK'
           /\ StartExhausted(c) => TypeOK'
  <1> USE MaxJobAssumption
          DEF TypeOK, InstallerState, Paths, Jobs, Steps,
              svcVars, workVars, clientVars, worldVars, histVars
  <1>1. ASSUME NEW d \in Disks, Preflight(c, d) PROVE TypeOK'
    BY <1>1 DEF Preflight, Present
  <1>2. ASSUME StartCalled(c) PROVE TypeOK'
    BY <1>2 DEF StartCalled
  <1>3. ASSUME StartRefused(c) PROVE TypeOK'
    BY <1>3 DEF StartRefused, Answered
  <1>4. ASSUME StartAccepted(c) PROVE TypeOK'
    BY <1>4 DEF StartAccepted, StartPassed, Answered, CounterLeft
  <1>5. ASSUME StartNotSpawned(c) PROVE TypeOK'
    BY <1>5 DEF StartNotSpawned, StartPassed, Answered, CounterLeft
  <1>6. ASSUME StartExhausted(c) PROVE TypeOK'
    BY <1>6 DEF StartExhausted, StartPassed, Answered, CounterLeft
  <1>7. QED
    BY <1>1, <1>2, <1>3, <1>4, <1>5, <1>6

LEMMA CancelType ==
    ASSUME TypeOK, NEW p \in Paths, Cancel(p)
    PROVE  TypeOK'
  BY DEF Cancel, TypeOK, InstallerState, workVars, clientVars, worldVars

(* One step of a worker: the tools that move mounts and contents, the      *)
(* lifecycle moves, and the steps that only move the program counter.      *)
LEMMA FailType ==
    ASSUME TypeOK, NEW j \in Jobs, NEW step, Fail(j, step)
    PROVE  TypeOK'
  BY DEF Fail, Goto, TypeOK, Steps, svcVars, clientVars, worldVars, histVars

LEMMA UnmountType ==
    ASSUME TypeOK, NEW j \in Jobs, NEW step, NEW next \in Steps, Unmount(j, step, next)
    PROVE  TypeOK'
  BY DEF Unmount, Goto, TypeOK, svcVars, clientVars, histVars

LEMMA TransitionType ==
    ASSUME TypeOK, NEW j \in Jobs, NEW step, NEW to \in InstallerState, NEW next \in Steps,
           Transition(j, step, to, next)
    PROVE  TypeOK'
  <1>1. pc' = [pc EXCEPT ![j] = IF CanTransition(state, to) THEN next ELSE "failed"]
    BY DEF Transition, Goto
  <1>2. pc' \in [Jobs -> Steps]
    BY <1>1 DEF TypeOK, Steps
  <1>3. state' \in InstallerState
    BY DEF Transition, TypeOK
  <1>4. QED
    BY <1>2, <1>3 DEF Transition, TypeOK, clientVars, worldVars, histVars

LEMMA WorkType ==
    ASSUME TypeOK, NEW j \in Jobs, NEW step, NEW next \in Steps,
           NEW result \in {"deployed", "configured", "bootable"},
           Work(j, step, result, next)
    PROVE  TypeOK'
  <1>1. CASE Fail(j, step)
    BY <1>1, FailType
  <1>2. CASE ~Fail(j, step)
    <2>1. content' = [content EXCEPT ![Head(mounts)] = result]
      BY <1>2 DEF Work
    <2>2. content' \in [Disks -> {"original", "blank", "deployed", "configured",
                                 "bootable"}]
      BY <2>1 DEF TypeOK
    <2>3. QED
      BY <1>2, <2>2 DEF Work, Goto, TypeOK, svcVars, clientVars, histVars
  <1>3. QED
    BY <1>1, <1>2

LEMMA PrepareType ==
    ASSUME TypeOK, Targeted, NEW j \in Jobs
    PROVE  /\ ResolveTarget(j) => TypeOK'
           /\ PartitionTarget(j) => TypeOK'
           /\ MountTarget(j) => TypeOK'
  <1> USE DEF TypeOK, Steps, Goto, svcVars, clientVars, worldVars, histVars
  <1>1. ASSUME ResolveTarget(j) PROVE TypeOK'
    <2>1. CASE Fail(j, "resolve")
      BY <2>1, FailType
    <2>2. CASE ~Fail(j, "resolve")
      <3>1. Running(j) /\ dev' = [dev EXCEPT ![j] = device[target[j]]]
        BY <1>1, <2>2 DEF ResolveTarget, TargetDevice, Running
      <3>2. dev' \in [Jobs -> Devices \cup {None}]
        BY <3>1 DEF Targeted
      <3>3. QED
        BY <1>1, <2>2, <3>2 DEF ResolveTarget
    <2>3. QED
      BY <2>1, <2>2
  <1>2. ASSUME PartitionTarget(j) PROVE TypeOK'
    <2>1. CASE Fail(j, "erase")
      BY <2>1, FailType
    <2>2. CASE ~Fail(j, "erase")
      BY <1>2, <2>2 DEF PartitionTarget, Overwrite, At
    <2>3. QED
      BY <2>1, <2>2
  <1>3. ASSUME MountTarget(j) PROVE TypeOK'
    <2>1. CASE Fail(j, "mount")
      BY <2>1, FailType
    <2>2. CASE ~Fail(j, "mount")
      <3>1. PICK d \in At(dev[j]), next \in {"deploying", "failed"} :
              /\ Goto(j, "mount", next)
              /\ Overwrite(j, d)
              /\ mounts' = <<d>> \o mounts
              /\ UNCHANGED <<svcVars, target, dev, storage, clientVars, device, inUse,
                             bus, told, consent, swapped>>
        BY <1>3, <2>2 DEF MountTarget
      <3>2. d \in Disks
        BY DEF At
      <3>3. mounts' \in Seq(Disks)
        BY <3>1, <3>2
      <3>4. QED
        BY <3>1, <3>2, <3>3 DEF Overwrite
    <2>3. QED
      BY <2>1, <2>2
  <1>4. QED
    BY <1>1, <1>2, <1>3

(* The steps of Worker that have no lemma of their own.                    *)
LEMMA OtherType ==
    ASSUME TypeOK, NEW j \in Jobs
    PROVE  /\ VerifyPayload(j) => TypeOK'
           /\ RevalidateAndTransition(j) => TypeOK'
           /\ UnmountTarget(j) => TypeOK'
           /\ AnnounceComplete(j) => TypeOK'
           /\ InspectFailure(j) => TypeOK'
           /\ CleanUp(j) => TypeOK'
           /\ RecordFailure(j) => TypeOK'
           /\ ReleaseWorker(j) => TypeOK'
  <1>1. ASSUME VerifyPayload(j) PROVE TypeOK'
    BY <1>1 DEF VerifyPayload, Goto, TypeOK, Steps, svcVars, clientVars, worldVars, histVars
  <1>2. ASSUME RevalidateAndTransition(j) PROVE TypeOK'
    <2>1. CASE Fail(j, "revalidate")
      BY <2>1, FailType
    <2>2. CASE ~Fail(j, "revalidate")
      BY <1>2, <2>2 DEF RevalidateAndTransition, Goto, TypeOK, Steps, InstallerState,
                        clientVars, worldVars, histVars
    <2>3. QED
      BY <2>1, <2>2
  <1>3. ASSUME UnmountTarget(j) PROVE TypeOK'
    BY <1>3, FailType, UnmountType, "completing" \in Steps DEF UnmountTarget, Steps
  <1>4. ASSUME AnnounceComplete(j) PROVE TypeOK'
    <2>1. CASE Fail(j, "announce")
      BY <2>1, FailType
    <2>2. CASE ~Fail(j, "announce")
      BY <1>4, <2>2 DEF AnnounceComplete, Goto, TypeOK, Steps, svcVars, clientVars,
                        worldVars, histVars
    <2>3. QED
      BY <2>1, <2>2
  <1>5. ASSUME InspectFailure(j) PROVE TypeOK'
    BY <1>5 DEF InspectFailure, AfterFailure, Goto, TypeOK, Steps, svcVars, clientVars,
                worldVars, histVars
  <1>6. ASSUME CleanUp(j) PROVE TypeOK'
    <2>1. CASE Unmount(j, "cleanup", "record")
      BY <2>1, UnmountType, "record" \in Steps DEF Steps
    <2>2. CASE ~Unmount(j, "cleanup", "record")
      BY <1>6, <2>2 DEF CleanUp, Goto, TypeOK, Steps, svcVars, clientVars, worldVars, histVars
    <2>3. QED
      BY <2>1, <2>2
  <1>7. ASSUME RecordFailure(j) PROVE TypeOK'
    BY <1>7 DEF RecordFailure, Goto, TypeOK, Steps, InstallerState, clientVars, worldVars,
                histVars
  <1>8. ASSUME ReleaseWorker(j) PROVE TypeOK'
    BY <1>8 DEF ReleaseWorker, Goto, TypeOK, Steps, clientVars, worldVars, histVars
  <1>9. QED
    BY <1>1, <1>2, <1>3, <1>4, <1>5, <1>6, <1>7, <1>8

LEMMA WorkerType ==
    ASSUME TypeOK, Targeted, NEW j \in Jobs, Worker(j)
    PROVE  TypeOK'
  <1> USE DEF Steps, InstallerState
  <1>1. ASSUME NEW step, NEW to \in InstallerState, NEW next \in Steps,
               Transition(j, step, to, next)
        PROVE  TypeOK'
    BY <1>1, TransitionType
  <1>2. ASSUME NEW step, NEW next \in Steps,
               NEW result \in {"deployed", "configured", "bootable"},
               Work(j, step, result, next)
        PROVE  TypeOK'
    BY <1>2, WorkType
  <1>3. CASE \/ Transition(j, "deploying", "deploying", "deploy")
             \/ Transition(j, "configuring", "deploying", "configure")
             \/ Transition(j, "finalizing", "finalizing", "finalize")
             \/ Transition(j, "completing", "complete", "announce")
    BY <1>1, <1>3
  <1>4. CASE \/ Work(j, "deploy", "deployed", "configuring")
             \/ Work(j, "configure", "configured", "finalizing")
             \/ Work(j, "finalize", "bootable", "unmount")
    BY <1>2, <1>4
  <1>5. CASE Fail(j, "verify")
    BY <1>5, FailType
  <1>6. QED
    BY <1>3, <1>4, <1>5, OtherType, PrepareType DEF Worker

LEMMA MachineType ==
    ASSUME TypeOK
    PROVE  /\ \A d \in Disks : Replug(d) \/ Automount(d) => TypeOK'
           /\ BusLost => TypeOK'
           /\ Crash => TypeOK'
  <1>1. ASSUME NEW d \in Disks, Replug(d) PROVE TypeOK'
    BY <1>1 DEF Replug, Present, TypeOK, svcVars, workVars, clientVars, histVars
  <1>2. ASSUME NEW d \in Disks, Automount(d) PROVE TypeOK'
    BY <1>2 DEF Automount, TypeOK, svcVars, workVars, clientVars, histVars
  <1>3. ASSUME BusLost PROVE TypeOK'
    BY <1>3 DEF BusLost, TypeOK, svcVars, workVars, clientVars, histVars
  <1>4. ASSUME Crash PROVE TypeOK'
    <2>1. /\ mounts' \in Seq(Disks)
          /\ preflight' \in [id : Disks \cup {None}, device : Devices \cup {None}]
      BY <1>4, NothingType DEF Crash
    <2>2. jobPath' \in Paths /\ nextJob' \in 1 .. MaxJob
      BY <1>4, MaxJobAssumption DEF Crash, Paths
    <2>3. /\ state' \in InstallerState
          /\ workerActive' \in BOOLEAN /\ bus' \in BOOLEAN
          /\ told' \subseteq Paths /\ erased' \subseteq Jobs \X Disks
          /\ swapped' \subseteq Disks
      BY <1>4 DEF Crash, InstallerState
    <2>4. /\ pc' \in [Jobs -> Steps] /\ storage' \in [Jobs -> BOOLEAN]
          /\ target' \in [Jobs -> Disks \cup {None}]
          /\ dev' \in [Jobs -> Devices \cup {None}]
          /\ consent' \in [Jobs -> Disks \cup {None}]
          /\ starting' \in [Clients -> Disks \cup {None}]
      BY <1>4 DEF Crash, Steps
    <2>5. QED
      BY <1>4, <2>1, <2>2, <2>3, <2>4 DEF Crash, TypeOK
  <1>5. QED
    BY <1>1, <1>2, <1>3, <1>4

LEMMA TypeStep == TypeOK /\ Targeted /\ [Next]_vars => TypeOK'
  <1> SUFFICES ASSUME TypeOK, Targeted, [Next]_vars
               PROVE  TypeOK'
    OBVIOUS
  <1>1. CASE UNCHANGED vars
    BY <1>1 DEF vars, svcVars, workVars, clientVars, worldVars, histVars, TypeOK
  <1>2. CASE Next
    BY <1>2, HandlerType, CancelType, WorkerType, MachineType DEF Next
  <1>3. QED
    BY <1>1, <1>2
-----------------------------------------------------------------------------
(***************************************************************************)
(* What a worker's step leaves alone.                                      *)
(***************************************************************************)

(* The variables only handlers, the machine and a crash change.            *)
Untouched ==
    UNCHANGED <<preflight, jobPath, nextJob, target, reviewed, starting, device, inUse,
                told, consent, swapped>>

(* A worker moves only its own program counter and its own storage flag.   *)
OwnStep(j) ==
    /\ pc'[j] # "none"
    /\ \A k \in Jobs : k # j => pc'[k] = pc[k] /\ storage'[k] = storage[k]

LEMMA FailFrame ==
    ASSUME NEW j \in Jobs, NEW step, TypeOK, Fail(j, step)
    PROVE  Untouched /\ OwnStep(j)
  BY DEF Fail, Goto, TypeOK, Untouched, OwnStep, svcVars, clientVars, worldVars, histVars

LEMMA WorkerFrame ==
    ASSUME TypeOK, NEW j \in Jobs, Worker(j)
    PROVE  Running(j) /\ Untouched /\ OwnStep(j)
  <1> USE DEF Goto, Untouched, OwnStep, Steps, svcVars, workVars, clientVars, worldVars,
              histVars
  <1>1. /\ pc \in [Jobs -> Steps] /\ storage \in [Jobs -> BOOLEAN]
        /\ \A step : Fail(j, step) => Untouched /\ OwnStep(j)
    BY FailFrame DEF TypeOK
  <1>2. Running(j)
    BY DEF Worker, VerifyPayload, Fail, RevalidateAndTransition, ResolveTarget,
           PartitionTarget, MountTarget, Transition, Work, UnmountTarget, Unmount,
           AnnounceComplete, InspectFailure, CleanUp, RecordFailure, ReleaseWorker, Running
  <1>3. ASSUME NEW step, NEW next \in Steps \ {"none"}, Unmount(j, step, next)
        PROVE  Untouched /\ OwnStep(j)
    BY <1>1, <1>3 DEF Unmount
  <1>4. ASSUME NEW step, NEW to, NEW next \in Steps \ {"none"}, Transition(j, step, to, next)
        PROVE  Untouched /\ OwnStep(j)
    BY <1>1, <1>4 DEF Transition
  <1>5. ASSUME NEW step, NEW result, NEW next \in Steps \ {"none"},
               Work(j, step, result, next)
        PROVE  Untouched /\ OwnStep(j)
    BY <1>1, <1>5 DEF Work
  <1>6. ASSUME VerifyPayload(j) \/ InspectFailure(j) \/ RecordFailure(j) \/ ReleaseWorker(j)
        PROVE  Untouched /\ OwnStep(j)
    BY <1>1, <1>6 DEF VerifyPayload, InspectFailure, AfterFailure, RecordFailure,
                      ReleaseWorker
  <1>7. ASSUME RevalidateAndTransition(j) \/ ResolveTarget(j) \/ AnnounceComplete(j)
        PROVE  Untouched /\ OwnStep(j)
    BY <1>1, <1>7 DEF RevalidateAndTransition, ResolveTarget, AnnounceComplete
  <1>8. ASSUME PartitionTarget(j) \/ MountTarget(j)
        PROVE  Untouched /\ OwnStep(j)
    BY <1>1, <1>8 DEF PartitionTarget, MountTarget
  <1>9. ASSUME UnmountTarget(j) \/ CleanUp(j)
        PROVE  Untouched /\ OwnStep(j)
    BY <1>1, <1>3, <1>9 DEF UnmountTarget, CleanUp
  <1>10. ASSUME Fail(j, "verify")
        PROVE  Untouched /\ OwnStep(j)
    BY <1>1, <1>10
  <1>11. ASSUME \/ Transition(j, "deploying", "deploying", "deploy")
              \/ Transition(j, "configuring", "deploying", "configure")
              \/ Transition(j, "finalizing", "finalizing", "finalize")
              \/ Transition(j, "completing", "complete", "announce")
        PROVE  Untouched /\ OwnStep(j)
    BY <1>4, <1>11
  <1>12. ASSUME \/ Work(j, "deploy", "deployed", "configuring")
              \/ Work(j, "configure", "configured", "finalizing")
              \/ Work(j, "finalize", "bootable", "unmount")
        PROVE  Untouched /\ OwnStep(j)
    BY <1>5, <1>12
  <1>13. QED
    BY <1>2, <1>6, <1>7, <1>8, <1>9, <1>10, <1>11, <1>12 DEF Worker

(* A worker gives the slot up exactly when it ends.                        *)
LEMMA WorkerSlot ==
    ASSUME NEW j \in Jobs, Worker(j), TypeOK, pc'[j] # "done"
    PROVE  workerActive' = workerActive
  <1>1. CASE ReleaseWorker(j)
    BY <1>1 DEF ReleaseWorker, Goto, TypeOK
  <1>2. CASE ~ReleaseWorker(j)
    BY <1>2 DEF Worker, VerifyPayload, Fail, RevalidateAndTransition, ResolveTarget,
        PartitionTarget, MountTarget, Transition, Work, UnmountTarget, Unmount,
        AnnounceComplete, InspectFailure, CleanUp, RecordFailure, svcVars
  <1>3. QED
    BY <1>1, <1>2

(***************************************************************************)
(* The inductive invariant.                                                *)
(***************************************************************************)

Safe == Targeted /\ SlotHeld /\ Numbered /\ Boundary /\ Recorded

LEMMA InitSafe == Init => Safe
  <1> SUFFICES ASSUME Init PROVE Safe
    OBVIOUS
  <1>1. \A j \in Jobs : ~Running(j) /\ pc[j] = "none"
    BY DEF Init, Running
  <1>2. Numbered
    BY <1>1 DEF Init, Numbered
  <1>3. QED
    BY <1>1, <1>2 DEF Init, Safe, Targeted, SlotHeld, Boundary, Recorded

(* Steps that change neither the service nor a worker.                     *)
LEMMA SafeStutter ==
    ASSUME Safe, UNCHANGED <<svcVars, workVars, told, erased>>
    PROVE  Safe'
  BY DEF Safe, Targeted, SlotHeld, Numbered, Boundary, Recorded, Running, svcVars, workVars

(* Handlers: while the slot is free no worker runs, so Preflight and the   *)
(* starts only have to provide for the job they create.                    *)
LEMMA PreflightSafe ==
    ASSUME TypeOK, Safe, NEW c \in Clients, NEW d \in Disks, Preflight(c, d)
    PROVE  Safe'
  <1>1. \A j \in Jobs : ~Running(j)
    BY DEF Preflight, NoWorker, Safe, SlotHeld
  <1>2. /\ \A j \in Jobs : ~Running(j)'
        /\ preflight'.id \in Disks
    BY <1>1 DEF Preflight, Running, workVars
  <1>3. Numbered'
    BY DEF Safe, Numbered, Preflight, workVars, histVars
  <1>4. Recorded'
    BY <1>2 DEF Safe, Recorded, Running, Preflight, workVars, histVars
  <1>5. QED
    BY <1>2, <1>3, <1>4 DEF Safe, Targeted, SlotHeld, Boundary

(* No job ever had the number the next one gets.                           *)
LEMMA FreshNumber ==
    ASSUME TypeOK, Safe, CounterLeft
    PROVE  /\ nextJob \in Jobs
           /\ pc[nextJob] = "none"
           /\ nextJob \notin told
           /\ \A x \in erased : x[1] # nextJob
  <1>1. nextJob \in Jobs
    BY MaxJobAssumption DEF CounterLeft, TypeOK, Jobs
  <1>2. pc[nextJob] = "none"
    BY <1>1 DEF Safe, Numbered, TypeOK, Jobs
  <1>3. nextJob \notin told
    BY DEF CounterLeft, Safe, Numbered, TypeOK, Paths
  <1>4. QED
    BY <1>1, <1>2, <1>3 DEF Safe, Recorded

LEMMA StartAcceptedSafe ==
    ASSUME TypeOK, Safe, NEW c \in Clients, StartAccepted(c)
    PROVE  Safe'
  <1>1. \A j \in Jobs : ~Running(j)
    BY DEF StartAccepted, StartPassed, Startable, NoWorker, Safe, SlotHeld
  <1>2. /\ nextJob \in Jobs /\ pc[nextJob] = "none" /\ nextJob \notin told
        /\ \A x \in erased : x[1] # nextJob
    BY FreshNumber DEF StartAccepted
  <1>3. \A j \in Jobs : j # nextJob =>
            pc'[j] = pc[j] /\ ~Running(j)' /\ target'[j] = target[j]
    BY <1>1, <1>2 DEF StartAccepted, TypeOK, Running
  <1>4. /\ pc'[nextJob] = "verify" /\ ~storage'[nextJob] /\ target'[nextJob] = preflight.id
        /\ jobPath' = nextJob /\ workerActive' /\ preflight' = preflight
        /\ nextJob' = nextJob + 1 /\ told' = told /\ erased' = erased
    BY <1>2 DEF StartAccepted, StartPassed, TypeOK
  <1>5. preflight.id \in Disks
    BY DEF StartAccepted, StartPassed, Confirmed, Safe, Targeted
  <1>6. Targeted'
    BY <1>3, <1>4, <1>5 DEF Targeted
  <1>7. SlotHeld'
    BY <1>3, <1>4 DEF SlotHeld
  <1>8. Numbered'
    <2>1. nextJob \in Nat /\ MaxJob \in Nat /\ \A j \in Jobs : j \in Nat
      BY MaxJobAssumption DEF TypeOK, Jobs
    <2>2. \A j \in Jobs : pc'[j] # "none" => j < nextJob'
      BY <1>3, <1>4, <2>1 DEF Safe, Numbered
    <2>3. nextJob' < MaxJob' => jobPath' < nextJob' /\ \A p \in told' : p < nextJob'
      <3>1. nextJob < MaxJob /\ \A p \in told : p \in Nat
        BY DEF StartAccepted, CounterLeft, TypeOK, Paths
      <3>2. QED
        BY <1>4, <2>1, <3>1 DEF Safe, Numbered
    <2>4. QED
      BY <2>2, <2>3 DEF Numbered
  <1>9. Boundary'
    BY <1>2, <1>3, <1>4 DEF Boundary
  <1>10. Recorded'
    <2>1. \A x \in erased : x[1] \in Jobs
      BY DEF TypeOK
    <2>2. QED
      BY <1>2, <1>3, <1>4, <2>1 DEF Safe, Recorded
  <1>11. QED
    BY <1>6, <1>7, <1>8, <1>9, <1>10 DEF Safe

LEMMA StartFailedSafe ==
    ASSUME TypeOK, Safe, NEW c \in Clients, StartNotSpawned(c) \/ StartExhausted(c)
    PROVE  Safe'
  <1>1. \A j \in Jobs : ~Running(j)
    BY DEF StartNotSpawned, StartExhausted, StartPassed, Startable, NoWorker, Safe, SlotHeld
  <1>2. UNCHANGED <<preflight, pc, target, storage, told, erased>>
    BY DEF StartNotSpawned, StartExhausted, StartPassed
  <1>3. \A j \in Jobs : ~Running(j)'
    BY <1>1, <1>2 DEF Running
  <1>4. Numbered'
    <2>1. nextJob \in Nat /\ MaxJob \in Nat /\ \A j \in Jobs : j \in Nat
      BY MaxJobAssumption DEF TypeOK, Jobs
    <2>2. \A p \in told : p \in Nat
      BY DEF TypeOK, Paths
    <2>3. CASE StartNotSpawned(c)
      BY <1>2, <2>1, <2>2, <2>3
         DEF StartNotSpawned, StartPassed, CounterLeft, Safe, Numbered
    <2>4. CASE StartExhausted(c)
      BY <1>2, <2>1, <2>2, <2>4
         DEF StartExhausted, StartPassed, CounterLeft, Safe, Numbered
    <2>5. QED
      BY <2>3, <2>4
  <1>5. Targeted' /\ SlotHeld' /\ Boundary'
    BY <1>2, <1>3 DEF Safe, Targeted, SlotHeld, Boundary
  <1>7. Recorded'
    BY <1>2 DEF Safe, Recorded, Running
  <1>6. QED
    BY <1>4, <1>5, <1>7 DEF Safe

(* A cancel is accepted before the storage boundary only, and the guard of *)
(* the boundary stays closed behind it.                                    *)
LEMMA CancelSafe ==
    ASSUME TypeOK, Safe, NEW p \in Paths, Cancel(p)
    PROVE  Safe'
  <1>1. /\ state \notin Irrevocable /\ state' = "cancelled"
        /\ UNCHANGED <<preflight, jobPath, nextJob, workerActive, pc, target, storage, erased>>
        /\ told' = told \cup {jobPath}
    BY DEF Cancel, IsCancellable, Irrevocable, workVars
  <1>2. \A j \in Jobs : Running(j)' => Running(j) /\ ~storage[j]
    BY <1>1 DEF Running, Safe, Boundary
  <1>3. Boundary'
    BY <1>1, <1>2 DEF Safe, Boundary
  <1>4. Targeted' /\ SlotHeld' /\ Numbered' /\ Recorded'
    BY <1>1 DEF Safe, Targeted, SlotHeld, Numbered, Recorded, Running
  <1>5. QED
    BY <1>3, <1>4 DEF Safe

LEMMA CrashSafe == ASSUME Crash PROVE Safe'
  <1>1. \A j \in Jobs : ~Running(j)' /\ pc'[j] = "none"
    BY DEF Crash, Running
  <1>2. Numbered'
    BY <1>1 DEF Crash, Numbered
  <1>3. QED
    BY <1>1, <1>2 DEF Crash, Safe, Targeted, SlotHeld, Boundary, Recorded

(* The worker's own step, on the conjunct about the storage boundary.  Its *)
(* lifecycle moves start from a state past the boundary, or cross it.      *)
OwnBoundary(j) ==
    /\ storage[j] => j \notin told /\ state \in Irrevocable
    /\ storage[j] \/ pc[j] \in {"verify", "revalidate", "failed", "record", "release"}
    /\ pc[j] \in {"verify", "revalidate"} /\ j \in told => state = "cancelled"

LEMMA FailBoundary ==
    ASSUME TypeOK, NEW j \in Jobs, NEW step, OwnBoundary(j), Fail(j, step)
    PROVE  OwnBoundary(j)'
  BY DEF OwnBoundary, Fail, Goto, TypeOK, svcVars, histVars

LEMMA WorkerBoundary ==
    ASSUME TypeOK, NEW j \in Jobs, OwnBoundary(j), Worker(j), pc'[j] # "done"
    PROVE  OwnBoundary(j)'
  <1> USE DEF Goto, OwnBoundary, Irrevocable, TypeOK, svcVars, workVars, histVars
  <1>1. \A step : Fail(j, step) => OwnBoundary(j)'
    BY FailBoundary
  <1>2. ASSUME VerifyPayload(j) PROVE OwnBoundary(j)'
    BY <1>2 DEF VerifyPayload
  <1>3. ASSUME RevalidateAndTransition(j) PROVE OwnBoundary(j)'
    BY <1>1, <1>3 DEF RevalidateAndTransition, MayErase, CanTransition
  <1>4. ASSUME ResolveTarget(j) \/ PartitionTarget(j) \/ MountTarget(j) PROVE OwnBoundary(j)'
    BY <1>1, <1>4 DEF ResolveTarget, PartitionTarget, MountTarget, Overwrite
  <1>5. ASSUME NEW step \in {"deploying", "configuring", "finalizing", "completing"},
               NEW to \in {"deploying", "finalizing", "complete"}, NEW next,
               Transition(j, step, to, next)
        PROVE  OwnBoundary(j)'
    <2>1. storage[j] /\ storage' = storage /\ told' = told
      BY <1>5 DEF Transition
    <2>2. state' \in {state, to}
      BY <1>5 DEF Transition
    <2>3. pc' = [pc EXCEPT ![j] = IF CanTransition(state, to) THEN next ELSE "failed"]
      BY <1>5 DEF Transition
    <2>4. QED
      BY <1>5, <2>1, <2>2, <2>3
  <1>6. ASSUME NEW step \in {"deploy", "configure", "finalize"}, NEW result, NEW next,
               Work(j, step, result, next)
        PROVE  OwnBoundary(j)'
    <2>1. CASE Fail(j, step)
      BY <1>1, <2>1
    <2>2. CASE ~Fail(j, step)
      <3>1. storage[j] /\ storage' = storage /\ told' = told /\ state' = state
        BY <1>6, <2>2 DEF Work
      <3>2. QED
        BY <3>1
    <2>3. QED
      BY <2>1, <2>2
  <1>7. ASSUME UnmountTarget(j) \/ CleanUp(j) PROVE OwnBoundary(j)'
    BY <1>1, <1>7 DEF UnmountTarget, CleanUp, Unmount
  <1>8. ASSUME AnnounceComplete(j) \/ InspectFailure(j) PROVE OwnBoundary(j)'
    BY <1>1, <1>8 DEF AnnounceComplete, InspectFailure, AfterFailure
  <1>9. ASSUME RecordFailure(j) PROVE OwnBoundary(j)'
    BY <1>9 DEF RecordFailure
  <1>10. ASSUME ReleaseWorker(j) PROVE OwnBoundary(j)'
    BY <1>10 DEF ReleaseWorker
  <1>11. ASSUME \/ Transition(j, "deploying", "deploying", "deploy")
                \/ Transition(j, "configuring", "deploying", "configure")
                \/ Transition(j, "finalizing", "finalizing", "finalize")
                \/ Transition(j, "completing", "complete", "announce")
         PROVE  OwnBoundary(j)'
    BY <1>5, <1>11
  <1>12. ASSUME \/ Work(j, "deploy", "deployed", "configuring")
                \/ Work(j, "configure", "configured", "finalizing")
                \/ Work(j, "finalize", "bootable", "unmount")
         PROVE  OwnBoundary(j)'
    BY <1>6, <1>12
  <1>13. ASSUME Fail(j, "verify") PROVE OwnBoundary(j)'
    BY <1>1, <1>13
  <1>14. QED
    BY <1>2, <1>3, <1>4, <1>7, <1>8, <1>9, <1>10, <1>11, <1>12, <1>13 DEF Worker

(* Only the tools of prepare_target overwrite a disk, and only past the    *)
(* storage boundary.                                                       *)
LEMMA WorkerErases ==
    ASSUME TypeOK, NEW j \in Jobs, OwnBoundary(j), Worker(j)
    PROVE  \/ erased' = erased
           \/ /\ pc[j] \in {"erase", "mount"} /\ storage[j] /\ storage'[j]
              /\ \E d \in At(dev[j]) : erased' = erased \cup {<<j, d>>}
  <1>1. ASSUME PartitionTarget(j) \/ MountTarget(j), erased' # erased
        PROVE  /\ pc[j] \in {"erase", "mount"} /\ storage[j] /\ storage'[j]
               /\ \E d \in At(dev[j]) : erased' = erased \cup {<<j, d>>}
    BY <1>1 DEF PartitionTarget, MountTarget, Overwrite, Goto, Fail, OwnBoundary, histVars
  <1>2. ASSUME ~PartitionTarget(j), ~MountTarget(j) PROVE erased' = erased
    BY <1>2 DEF Worker, VerifyPayload, Fail, RevalidateAndTransition, ResolveTarget,
        Transition, Work, UnmountTarget, Unmount, AnnounceComplete, InspectFailure, CleanUp,
        RecordFailure, ReleaseWorker, histVars
  <1>3. QED
    BY <1>1, <1>2

LEMMA WorkerSafe ==
    ASSUME TypeOK, Safe, NEW j \in Jobs, Worker(j)
    PROVE  Safe'
  <1>1. Running(j) /\ Untouched /\ OwnStep(j)
    BY WorkerFrame
  <1>2. OwnBoundary(j)
    BY <1>1 DEF OwnBoundary, Safe, Boundary
  <1>3. \A k \in Jobs : k # j => ~Running(k) /\ ~Running(k)' /\ pc'[k] = pc[k]
    BY <1>1 DEF Safe, SlotHeld, OwnStep, Running
  <1>4. Running(j)' => workerActive' /\ OwnBoundary(j)'
    BY <1>1, <1>2, WorkerSlot, WorkerBoundary DEF Running, Safe, SlotHeld
  <1>5. Targeted'
    BY <1>1, <1>3 DEF Safe, Targeted, Untouched
  <1>6. SlotHeld'
    BY <1>1, <1>3, <1>4 DEF Safe, SlotHeld, Untouched
  <1>7. Numbered'
    BY <1>1, <1>3 DEF Safe, Numbered, Untouched, Running
  <1>8. Boundary'
    BY <1>3, <1>4 DEF Boundary, OwnBoundary
  <1>9. Recorded'
    <2>1. \A x \in erased' : x \in erased \/ (x[1] = j /\ storage'[j])
      BY <1>2, WorkerErases
    <2>2. \A x \in erased : x[1] \in Jobs /\ pc[x[1]] # "none"
      BY DEF TypeOK, Safe, Recorded
    <2>3. ASSUME NEW x \in erased, x[1] = j, Running(j)' PROVE storage'[j]
      <3>1. storage[j]
        BY <1>1, <2>3 DEF Safe, Recorded
      <3>2. pc'[j] # "done"
        BY <2>3 DEF Running
      <3>3. QED
        BY <3>1, <3>2 DEF Worker, VerifyPayload, Fail, RevalidateAndTransition,
            ResolveTarget, PartitionTarget, MountTarget, Transition, Work, UnmountTarget,
            Unmount, AnnounceComplete, InspectFailure, CleanUp, RecordFailure,
            ReleaseWorker, Goto, TypeOK
    <2>4. QED
      BY <1>1, <1>3, <2>1, <2>2, <2>3 DEF Recorded, OwnStep
  <1>10. QED
    BY <1>5, <1>6, <1>7, <1>8, <1>9 DEF Safe

LEMMA SafeStep == TypeOK /\ Safe /\ [Next]_vars => Safe'
  <1> SUFFICES ASSUME TypeOK, Safe, [Next]_vars PROVE Safe'
    OBVIOUS
  <1>1. ASSUME NEW c \in Clients, StartCalled(c) \/ StartRefused(c) PROVE Safe'
    BY <1>1, SafeStutter DEF StartCalled, StartRefused, histVars
  <1>2. ASSUME NEW d \in Disks, Replug(d) \/ Automount(d) PROVE Safe'
    BY <1>2, SafeStutter DEF Replug, Automount, histVars
  <1>3. CASE BusLost \/ UNCHANGED vars
    BY <1>3, SafeStutter DEF BusLost, vars, histVars
  <1>4. QED
    BY <1>1, <1>2, <1>3, PreflightSafe, StartAcceptedSafe, StartFailedSafe, CancelSafe,
       WorkerSafe, CrashSafe DEF Next

(* The inductive invariant holds of every reachable state.                 *)
THEOREM InductiveHolds == Spec => []Inductive
  <1>1. Init => Inductive
    BY InitType, InitSafe DEF Inductive, Safe
  <1>2. Inductive /\ [Next]_vars => Inductive'
    <2>1. Inductive <=> TypeOK /\ Safe
      BY DEF Inductive, Safe
    <2>2. Inductive' <=> TypeOK' /\ Safe'
      BY DEF Inductive, Safe
    <2>3. Safe => Targeted
      BY DEF Safe
    <2>4. QED
      BY <2>1, <2>2, <2>3, TypeStep, SafeStep
  <1>3. QED
    BY <1>1, <1>2, PTL DEF Spec

(* Every variable keeps its type, the job counter its bound.               *)
THEOREM TypeCorrect == Spec => []TypeOK
  <1>1. Inductive => TypeOK
    BY DEF Inductive
  <1>2. QED
    BY <1>1, InductiveHolds, PTL

(* Whatever clients cancel, retry or start at the same time, the worker    *)
(* slot admits one worker thread.                                          *)
THEOREM OneWorkerHolds == Spec => []OneWorker
  <1>1. Inductive => OneWorker
    BY DEF Inductive, SlotHeld, OneWorker
  <1>2. QED
    BY <1>1, InductiveHolds, PTL

(* A step overwrites a disk only as the worker of a job past the boundary. *)
LEMMA EraseStep ==
    ASSUME Inductive, Next
    PROVE  \/ erased' = erased
           \/ erased' = {}
           \/ \E j \in Jobs :
                 /\ Running(j) /\ storage[j] /\ storage'[j] /\ Worker(j)
                 /\ pc[j] \in {"erase", "mount"}
                 /\ \E d \in At(dev[j]) : erased' = erased \cup {<<j, d>>}
  <1>1. ASSUME NEW j \in Jobs, Worker(j)
        PROVE  \/ erased' = erased
               \/ /\ Running(j) /\ storage[j] /\ storage'[j] /\ Worker(j)
                  /\ pc[j] \in {"erase", "mount"}
                  /\ \E d \in At(dev[j]) : erased' = erased \cup {<<j, d>>}
    <2>1. Running(j)
      BY <1>1, WorkerFrame DEF Inductive
    <2>2. OwnBoundary(j)
      BY <2>1 DEF Inductive, Boundary, OwnBoundary
    <2>3. QED
      BY <1>1, <2>1, <2>2, WorkerErases DEF Inductive
  <1>2. ASSUME NEW c \in Clients, NEW d \in Disks, Preflight(c, d) PROVE erased' = erased
    BY <1>2 DEF Preflight, histVars
  <1>3. ASSUME NEW c \in Clients,
               \/ StartCalled(c) \/ StartRefused(c) \/ StartAccepted(c)
               \/ StartNotSpawned(c) \/ StartExhausted(c)
        PROVE  erased' = erased
    BY <1>3 DEF StartCalled, StartRefused, StartAccepted, StartNotSpawned, StartExhausted,
                StartPassed, histVars
  <1>4. ASSUME NEW p \in Paths, Cancel(p) PROVE erased' = erased
    BY <1>4 DEF Cancel
  <1>5. ASSUME NEW d \in Disks, Replug(d) \/ Automount(d) PROVE erased' = erased
    BY <1>5 DEF Replug, Automount, histVars
  <1>6. CASE BusLost \/ Crash
    BY <1>6 DEF BusLost, Crash, histVars
  <1>7. QED
    BY <1>1, <1>2, <1>3, <1>4, <1>5, <1>6 DEF Next

(* An accepted cancel is final: the job never overwrites a disk afterwards *)
(* although its worker runs on until the storage boundary.                 *)
THEOREM CancelFinal == Spec => NoEraseAfterCancel
  <1>1. Inductive /\ [Next]_vars => [\A x \in erased' \ erased : x[1] \notin told]_vars
    <2> SUFFICES ASSUME Inductive, Next, NEW x \in erased' \ erased
                 PROVE  x[1] \notin told
      OBVIOUS
    <2>1. PICK j \in Jobs : Running(j) /\ storage[j] /\
                            \E d \in At(dev[j]) : erased' = erased \cup {<<j, d>>}
      BY EraseStep
    <2>2. x[1] = j
      BY <2>1
    <2>3. QED
      BY <2>1, <2>2 DEF Inductive, Boundary
  <1>2. QED
    BY <1>1, InductiveHolds, PTL DEF Spec, NoEraseAfterCancel

(* A job announced as cancelled that ends up failed has overwritten no     *)
(* disk: the failure it records is one from before the storage boundary.   *)
THEOREM CancelledThenFailed == Spec => CancelledThenFailedUntouched
  <1> DEFINE Clean == \A d \in Disks : <<jobPath', d>> \notin erased'
  <1>1. ASSUME Inductive, Next, state = "cancelled", state' = "failed"
        PROVE  Clean
    <2>1. ASSUME NEW c \in Clients,
                 \/ \E d \in Disks : Preflight(c, d)
                 \/ StartCalled(c) \/ StartRefused(c)
                 \/ StartAccepted(c) \/ StartExhausted(c)
          PROVE  FALSE
      BY <1>1, <2>1 DEF Preflight, StartCalled, StartRefused, StartAccepted, StartExhausted,
                        svcVars
    <2>2. ASSUME NEW c \in Clients, StartNotSpawned(c) PROVE Clean
      <3>1. \A x \in erased : x[1] # nextJob
        BY <2>2, <1>1, FreshNumber DEF StartNotSpawned, Inductive, Safe
      <3>2. QED
        BY <2>2, <3>1 DEF StartNotSpawned, StartPassed
    <2>3. ASSUME NEW p \in Paths, Cancel(p) PROVE FALSE
      BY <1>1, <2>3 DEF Cancel
    <2>4. ASSUME NEW j \in Jobs, Worker(j) PROVE Clean
      <3>1. Running(j) /\ jobPath' = j
        BY <1>1, <2>4, WorkerFrame DEF Inductive, SlotHeld, Untouched
      <3>2. ~storage[j] /\ OwnBoundary(j)
        BY <1>1, <3>1 DEF Inductive, Boundary, Irrevocable, OwnBoundary
      <3>3. erased' = erased
        BY <1>1, <2>4, <3>2, WorkerErases DEF Inductive
      <3>4. QED
        BY <1>1, <3>1, <3>2, <3>3 DEF Inductive, Recorded
    <2>5. ASSUME NEW d \in Disks, Replug(d) \/ Automount(d) PROVE FALSE
      BY <1>1, <2>5 DEF Replug, Automount, svcVars
    <2>6. CASE BusLost \/ Crash
      BY <1>1, <2>6 DEF BusLost, Crash, svcVars
    <2>7. QED
      BY <1>1, <2>1, <2>2, <2>3, <2>4, <2>5, <2>6 DEF Next
  <1>2. Inductive /\ [Next]_vars => [state = "cancelled" /\ state' = "failed" => Clean]_vars
    BY <1>1
  <1>3. QED
    BY <1>2, InductiveHolds, PTL DEF Spec, CancelledThenFailedUntouched
-----------------------------------------------------------------------------
(***************************************************************************)
(* Where the tools of prepare_target write.  A device path belongs to one  *)
(* disk, and while the tools run a disk at their device is the target, or  *)
(* was plugged in there since.                                             *)
(***************************************************************************)

Unique == \A d, e \in Disks : Present(d) /\ device[d] = device[e] => d = e

Located ==
    \A j \in Jobs : pc[j] \in {"erase", "mount"} =>
        /\ dev[j] # None
        /\ \A d \in At(dev[j]) : d = target[j] \/ d \in swapped

Placed == Unique /\ Located

LEMMA InitPlaced == Init => Placed
  BY DEF Init, Placed, Unique, Located, Present

LEMMA ReplugPlaced ==
    ASSUME Inductive, Placed, NEW d \in Disks, Replug(d)
    PROVE  Placed'
  <1>1. Unique'
    BY DEF Replug, Present, At, Placed, Unique, Inductive, TypeOK
  <1>2. ASSUME NEW j \in Jobs, pc[j] \in {"erase", "mount"}, NEW e \in At(dev[j])'
        PROVE  e = target[j] \/ e \in swapped'
    <2>1. dev' = dev /\ target' = target /\ dev[j] # None /\ swapped \subseteq swapped'
      BY <1>2 DEF Replug, workVars, Placed, Located
    <2>2. e \in Disks /\ device'[e] = dev[j]
      BY <2>1 DEF At
    <2>3. CASE e # d
      <3>1. device'[e] = device[e]
        BY <2>2, <2>3 DEF Replug, Inductive, TypeOK
      <3>2. e \in At(dev[j])
        BY <2>2, <3>1 DEF At
      <3>3. QED
        BY <1>2, <2>1, <3>2 DEF Placed, Located
    <2>4. CASE e = d
      <3>1. device'[d] # None
        BY <2>1, <2>2, <2>4
      <3>2. PICK node \in Devices :
                /\ device' = [device EXCEPT ![d] = node]
                /\ swapped' = swapped \cup {f \in {d} : WrittenFor(f, node)}
        BY <3>1 DEF Replug, Inductive, TypeOK
      <3>3. node = dev[j]
        BY <2>2, <2>4, <3>2 DEF Inductive, TypeOK
      <3>4. target[j] # d => WrittenFor(d, node)
        BY <1>2, <3>3 DEF WrittenFor
      <3>5. QED
        BY <2>4, <3>2, <3>4
    <2>5. QED
      BY <2>3, <2>4
  <1>3. Located'
    BY <1>2 DEF Replug, Placed, Located, workVars
  <1>4. QED
    BY <1>1, <1>3 DEF Placed

(* Handlers and machine steps that leave devices and workers.              *)
LEMMA StillPlaced ==
    ASSUME Placed, UNCHANGED <<pc, target, dev, device, swapped>>
    PROVE  Placed'
  BY DEF Placed, Unique, Located, Present, At

LEMMA StartPlaced ==
    ASSUME Inductive, Placed, NEW c \in Clients, StartAccepted(c)
    PROVE  Placed'
  <1>1. nextJob \in Jobs /\ \A j \in Jobs : ~Running(j)
    BY FreshNumber
       DEF StartAccepted, StartPassed, Startable, NoWorker, Inductive, Safe, SlotHeld
  <1>2. pc'[nextJob] = "verify" /\ device' = device
    BY <1>1 DEF StartAccepted, StartPassed, Inductive, TypeOK, worldVars
  <1>3. \A j \in Jobs : j # nextJob => pc'[j] = pc[j]
    BY <1>1 DEF StartAccepted, Inductive, TypeOK
  <1>4. Unique'
    BY <1>2 DEF Placed, Unique, Present
  <1>5. Located'
    BY <1>1, <1>2, <1>3 DEF Located, Running
  <1>6. QED
    BY <1>4, <1>5 DEF Placed

LEMMA WorkerPlaced ==
    ASSUME Inductive, Placed, NEW j \in Jobs, Worker(j)
    PROVE  Placed'
  <1>1. Running(j) /\ Untouched /\ OwnStep(j)
    BY WorkerFrame DEF Inductive
  <1>2. \A k \in Jobs : k # j => ~Running(k) /\ pc'[k] = pc[k]
    BY <1>1 DEF Inductive, SlotHeld, OwnStep, Running
  <1>3. Unique'
    BY <1>1 DEF Placed, Unique, Present, Untouched
  <1>4. pc'[j] \in {"erase", "mount"} => ResolveTarget(j) \/ PartitionTarget(j)
    BY DEF Worker, VerifyPayload, Fail, RevalidateAndTransition, MountTarget, Transition,
           Work, UnmountTarget, Unmount, AnnounceComplete, InspectFailure, AfterFailure,
           CleanUp, RecordFailure, ReleaseWorker, Goto, Inductive, TypeOK
  <1> DEFINE Own == /\ dev'[j] # None
                    /\ \A d \in At(dev[j])' : d = target'[j] \/ d \in swapped'
  <1>5. ASSUME PartitionTarget(j), pc'[j] \in {"erase", "mount"} PROVE Own
    <2>1. pc[j] = "erase" /\ dev' = dev
      BY <1>5 DEF PartitionTarget, Fail, Goto, Inductive, TypeOK
    <2>2. UNCHANGED <<device, target, swapped>>
      BY <1>1 DEF Untouched
    <2>3. QED
      BY <2>1, <2>2 DEF Placed, Located, At
  <1>6. ASSUME ResolveTarget(j), pc'[j] \in {"erase", "mount"} PROVE Own
    <2>1. Present(target[j]) /\ dev'[j] = device[target[j]]
      BY <1>6 DEF ResolveTarget, TargetDevice, Fail, Goto, Inductive, TypeOK
    <2>2. target[j] \in Disks /\ UNCHANGED <<device, target, swapped>>
      BY <1>1 DEF Untouched, Inductive, Targeted
    <2>3. ASSUME NEW d \in At(dev[j])' PROVE d = target[j]
      <3>1. d \in Disks /\ device[d] = device[target[j]]
        BY <2>1, <2>2 DEF At
      <3>2. QED
        BY <2>1, <2>2, <3>1 DEF Placed, Unique, Present
    <2>4. QED
      BY <2>1, <2>2, <2>3 DEF Present
  <1>7. Located'
    BY <1>2, <1>4, <1>5, <1>6 DEF Located, Running
  <1>8. QED
    BY <1>3, <1>7 DEF Placed

LEMMA CrashPlaced == ASSUME Placed, Crash PROVE Placed'
  <1>1. \A j \in Jobs : pc'[j] = "none"
    BY DEF Crash
  <1>2. QED
    BY <1>1 DEF Crash, Placed, Unique, Located, Present

LEMMA PlacedStep == Inductive /\ Placed /\ [Next]_vars => Placed'
  <1> SUFFICES ASSUME Inductive, Placed, [Next]_vars PROVE Placed'
    OBVIOUS
  <1>1. ASSUME NEW c \in Clients,
               \/ \E d \in Disks : Preflight(c, d)
               \/ StartCalled(c) \/ StartRefused(c)
               \/ StartNotSpawned(c) \/ StartExhausted(c)
        PROVE  Placed'
    BY <1>1, StillPlaced DEF Preflight, StartCalled, StartRefused, StartNotSpawned,
       StartExhausted, StartPassed, workVars, worldVars, histVars
  <1>2. ASSUME NEW p \in Paths, Cancel(p) PROVE Placed'
    BY <1>2, StillPlaced DEF Cancel, workVars, worldVars
  <1>3. ASSUME NEW d \in Disks, Automount(d) PROVE Placed'
    BY <1>3, StillPlaced DEF Automount, workVars, histVars
  <1>4. CASE BusLost \/ UNCHANGED vars
    BY <1>4, StillPlaced DEF BusLost, vars, workVars, worldVars, histVars
  <1>5. QED
    BY <1>1, <1>2, <1>3, <1>4, StartPlaced, WorkerPlaced, ReplugPlaced, CrashPlaced DEF Next

LEMMA PlacedHolds == Spec => []Placed
  BY PlacedStep, InitPlaced, InductiveHolds, PTL DEF Spec

(* What the tools find at the resolved device.                             *)
LEMMA TargetIsAtDevice ==
    ASSUME Placed, NEW j \in Jobs, pc[j] \in {"erase", "mount"}, NEW d \in At(dev[j])
    PROVE  d = target[j] \/ d \in swapped
  BY DEF Placed, Located

(***************************************************************************)
(* A disk that is erased is one that was confirmed.                        *)
(***************************************************************************)

(* The target of a running job has the phrase its starter typed.           *)
Agreed == \A j \in Jobs : Running(j) => Phrase[consent[j]] = Phrase[target[j]]

LEMMA InitAgreed == Init => Agreed
  BY DEF Init, Agreed, Running

(* Handlers and machine steps that leave the workers alone.                *)
LEMMA StillAgreed ==
    ASSUME Agreed, UNCHANGED <<pc, target, consent>>
    PROVE  Agreed'
  BY DEF Agreed, Running

(* A start binds the new job to the remembered disk, whose phrase was      *)
(* typed.                                                                  *)
LEMMA StartAgreed ==
    ASSUME Inductive, Agreed, NEW c \in Clients, StartAccepted(c)
    PROVE  Agreed'
  <1>1. nextJob \in Jobs
    BY FreshNumber DEF StartAccepted, Inductive, Safe
  <1>2. Phrase[starting[c]] = Phrase[preflight.id]
    BY DEF StartAccepted, StartPassed, Confirmed
  <1>3. consent'[nextJob] = starting[c] /\ target'[nextJob] = preflight.id
    BY <1>1 DEF StartAccepted, Inductive, TypeOK
  <1>4. \A j \in Jobs : j # nextJob =>
            pc'[j] = pc[j] /\ target'[j] = target[j] /\ consent'[j] = consent[j]
    BY <1>1 DEF StartAccepted, Inductive, TypeOK
  <1>5. QED
    BY <1>2, <1>3, <1>4 DEF Agreed, Running

LEMMA WorkerAgreed ==
    ASSUME Inductive, Agreed, NEW j \in Jobs, Worker(j)
    PROVE  Agreed'
  <1>1. Running(j) /\ Untouched /\ OwnStep(j)
    BY WorkerFrame DEF Inductive
  <1>2. QED
    BY <1>1 DEF Agreed, Running, Untouched, OwnStep

LEMMA CrashAgreed == ASSUME Crash PROVE Agreed'
  BY DEF Crash, Agreed, Running

LEMMA AgreedStep == Inductive /\ Agreed /\ [Next]_vars => Agreed'
  <1> SUFFICES ASSUME Inductive, Agreed, [Next]_vars PROVE Agreed'
    OBVIOUS
  <1>1. ASSUME NEW c \in Clients,
               \/ \E d \in Disks : Preflight(c, d)
               \/ StartCalled(c) \/ StartRefused(c)
               \/ StartNotSpawned(c) \/ StartExhausted(c)
        PROVE  Agreed'
    BY <1>1, StillAgreed DEF Preflight, StartCalled, StartRefused, StartNotSpawned,
       StartExhausted, StartPassed, workVars, histVars
  <1>2. ASSUME NEW p \in Paths, Cancel(p) PROVE Agreed'
    BY <1>2, StillAgreed DEF Cancel, workVars
  <1>3. ASSUME NEW d \in Disks, Replug(d) \/ Automount(d) PROVE Agreed'
    BY <1>3, StillAgreed DEF Replug, Automount, workVars, histVars
  <1>4. CASE BusLost \/ UNCHANGED vars
    BY <1>4, StillAgreed DEF BusLost, vars, workVars, histVars
  <1>5. QED
    BY <1>1, <1>2, <1>3, <1>4, StartAgreed, WorkerAgreed, CrashAgreed DEF Next

(* Whatever other clients preflight, whatever disks are replugged and      *)
(* whichever disks share a phrase: a job overwrites a disk only if its     *)
(* phrase is the one its starter typed, or if the disk was plugged in      *)
(* where the tools of that job were already writing.                       *)
THEOREM ConsentHolds == Spec => ErasesConsented
  <1> DEFINE Fine == \A x \in erased' \ erased :
                        Phrase[x[2]] = Phrase[consent[x[1]]] \/ x[2] \in swapped
  <1>1. ASSUME Inductive, Placed, Agreed, Next PROVE Fine
    <2> SUFFICES ASSUME NEW x \in erased' \ erased
                 PROVE  Phrase[x[2]] = Phrase[consent[x[1]]] \/ x[2] \in swapped
      OBVIOUS
    <2>1. PICK j \in Jobs : /\ Running(j) /\ pc[j] \in {"erase", "mount"}
                            /\ \E d \in At(dev[j]) : erased' = erased \cup {<<j, d>>}
      BY <1>1, EraseStep
    <2>2. PICK d \in At(dev[j]) : x = <<j, d>>
      BY <2>1
    <2>3. d = target[j] \/ d \in swapped
      BY <1>1, <2>1, TargetIsAtDevice
    <2>4. QED
      BY <1>1, <2>1, <2>2, <2>3 DEF Agreed
  <1>2. Inductive /\ Placed /\ Agreed /\ [Next]_vars => [Fine]_vars
    BY <1>1
  <1>3. QED
    BY <1>2, AgreedStep, InitAgreed, InductiveHolds, PlacedHolds, PTL
       DEF Spec, ErasesConsented
-----------------------------------------------------------------------------
(***************************************************************************)
(* "Complete" means bootable: what stands on TARGET_ROOT is the target,    *)
(* from its mount to its unmount; nothing is mounted there twice; and once *)
(* the guard was asked to complete, the target is finished and no step of  *)
(* any worker touches it before the state is left.  All this as long as no *)
(* disk was plugged in where the tools of the current job were writing.    *)
(***************************************************************************)

MountDone ==
    {"deploying", "deploy", "configuring", "configure", "finalizing", "finalize", "unmount"}

AfterComplete == {"announce", "failed", "cleanup", "record", "release"}

Finished(d) == content[d] = "bootable" /\ d \notin Mounted

Once == \A i, k \in 1 .. Len(mounts) : mounts[i] = mounts[k] => i = k

OnTarget(j) ==
    /\ pc[j] \in MountDone => mounts # <<>> /\ Head(mounts) = target[j]
    /\ pc[j] = "unmount" => content[target[j]] = "bootable"
    /\ pc[j] \in {"completing", "announce"} => Finished(target[j])

Quiet == \A j \in Jobs : Running(j) => pc[j] \in AfterComplete

Booting ==
    /\ Once
    /\ \A j \in Jobs : OnTarget(j)
    /\ state = "complete" => Finished(target[jobPath]) /\ Quiet

Undisturbed == Once /\ (swapped = {} => Booting)

LEMMA MountsFacts ==
    ASSUME TypeOK
    PROVE  /\ Len(mounts) \in Nat
           /\ \A i \in 1 .. Len(mounts) : mounts[i] \in Disks
           /\ Mounted \subseteq Disks
  BY DEF TypeOK, Mounted

(* A mount on top of the others.                                           *)
LEMMA MountFacts ==
    ASSUME TypeOK, Once, NEW d \in Disks, d \notin Mounted, mounts' = <<d>> \o mounts
    PROVE  Once' /\ mounts' # <<>> /\ Head(mounts') = d
  <1>1. /\ mounts \in Seq(Disks) /\ <<d>> \in Seq(Disks)
        /\ Len(mounts) \in Nat
    BY DEF TypeOK
  <1>2. Len(mounts') = Len(mounts) + 1 /\ mounts' \in Seq(Disks)
    BY <1>1
  <1>3. mounts'[1] = d /\ \A i \in 2 .. Len(mounts') : mounts'[i] = mounts[i - 1]
    BY <1>1
  <1>4. \A i \in 1 .. Len(mounts) : mounts[i] # d
    BY DEF Mounted
  <1>5. Once'
    BY <1>1, <1>2, <1>3, <1>4 DEF Once
  <1>6. QED
    BY <1>2, <1>3, <1>5

(* Taking the latest mount away leaves no other mount of that disk.        *)
LEMMA UnmountFacts ==
    ASSUME TypeOK, Once, mounts # <<>>, mounts' = Tail(mounts)
    PROVE  Once' /\ Mounted' \subseteq Mounted /\ Head(mounts) \notin Mounted'
  <1>1. mounts \in Seq(Disks) /\ Len(mounts) \in Nat /\ Len(mounts) >= 1
    BY DEF TypeOK
  <1>2. /\ Len(mounts') = Len(mounts) - 1
        /\ \A i \in 1 .. Len(mounts') : mounts'[i] = mounts[i + 1]
        /\ Head(mounts) = mounts[1]
    BY <1>1
  <1>3. Once'
    BY <1>1, <1>2 DEF Once
  <1>4. ASSUME NEW d \in Mounted' PROVE d \in Mounted /\ d # Head(mounts)
    <2>1. PICK i \in 1 .. Len(mounts') : d = mounts'[i]
      BY DEF Mounted
    <2>2. i + 1 \in 1 .. Len(mounts) /\ d = mounts[i + 1] /\ i + 1 # 1
      BY <1>1, <1>2, <2>1
    <2>3. d \in Mounted
      BY <2>2 DEF Mounted
    <2>4. QED
      BY <1>1, <1>2, <2>2, <2>3 DEF Once
  <1>5. QED
    BY <1>3, <1>4

(* Nothing of what the invariant speaks of changes.                        *)
LEMMA StillBooting ==
    ASSUME Booting, UNCHANGED <<pc, target, mounts, content>>,
           (state' = state /\ jobPath' = jobPath) \/ state' # "complete"
    PROVE  Booting'
  <1>1. Once' /\ \A j \in Jobs : OnTarget(j)'
    BY DEF Booting, Once, OnTarget, Finished, Mounted
  <1>2. state' = "complete" => Finished(target[jobPath])' /\ Quiet'
    BY DEF Booting, Finished, Mounted, Quiet, Running
  <1>3. QED
    BY <1>1, <1>2 DEF Booting

(* A new job starts with no disk swapped under it.                         *)
LEMMA StartBooting ==
    ASSUME Inductive, Once, NEW c \in Clients, StartAccepted(c)
    PROVE  Booting'
  <1>1. nextJob \in Jobs /\ \A j \in Jobs : ~Running(j)
    BY FreshNumber
       DEF StartAccepted, StartPassed, Startable, NoWorker, Inductive, Safe, SlotHeld
  <1>2. /\ pc'[nextJob] = "verify" /\ state' = "preparing"
        /\ UNCHANGED <<mounts, content>>
    BY <1>1 DEF StartAccepted, StartPassed, Inductive, TypeOK, worldVars
  <1>3. \A j \in Jobs : j # nextJob => pc'[j] = pc[j]
    BY <1>1 DEF StartAccepted, Inductive, TypeOK
  <1>4. \A j \in Jobs : pc'[j] \in {"none", "verify", "done"}
    BY <1>1, <1>2, <1>3 DEF Running
  <1>5. \A j \in Jobs : OnTarget(j)'
    BY <1>4 DEF OnTarget, MountDone
  <1>6. QED
    BY <1>2, <1>5 DEF Booting, Once

(* What a worker may do to the target, and when the invariant survives it. *)
LEMMA OwnBooting ==
    ASSUME Inductive, Booting, NEW j \in Jobs, Worker(j),
           Once', OnTarget(j)',
           state' = "complete" => Finished(target[j])' /\ pc'[j] \in AfterComplete \cup {"done"}
    PROVE  Booting'
  <1>1. Running(j) /\ Untouched /\ OwnStep(j)
    BY WorkerFrame DEF Inductive
  <1>2. \A k \in Jobs : k # j => ~Running(k) /\ pc'[k] = pc[k]
    BY <1>1 DEF Inductive, SlotHeld, OwnStep, Running
  <1>3. jobPath' = j
    BY <1>1 DEF Inductive, SlotHeld, Untouched
  <1>4. \A k \in Jobs : OnTarget(k)'
    BY <1>2 DEF OnTarget, Running, MountDone
  <1>5. state' = "complete" => Finished(target[jobPath])' /\ Quiet'
    BY <1>2, <1>3 DEF Quiet, Running
  <1>6. QED
    BY <1>4, <1>5 DEF Booting

(* Steps that neither write nor mount: the target stays finished.          *)
LEMMA CalmStep ==
    ASSUME Inductive, Booting, NEW j \in Jobs, Worker(j),
           UNCHANGED <<mounts, content>>,
           OnTarget(j)',
           state' = "complete" => pc'[j] \in AfterComplete \cup {"done"},
           state' = "complete" => state = "complete" \/ pc[j] = "completing"
    PROVE  Booting'
  <1>1. Running(j) /\ target' = target
    BY WorkerFrame DEF Inductive, Untouched
  <1>2. jobPath = j
    BY <1>1 DEF Inductive, SlotHeld
  <1>3. state' = "complete" => Finished(target[j])'
    BY <1>1, <1>2 DEF Booting, OnTarget, Finished, Mounted
  <1>4. Once'
    BY DEF Booting, Once
  <1>5. QED
    BY <1>3, <1>4, OwnBooting

LEMMA FailBooting ==
    ASSUME Inductive, Booting, NEW j \in Jobs, NEW step, Worker(j), Fail(j, step)
    PROVE  Booting'
  <1>1. pc'[j] = "failed" /\ UNCHANGED <<state, mounts, content>>
    BY DEF Fail, Goto, Inductive, TypeOK, svcVars, worldVars
  <1>2. OnTarget(j)'
    BY <1>1 DEF OnTarget, MountDone
  <1>3. QED
    BY <1>1, <1>2, CalmStep DEF AfterComplete

LEMMA UnmountBooting ==
    ASSUME Inductive, Booting, NEW j \in Jobs, Worker(j),
           \/ Unmount(j, "unmount", "completing")
           \/ Unmount(j, "cleanup", "record")
    PROVE  Booting'
  <1>1. Running(j) /\ target' = target
    BY WorkerFrame DEF Inductive, Untouched
  <1>2. jobPath = j
    BY <1>1 DEF Inductive, SlotHeld
  <1>3. Once' /\ Mounted' \subseteq Mounted /\ Head(mounts) \notin Mounted'
    BY UnmountFacts DEF Unmount, Inductive, Booting
  <1>4. content' = content /\ state' = state
    BY DEF Unmount, svcVars
  <1>5. OnTarget(j)'
    BY <1>1, <1>3, <1>4 DEF Unmount, Goto, Inductive, TypeOK, Booting, OnTarget, Finished,
                            MountDone
  <1>6. state' = "complete" => Finished(target[j])' /\ pc'[j] \in AfterComplete \cup {"done"}
    <2> SUFFICES ASSUME state = "complete"
                 PROVE  Finished(target[j])' /\ pc'[j] \in AfterComplete \cup {"done"}
      BY <1>4
    <2>1. Finished(target[j]) /\ pc[j] \in AfterComplete
      BY <1>1, <1>2 DEF Booting, Quiet
    <2>2. pc'[j] = "record"
      BY <2>1 DEF AfterComplete, Unmount, Goto, Inductive, TypeOK
    <2>3. QED
      BY <1>1, <1>3, <1>4, <2>1, <2>2 DEF Finished, AfterComplete
  <1>7. QED
    BY <1>3, <1>5, <1>6, OwnBooting

(* Past the storage boundary and before the guard is asked to complete, no *)
(* state reads "complete".                                                 *)
LEMMA NotComplete ==
    ASSUME Booting, NEW j \in Jobs, Running(j), pc[j] \notin AfterComplete
    PROVE  state # "complete"
  BY DEF Booting, Quiet

LEMMA PrepareBooting ==
    ASSUME Inductive, Placed, Booting, swapped = {}, NEW j \in Jobs,
           PartitionTarget(j) \/ MountTarget(j)
    PROVE  Booting'
  <1>1. Worker(j) /\ Running(j) /\ target' = target
    BY WorkerFrame DEF Inductive, Untouched, Worker
  <1>2. CASE Fail(j, "erase") \/ Fail(j, "mount")
    BY <1>1, <1>2, FailBooting
  <1>3. CASE PartitionTarget(j) /\ ~Fail(j, "erase")
    <2>1. /\ pc[j] = "erase" /\ pc'[j] \in {"mount", "failed"}
          /\ UNCHANGED <<state, mounts>>
      BY <1>3 DEF PartitionTarget, Goto, Inductive, TypeOK, svcVars
    <2>2. state' # "complete"
      BY <1>1, <2>1, NotComplete DEF AfterComplete
    <2>3. Once' /\ OnTarget(j)'
      BY <2>1 DEF Booting, Once, OnTarget, MountDone
    <2>4. QED
      BY <1>1, <2>2, <2>3, OwnBooting
  <1>4. CASE MountTarget(j) /\ ~Fail(j, "mount")
    <2>1. PICK d \in At(dev[j]) \ (inUse \cup Mounted) :
              /\ pc[j] = "mount" /\ pc'[j] \in {"deploying", "failed"}
              /\ mounts' = <<d>> \o mounts /\ state' = state
      BY <1>4 DEF MountTarget, Goto, Inductive, TypeOK, svcVars
    <2>2. d = target[j] /\ d \in Disks /\ d \notin Mounted
      BY <2>1, TargetIsAtDevice DEF At
    <2>3. Once' /\ mounts' # <<>> /\ Head(mounts') = d
      BY <2>1, <2>2, MountFacts DEF Inductive, Booting
    <2>4. state' # "complete"
      BY <1>1, <2>1, NotComplete DEF AfterComplete
    <2>5. OnTarget(j)'
      BY <1>1, <2>1, <2>2, <2>3 DEF OnTarget, MountDone
    <2>6. QED
      BY <1>1, <2>3, <2>4, <2>5, OwnBooting
  <1>5. QED
    BY <1>2, <1>3, <1>4 DEF PartitionTarget, MountTarget

(* The tools on the mounted target write to its head, the target.          *)
LEMMA WorkBooting ==
    ASSUME Inductive, Booting, NEW j \in Jobs, Worker(j),
           \/ Work(j, "deploy", "deployed", "configuring")
           \/ Work(j, "configure", "configured", "finalizing")
           \/ Work(j, "finalize", "bootable", "unmount")
    PROVE  Booting'
  <1>1. Running(j) /\ target' = target /\ target[j] \in Disks
    BY WorkerFrame DEF Inductive, Untouched, Targeted
  <1>2. CASE Fail(j, "deploy") \/ Fail(j, "configure") \/ Fail(j, "finalize")
    BY <1>2, FailBooting
  <1>3. CASE ~(Fail(j, "deploy") \/ Fail(j, "configure") \/ Fail(j, "finalize"))
    <2>1. /\ pc[j] \in {"deploy", "configure", "finalize"}
          /\ pc'[j] \in {"configuring", "finalizing", "unmount"}
          /\ UNCHANGED <<state, mounts>>
      BY <1>3 DEF Work, Goto, Inductive, TypeOK, svcVars
    <2>2. mounts # <<>> /\ Head(mounts) = target[j]
      BY <2>1 DEF Booting, OnTarget, MountDone
    <2>3. pc'[j] = "unmount" => content' = [content EXCEPT ![Head(mounts)] = "bootable"]
      BY <1>3 DEF Work, Goto, Inductive, TypeOK
    <2>4. pc'[j] = "unmount" => content'[target[j]] = "bootable"
      BY <1>1, <2>2, <2>3 DEF Inductive, TypeOK
    <2>5. OnTarget(j)'
      BY <1>1, <2>1, <2>2, <2>4 DEF OnTarget, MountDone
    <2>6. state' # "complete"
      BY <1>1, <2>1, NotComplete DEF AfterComplete
    <2>7. Once'
      BY <2>1 DEF Booting, Once
    <2>8. QED
      BY <2>5, <2>6, <2>7, OwnBooting
  <1>4. QED
    BY <1>2, <1>3

LEMMA TransitionBooting ==
    ASSUME Inductive, Booting, NEW j \in Jobs, Worker(j),
           \/ Transition(j, "deploying", "deploying", "deploy")
           \/ Transition(j, "configuring", "deploying", "configure")
           \/ Transition(j, "finalizing", "finalizing", "finalize")
           \/ Transition(j, "completing", "complete", "announce")
    PROVE  Booting'
  <1>1. Running(j) /\ target' = target
    BY WorkerFrame DEF Inductive, Untouched
  <1>2. /\ pc[j] \in {"deploying", "configuring", "finalizing", "completing"}
        /\ UNCHANGED <<mounts, content>>
    BY DEF Transition, Goto, worldVars
  <1>3. state # "complete"
    BY <1>1, <1>2, NotComplete DEF AfterComplete
  <1>4. CASE Transition(j, "completing", "complete", "announce")
    <2>1. /\ pc[j] = "completing" /\ pc'[j] \in {"announce", "failed"}
      BY <1>4 DEF Transition, Goto, Inductive, TypeOK
    <2>2. OnTarget(j)'
      BY <1>1, <1>2, <2>1 DEF Booting, OnTarget, Finished, Mounted, MountDone
    <2>3. QED
      BY <1>2, <2>1, <2>2, CalmStep DEF AfterComplete
  <1>5. CASE ~Transition(j, "completing", "complete", "announce")
    <2>1. /\ pc[j] \in MountDone \ {"unmount"}
          /\ pc'[j] \in (MountDone \ {"unmount"}) \cup {"failed"}
          /\ state' # "complete"
      BY <1>3, <1>5 DEF Transition, Goto, Inductive, TypeOK, MountDone
    <2>2. OnTarget(j)'
      BY <1>1, <1>2, <2>1 DEF Booting, OnTarget, MountDone
    <2>3. QED
      BY <1>2, <2>1, <2>2, CalmStep
  <1>6. QED
    BY <1>4, <1>5

LEMMA WorkerBooting ==
    ASSUME Inductive, Placed, Booting, swapped = {}, NEW j \in Jobs, Worker(j)
    PROVE  Booting'
  <1>1. Running(j) /\ target' = target
    BY WorkerFrame DEF Inductive, Untouched
  <1>2. CASE VerifyPayload(j) \/ RevalidateAndTransition(j) \/ ResolveTarget(j)
    <2>1. CASE Fail(j, "revalidate") \/ Fail(j, "resolve")
      BY <2>1, FailBooting
    <2>2. CASE ~(Fail(j, "revalidate") \/ Fail(j, "resolve"))
      <3>1. /\ pc[j] \in {"verify", "revalidate", "resolve"}
            /\ pc'[j] \in {"revalidate", "resolve", "erase"}
            /\ state' \in {state, "destructive"}
            /\ UNCHANGED <<mounts, content>>
        BY <1>2, <2>2 DEF VerifyPayload, RevalidateAndTransition, ResolveTarget, Goto,
           Inductive, TypeOK, svcVars, worldVars
      <3>2. state' # "complete"
        BY <1>1, <3>1, NotComplete DEF AfterComplete
      <3>3. OnTarget(j)'
        BY <3>1 DEF OnTarget, MountDone
      <3>4. QED
        BY <3>1, <3>2, <3>3, CalmStep
    <2>3. QED
      BY <2>1, <2>2
  <1>3. CASE AnnounceComplete(j) \/ InspectFailure(j) \/ RecordFailure(j) \/ ReleaseWorker(j)
    <2>1. /\ pc'[j] \in AfterComplete \cup {"done"} /\ pc'[j] # "announce"
          /\ state' \in {state, "failed"}
          /\ UNCHANGED <<mounts, content>>
      BY <1>3 DEF AnnounceComplete, Fail, InspectFailure, AfterFailure, RecordFailure,
         ReleaseWorker, Goto, Inductive, TypeOK, svcVars, worldVars, AfterComplete
    <2>2. OnTarget(j)'
      BY <2>1 DEF OnTarget, MountDone, AfterComplete
    <2>3. QED
      BY <2>1, <2>2, CalmStep
  <1>4. CASE CleanUp(j) /\ ~Unmount(j, "cleanup", "record")
    <2>1. /\ pc'[j] = "record" /\ UNCHANGED <<state, mounts, content>>
      BY <1>4 DEF CleanUp, Goto, Inductive, TypeOK, svcVars, worldVars
    <2>2. OnTarget(j)'
      BY <2>1 DEF OnTarget, MountDone
    <2>3. QED
      BY <2>1, <2>2, CalmStep DEF AfterComplete
  <1>5. CASE Fail(j, "verify") \/ Fail(j, "unmount")
    BY <1>5, FailBooting
  <1>6. QED
    BY <1>2, <1>3, <1>4, <1>5, PrepareBooting, TransitionBooting, WorkBooting,
       UnmountBooting DEF Worker, UnmountTarget

LEMMA CrashBooting == ASSUME Crash PROVE Booting'
  <1>1. \A j \in Jobs : pc'[j] = "none"
    BY DEF Crash
  <1>2. Once'
    BY DEF Crash, Once
  <1>3. QED
    BY <1>1, <1>2 DEF Crash, Booting, OnTarget, MountDone

(* Nothing is mounted twice, also when disks were swapped.                 *)
LEMMA OnceStep ==
    ASSUME Inductive, Once, NEW j \in Jobs, Worker(j)
    PROVE  Once'
  <1>1. CASE mounts' = mounts
    BY <1>1 DEF Once
  <1>2. CASE mounts # <<>> /\ mounts' = Tail(mounts)
    BY <1>2, UnmountFacts DEF Inductive
  <1>3. CASE \E d \in At(dev[j]) \ (inUse \cup Mounted) : mounts' = <<d>> \o mounts
    BY <1>3, MountFacts DEF Inductive, At
  <1>4. CASE MountTarget(j)
    BY <1>1, <1>3, <1>4 DEF MountTarget, Fail, worldVars
  <1>5. CASE UnmountTarget(j) \/ CleanUp(j)
    BY <1>1, <1>2, <1>5 DEF UnmountTarget, CleanUp, Unmount, Fail, worldVars
  <1>6. ASSUME ~MountTarget(j), ~UnmountTarget(j), ~CleanUp(j) PROVE mounts' = mounts
    BY <1>6 DEF Worker, VerifyPayload, Fail, RevalidateAndTransition, ResolveTarget,
       PartitionTarget, Transition, Work, AnnounceComplete, InspectFailure, RecordFailure,
       ReleaseWorker, worldVars
  <1>7. QED
    BY <1>1, <1>4, <1>5, <1>6

(* The steps above, when a disk may have been swapped.                     *)
LEMMA StillUndisturbed ==
    ASSUME Undisturbed, UNCHANGED <<pc, target, mounts, content>>, swapped \subseteq swapped',
           (state' = state /\ jobPath' = jobPath) \/ state' # "complete"
    PROVE  Undisturbed'
  <1>1. Once'
    BY DEF Undisturbed, Once
  <1>2. ASSUME swapped' = {} PROVE Booting'
    BY <1>2, StillBooting DEF Undisturbed
  <1>3. QED
    BY <1>1, <1>2 DEF Undisturbed

LEMMA WorkerUndisturbed ==
    ASSUME Inductive, Placed, Undisturbed, NEW j \in Jobs, Worker(j)
    PROVE  Undisturbed'
  <1>1. swapped' = swapped
    BY WorkerFrame DEF Inductive, Untouched
  <1>2. Once'
    BY OnceStep DEF Undisturbed
  <1>3. ASSUME swapped' = {} PROVE Booting'
    BY <1>1, <1>3, WorkerBooting DEF Undisturbed
  <1>4. QED
    BY <1>2, <1>3 DEF Undisturbed

LEMMA UndisturbedStep == Inductive /\ Placed /\ Undisturbed /\ [Next]_vars => Undisturbed'
  <1> SUFFICES ASSUME Inductive, Placed, Undisturbed, [Next]_vars PROVE Undisturbed'
    OBVIOUS
  <1>1. ASSUME NEW c \in Clients,
               \/ \E d \in Disks : Preflight(c, d)
               \/ StartCalled(c) \/ StartRefused(c)
               \/ StartNotSpawned(c) \/ StartExhausted(c)
        PROVE  Undisturbed'
    BY <1>1, StillUndisturbed DEF Preflight, StartCalled, StartRefused, StartNotSpawned,
       StartExhausted, StartPassed, svcVars, workVars, worldVars, histVars
  <1>2. ASSUME NEW c \in Clients, StartAccepted(c) PROVE Undisturbed'
    BY <1>2, StartBooting DEF Undisturbed, Booting
  <1>3. ASSUME NEW p \in Paths, Cancel(p) PROVE Undisturbed'
    BY <1>3, StillUndisturbed DEF Cancel, workVars, worldVars
  <1>4. ASSUME NEW d \in Disks, Replug(d) \/ Automount(d) PROVE Undisturbed'
    <2>1. UNCHANGED <<state, jobPath, pc, target, mounts, content>>
      BY <1>4 DEF Replug, Automount, svcVars, workVars
    <2>2. swapped \subseteq swapped'
      BY <1>4 DEF Replug, Automount, histVars
    <2>3. QED
      BY <2>1, <2>2, StillUndisturbed
  <1>5. CASE BusLost \/ UNCHANGED vars
    BY <1>5, StillUndisturbed DEF BusLost, vars, svcVars, workVars, worldVars, histVars
  <1>6. CASE Crash
    BY <1>6, CrashBooting DEF Undisturbed, Booting
  <1>7. QED
    BY <1>1, <1>2, <1>3, <1>4, <1>5, <1>6, WorkerUndisturbed DEF Next

LEMMA InitBooting == Init => Undisturbed
  <1> SUFFICES ASSUME Init PROVE Undisturbed
    OBVIOUS
  <1>1. \A j \in Jobs : pc[j] = "none"
    BY DEF Init
  <1>2. Once
    BY DEF Init, Once
  <1>3. QED
    BY <1>1, <1>2 DEF Init, Undisturbed, Booting, OnTarget, MountDone

(* When the lifecycle reads "complete", the current job's disk holds a     *)
(* bootable system and is unmounted, whatever disks other jobs left on     *)
(* TARGET_ROOT and whatever is replugged, except where the tools of this   *)
(* job were writing.                                                       *)
THEOREM CompleteHolds == Spec => []CompleteIsBootable
  <1>1. Undisturbed => CompleteIsBootable
    BY DEF Undisturbed, Booting, CompleteIsBootable, Finished
  <1>2. QED
    BY <1>1, InitBooting, UndisturbedStep, InductiveHolds, PlacedHolds, PTL DEF Spec
-----------------------------------------------------------------------------
(***************************************************************************)
(* The installer implements EraseContract.                                 *)
(***************************************************************************)

(* Steps the contract does not see.                                        *)
LEMMA InvisibleStep ==
    ASSUME UNCHANGED <<pc, storage, told, erased>>
    PROVE  UNCHANGED Contract!contractVars
  <1>1. ContractStage' = ContractStage
    BY DEF ContractStage, Stage, Running
  <1>2. Wiped' = Wiped
    BY DEF Wiped
  <1>3. QED
    BY <1>1, <1>2 DEF Contract!contractVars

(* The stage of each job, read off its worker.                             *)
LEMMA StageOf ==
    ASSUME NEW j \in Jobs
    PROVE  /\ pc[j] = "none" => ContractStage[j] = "unborn"
           /\ pc[j] = "done" => ContractStage[j] = "closed"
           /\ Running(j) /\ j \in told => ContractStage[j] = "withdrawn"
           /\ Running(j) /\ j \notin told /\ storage[j] => ContractStage[j] = "committed"
           /\ Running(j) /\ j \notin told /\ ~storage[j] => ContractStage[j] = "open"
  BY DEF ContractStage, Stage, Running

LEMMA StageOfNext ==
    ASSUME NEW j \in Jobs
    PROVE  /\ pc'[j] = "none" => ContractStage'[j] = "unborn"
           /\ pc'[j] = "done" => ContractStage'[j] = "closed"
           /\ Running(j)' /\ j \in told' => ContractStage'[j] = "withdrawn"
           /\ Running(j)' /\ j \notin told' /\ storage'[j] => ContractStage'[j] = "committed"
           /\ Running(j)' /\ j \notin told' /\ ~storage'[j] => ContractStage'[j] = "open"
  BY DEF ContractStage, Stage, Running

LEMMA InitContract == Init => Contract!ContractInit
  <1> SUFFICES ASSUME Init PROVE Contract!ContractInit
    OBVIOUS
  <1>1. \A j \in Jobs : ContractStage[j] = "unborn"
    BY StageOf DEF Init
  <1>2. ContractStage = [j \in Jobs |-> "unborn"]
    BY <1>1 DEF ContractStage
  <1>3. Wiped = {}
    BY DEF Init, Wiped
  <1>4. QED
    BY <1>2, <1>3 DEF Contract!ContractInit

(* Only job j changes its stage, and no disk is overwritten.               *)
LEMMA MoveStep ==
    ASSUME NEW j \in Jobs, NEW to,
           ContractStage'[j] = to, erased' = erased,
           \A k \in Jobs : k # j => ContractStage'[k] = ContractStage[k]
    PROVE  /\ ContractStage' = [ContractStage EXCEPT ![j] = to]
           /\ Wiped' = Wiped
  <1>1. ContractStage = [k \in Jobs |-> ContractStage[k]]
    BY DEF ContractStage
  <1>2. ContractStage' = [k \in Jobs |-> ContractStage'[k]]
    BY DEF ContractStage
  <1>3. ContractStage' = [ContractStage EXCEPT ![j] = to]
    BY <1>1, <1>2
  <1>4. QED
    BY <1>3 DEF Wiped

LEMMA StageSame ==
    ASSUME NEW k \in Jobs, pc'[k] = pc[k],
           Running(k) => storage'[k] = storage[k] /\ (k \in told' <=> k \in told)
    PROVE  ContractStage'[k] = ContractStage[k]
  <1>1. CASE Running(k)
    BY <1>1, StageOf, StageOfNext DEF Running
  <1>2. CASE ~Running(k)
    BY <1>2, StageOf, StageOfNext DEF Running
  <1>3. QED
    BY <1>1, <1>2

LEMMA StartOpens ==
    ASSUME Inductive, NEW c \in Clients, StartAccepted(c)
    PROVE  Contract!Open(nextJob) /\ nextJob \in Jobs
  <1>1. nextJob \in Jobs /\ pc[nextJob] = "none" /\ nextJob \notin told
    BY FreshNumber DEF StartAccepted, Inductive, Safe
  <1>2. \A j \in Jobs : ~Running(j)
    BY DEF StartAccepted, StartPassed, Startable, NoWorker, Inductive, SlotHeld
  <1>3. \A k \in Jobs : ~Contract!UnderWay(k)
    BY <1>2, StageOf DEF Contract!UnderWay, Running
  <1>4. \A k \in Jobs : k # nextJob => ContractStage'[k] = ContractStage[k]
    <2>1. ASSUME NEW k \in Jobs, k # nextJob PROVE pc'[k] = pc[k]
      BY <1>1, <2>1 DEF StartAccepted, Inductive, TypeOK
    <2>2. QED
      BY <1>2, <2>1, StageSame
  <1>5. /\ pc'[nextJob] = "verify" /\ ~storage'[nextJob] /\ nextJob \notin told'
        /\ erased' = erased
    BY <1>1 DEF StartAccepted, StartPassed, Inductive, TypeOK
  <1>6. ContractStage[nextJob] = "unborn" /\ ContractStage'[nextJob] = "open"
    BY <1>1, <1>5, StageOf, StageOfNext DEF Running
  <1>7. QED
    BY <1>1, <1>3, <1>4, <1>5, <1>6, MoveStep DEF Contract!Open, Contract!Move

LEMMA CancelWithdraws ==
    ASSUME Inductive, NEW p \in Paths, Cancel(p)
    PROVE  \/ UNCHANGED Contract!contractVars
           \/ \E j \in Jobs : Contract!Withdraw(j)
  <1>1. /\ told' = told \cup {jobPath} /\ UNCHANGED <<pc, storage, erased>>
        /\ state \notin Irrevocable
    BY DEF Cancel, IsCancellable, Irrevocable, workVars
  <1>2. CASE \E j \in Jobs : Running(j) /\ j \notin told
    <2>1. PICK j \in Jobs : Running(j) /\ j \notin told
      BY <1>2
    <2>2. jobPath = j /\ ~storage[j]
      BY <1>1, <2>1 DEF Inductive, SlotHeld, Boundary
    <2>3. \A k \in Jobs : k # j => ContractStage'[k] = ContractStage[k]
      BY <1>1, <2>2, StageSame
    <2>4. ContractStage[j] = "open" /\ ContractStage'[j] = "withdrawn"
      BY <1>1, <2>1, <2>2, StageOf, StageOfNext DEF Running
    <2>5. QED
      BY <1>1, <2>3, <2>4, MoveStep DEF Contract!Withdraw, Contract!Move
  <1>3. CASE \A j \in Jobs : Running(j) => j \in told
    <2>1. \A k \in Jobs : ContractStage'[k] = ContractStage[k]
      BY <1>1, <1>3, StageSame
    <2>2. ContractStage' = ContractStage /\ Wiped' = Wiped
      BY <1>1, <2>1 DEF ContractStage, Wiped
    <2>3. QED
      BY <2>2 DEF Contract!contractVars
  <1>4. QED
    BY <1>2, <1>3

LEMMA WorkerMoves ==
    ASSUME Inductive, NEW j \in Jobs, Worker(j)
    PROVE  \/ UNCHANGED Contract!contractVars
           \/ Contract!Commit(j) \/ Contract!Wipe(j) \/ Contract!Close(j)
  <1>1. Running(j) /\ Untouched /\ OwnStep(j)
    BY WorkerFrame DEF Inductive
  <1>2. OwnBoundary(j)
    BY <1>1 DEF Inductive, Boundary, OwnBoundary
  <1>3. \A k \in Jobs : k # j => ContractStage'[k] = ContractStage[k]
    BY <1>1, StageSame DEF OwnStep, Untouched
  <1>4. ContractStage[j] \in {"open", "withdrawn", "committed"}
    BY <1>1, StageOf
  <1>5. CASE erased' # erased
    <2>1. /\ storage[j] /\ storage'[j] /\ pc[j] \in {"erase", "mount"}
          /\ \E d \in At(dev[j]) : erased' = erased \cup {<<j, d>>}
      BY <1>2, <1>5, WorkerErases DEF Inductive
    <2>2. pc'[j] # "done"
      BY <2>1 DEF Worker, VerifyPayload, Fail, RevalidateAndTransition, ResolveTarget,
         PartitionTarget, MountTarget, Transition, Work, UnmountTarget, Unmount,
         AnnounceComplete, InspectFailure, AfterFailure, CleanUp, RecordFailure,
         ReleaseWorker, Goto, Inductive, TypeOK
    <2>3. ContractStage[j] = "committed" /\ ContractStage'[j] = "committed"
      BY <1>1, <1>2, <2>1, <2>2, StageOf, StageOfNext DEF OwnBoundary, OwnStep, Running,
         Untouched
    <2>4. ContractStage' = ContractStage
      BY <1>3, <2>3 DEF ContractStage
    <2>5. Wiped' = Wiped \cup {j}
      <3>1. PICK d \in Disks : erased' = erased \cup {<<j, d>>}
        BY <2>1 DEF At
      <3>2. QED
        BY <3>1 DEF Wiped
    <2>6. QED
      BY <2>3, <2>4, <2>5 DEF Contract!Wipe
  <1>6. CASE erased' = erased /\ pc'[j] = "done"
    <2>1. ContractStage'[j] = "closed"
      BY <1>6, StageOfNext
    <2>2. QED
      BY <1>3, <1>4, <1>6, <2>1, MoveStep DEF Contract!Close, Contract!Move
  <1>7. CASE erased' = erased /\ pc'[j] # "done"
    <2>1. Running(j)' /\ OwnBoundary(j)'
      BY <1>1, <1>2, <1>7, WorkerBoundary DEF OwnStep, Running, Inductive
    <2>2. CASE j \in told \/ storage'[j] = storage[j]
      <3>1. ContractStage'[j] = ContractStage[j]
        BY <1>1, <2>1, <2>2, StageOf, StageOfNext DEF Untouched
      <3>2. ContractStage' = ContractStage /\ Wiped' = Wiped
        BY <1>3, <1>7, <3>1 DEF ContractStage, Wiped
      <3>3. QED
        BY <3>2 DEF Contract!contractVars
    <2>3. CASE j \notin told /\ storage'[j] # storage[j]
      <3>1. ~storage[j] /\ storage'[j]
        BY <1>7, <2>3 DEF Worker, VerifyPayload, Fail, RevalidateAndTransition, ResolveTarget,
           PartitionTarget, MountTarget, Transition, Work, UnmountTarget, Unmount,
           AnnounceComplete, InspectFailure, CleanUp, RecordFailure, ReleaseWorker, Goto,
           Inductive, TypeOK
      <3>2. ContractStage[j] = "open" /\ ContractStage'[j] = "committed"
        BY <1>1, <2>1, <2>3, <3>1, StageOf, StageOfNext DEF Untouched
      <3>3. QED
        BY <1>3, <1>7, <3>2, MoveStep DEF Contract!Commit, Contract!Move
    <2>4. QED
      BY <2>2, <2>3
  <1>8. QED
    BY <1>5, <1>6, <1>7

LEMMA CrashRestarts == Crash => Contract!Restart
  <1> SUFFICES ASSUME Crash PROVE Contract!Restart
    OBVIOUS
  <1>1. \A j \in Jobs : ContractStage'[j] = "unborn"
    BY StageOfNext DEF Crash
  <1>4. ContractStage' = [j \in Jobs |-> "unborn"]
    BY <1>1 DEF ContractStage
  <1>2. Wiped' = {}
    BY DEF Crash, Wiped
  <1>3. QED
    BY <1>2, <1>4 DEF Contract!Restart

(* Every behaviour of the service is one of EraseContract: a job is        *)
(* withdrawn or committed, never both, only a committed job overwrites a   *)
(* disk, and jobs do not overlap.                                          *)
THEOREM ContractImplemented == Spec => ImplementsContract
  <1>1. Inductive /\ [Next]_vars => [Contract!ContractNext]_(Contract!contractVars)
    <2> SUFFICES ASSUME Inductive, [Next]_vars
                 PROVE  Contract!ContractNext \/ UNCHANGED Contract!contractVars
      OBVIOUS
    <2>1. ASSUME NEW c \in Clients,
                 \/ \E d \in Disks : Preflight(c, d)
                 \/ StartCalled(c) \/ StartRefused(c)
                 \/ StartNotSpawned(c) \/ StartExhausted(c)
          PROVE  UNCHANGED Contract!contractVars
      BY <2>1, InvisibleStep DEF Preflight, StartCalled, StartRefused, StartNotSpawned,
         StartExhausted, StartPassed, workVars, histVars
    <2>2. ASSUME NEW c \in Clients, StartAccepted(c) PROVE Contract!ContractNext
      BY <2>2, StartOpens DEF Contract!ContractNext
    <2>3. ASSUME NEW p \in Paths, Cancel(p)
          PROVE  Contract!ContractNext \/ UNCHANGED Contract!contractVars
      BY <2>3, CancelWithdraws DEF Contract!ContractNext
    <2>4. ASSUME NEW j \in Jobs, Worker(j)
          PROVE  Contract!ContractNext \/ UNCHANGED Contract!contractVars
      BY <2>4, WorkerMoves DEF Contract!ContractNext
    <2>5. ASSUME NEW d \in Disks, Replug(d) \/ Automount(d)
          PROVE  UNCHANGED Contract!contractVars
      BY <2>5, InvisibleStep DEF Replug, Automount, workVars, histVars
    <2>6. CASE BusLost \/ UNCHANGED vars
      BY <2>6, InvisibleStep DEF BusLost, vars, workVars, histVars
    <2>7. CASE Crash
      BY <2>7, CrashRestarts DEF Contract!ContractNext
    <2>8. QED
      BY <2>1, <2>2, <2>3, <2>4, <2>5, <2>6, <2>7 DEF Next
  <1>2. QED
    BY <1>1, InitContract, InductiveHolds, PTL DEF Spec, ImplementsContract,
       Contract!ContractSpec
=============================================================================
