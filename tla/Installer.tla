------------------------------- MODULE Installer -------------------------------
(***************************************************************************)
(* The live installer service (features/installer/daemon): its D-Bus       *)
(* handlers, which run one at a time on the connection's executor, the     *)
(* worker thread of each job, which interleaves with them at every lock of *)
(* the shared ServiceState, and what lies outside: several clients, disks  *)
(* that are replugged or mounted while a job runs, external tools that     *)
(* fail, the bus going away and the daemon dying at any step.              *)
(***************************************************************************)
EXTENDS InstallJob, Naturals, Sequences, FiniteSets

CONSTANTS
    Clients,      \* D-Bus peers of the devcore-live session
    Disks,        \* stable /dev/disk/by-id identities
    Devices,      \* kernel block-device paths an identity can resolve to
    Phrase,       \* Phrase[d]: what confirmation_phrase makes of identity d
    Unfit,        \* disks rejected for a fact that never changes (size, media)
    Automounted,  \* disks the live session may mount by itself
    Pluggable,    \* disks that may be unplugged and plugged in again
    MayCrash,     \* the daemon may die
    MaxJob,       \* the last value of the u32 job counter
    None          \* no disk, no device

ASSUME MaxJobAssumption == MaxJob \in Nat /\ MaxJob >= 1
ASSUME NoneAssumption == None \notin Disks \cup Devices
ASSUME DiskAssumption == Unfit \cup Automounted \cup Pluggable \subseteq Disks
ASSUME FaultAssumption == MayCrash \in BOOLEAN

Jobs == 1 .. MaxJob - 1    \* the jobs that can get a worker
Paths == 0 .. MaxJob       \* the values of job_path

VARIABLES
    (* ServiceState, behind one mutex.                                     *)
    state,         \* InstallJob.state
    preflight,     \* identity and device of the last accepted Preflight
    jobPath,       \* the job Status and Cancel answer for
    nextJob,
    workerActive,
    (* The worker thread of each job.                                      *)
    pc,            \* the call run_install_worker makes next
    target,        \* InstallRequest.disk_id
    dev,           \* the device prepare_target resolved
    storage,       \* storage_started
    (* The clients.                                                        *)
    reviewed,      \* the disk of the last Preflight reply the client got
    starting,      \* the disk whose phrase its pending Start carries
    (* The machine.                                                        *)
    device,        \* where each disk currently is
    inUse,         \* disks mounted by someone else
    mounts,        \* disks mounted on TARGET_ROOT, the latest first
    content,       \* what is on each disk
    bus,           \* the bus connection works
    (* History, for the properties.                                        *)
    told,          \* job paths whose cancellation was accepted
    erased,        \* <<job, disk>>: job's tools have overwritten disk
    consent,       \* the disk the client that started the job had reviewed
    swapped        \* disks plugged in where the tools of the last job wrote

svcVars    == <<state, preflight, jobPath, nextJob, workerActive>>
workVars   == <<pc, target, dev, storage>>
clientVars == <<reviewed, starting>>
worldVars  == <<device, inUse, mounts, content, bus>>
histVars   == <<told, erased, consent, swapped>>
vars == <<svcVars, workVars, clientVars, worldVars, histVars>>

Steps ==
    {"none", "verify", "revalidate", "resolve", "erase", "mount", "deploying",
     "deploy", "configuring", "configure", "finalizing", "finalize", "unmount",
     "completing", "announce", "failed", "cleanup", "record", "release", "done"}

NoDisk == [id |-> None, device |-> None]

Mounted == {mounts[i] : i \in 1 .. Len(mounts)}

(* DiskInfo::eligibility, on the facts list_disks reads at that moment: a  *)
(* disk any of whose partitions is mounted counts as the running root.     *)
Eligible(d) == d \notin Unfit \cup inUse \cup Mounted

(* HostInventory::resolve_disk finds the disk.                             *)
Present(d) == device[d] # None

At(node) == {d \in Disks : device[d] = node}

Init ==
    /\ state = "idle"
    /\ preflight = NoDisk
    /\ jobPath = 0
    /\ nextJob = 1
    /\ workerActive = FALSE
    /\ pc = [j \in Jobs |-> "none"]
    /\ target = [j \in Jobs |-> None]
    /\ dev = [j \in Jobs |-> None]
    /\ storage = [j \in Jobs |-> FALSE]
    /\ reviewed = [c \in Clients |-> None]
    /\ starting = [c \in Clients |-> None]
    /\ device \in [Disks -> Devices]
    /\ \A d, e \in Disks : device[d] = device[e] => d = e
    /\ inUse = {}
    /\ mounts = <<>>
    /\ content = [d \in Disks |-> "original"]
    /\ bus = TRUE
    /\ told = {}
    /\ erased = {}
    /\ consent = [j \in Jobs |-> None]
    /\ swapped = {}
-----------------------------------------------------------------------------
(* D-Bus handlers.  ListDisks and Status change nothing.                   *)

(* The guard of Preflight, and the first half of the guard of Start.       *)
NoWorker == ~workerActive

(* Preflight: resolve and judge the disk under the lock, remember it,      *)
(* start over with a fresh job, answer with the phrase.  The job path of   *)
(* the previous job stays.                                                 *)
Preflight(c, d) ==
    /\ bus
    /\ NoWorker
    /\ Present(d) /\ Eligible(d)
    /\ preflight' = [id |-> d, device |-> device[d]]
    /\ state' = "ready"
    /\ reviewed' = [reviewed EXCEPT ![c] = d]
    /\ UNCHANGED <<jobPath, nextJob, workerActive, workVars, starting, worldVars, histVars>>

(* A client types the phrase of the disk it reviewed and calls Start; the  *)
(* handler awaits polkit before it looks at the shared state.              *)
StartCalled(c) ==
    /\ bus
    /\ reviewed[c] # None /\ starting[c] = None
    /\ starting' = [starting EXCEPT ![c] = reviewed[c]]
    /\ UNCHANGED <<svcVars, workVars, reviewed, worldVars, histVars>>

Startable == NoWorker /\ state \in {"ready", "cancelled", "failed"}

(* InstallRequest::new against the remembered disk.  Its facts are those   *)
(* Preflight accepted, so its eligibility check passes again.              *)
Confirmed(typed) == preflight # NoDisk /\ Phrase[typed] = Phrase[preflight.id]

Answered(c) == bus /\ starting[c] # None /\ starting' = [starting EXCEPT ![c] = None]

(* Authorization denied, unusable password or settings, a guard or the     *)
(* phrase refused: Start fails before it changes anything.                 *)
StartRefused(c) ==
    /\ Answered(c)
    /\ UNCHANGED <<svcVars, workVars, reviewed, worldVars, histVars>>

CounterLeft == nextJob < MaxJob

StartPassed(c) ==
    /\ Answered(c)
    /\ Startable
    /\ Confirmed(starting[c])
    /\ jobPath' = nextJob
    /\ UNCHANGED <<preflight, dev, reviewed, worldVars, told, erased>>

(* The locked section succeeds and the worker thread is spawned.           *)
StartAccepted(c) ==
    /\ StartPassed(c)
    /\ CounterLeft
    /\ nextJob' = nextJob + 1
    /\ state' = "preparing"
    /\ workerActive' = TRUE
    /\ pc' = [pc EXCEPT ![nextJob] = "verify"]
    /\ target' = [target EXCEPT ![nextJob] = preflight.id]
    /\ storage' = [storage EXCEPT ![nextJob] = FALSE]
    /\ consent' = [consent EXCEPT ![nextJob] = starting[c]]
    /\ swapped' = {}

(* The thread cannot be spawned.                                           *)
StartNotSpawned(c) ==
    /\ StartPassed(c)
    /\ CounterLeft
    /\ nextJob' = nextJob + 1
    /\ state' = "failed"
    /\ UNCHANGED <<workerActive, pc, target, storage, consent, swapped>>

(* checked_add overflows after job and job_path were already replaced.     *)
StartExhausted(c) ==
    /\ StartPassed(c)
    /\ ~CounterLeft
    /\ state' = "preparing"
    /\ UNCHANGED <<nextJob, workerActive, pc, target, storage, consent, swapped>>

(* Cancel: only the current job path, and only while the guard allows it.  *)
(* (A refused Cancel changes nothing.)                                     *)
Cancel(p) ==
    /\ bus
    /\ p = jobPath
    /\ IsCancellable(state)
    /\ state' = "cancelled"
    /\ told' = told \cup {p}
    /\ UNCHANGED <<preflight, jobPath, nextJob, workerActive, workVars,
                   clientVars, worldVars, erased, consent, swapped>>
-----------------------------------------------------------------------------
(* run_install_worker.  emit_progress fails exactly when the bus is gone;  *)
(* any external tool may fail; the first error ends the closure.           *)

Goto(j, from, to) == pc[j] = from /\ pc' = [pc EXCEPT ![j] = to]

(* The ? operator: the closure returns the error of the call made at step. *)
Fail(j, step) ==
    /\ Goto(j, step, "failed")
    /\ UNCHANGED <<svcVars, target, dev, storage, clientVars, worldVars, histVars>>

(* emit_progress(5), verify_payload, podman load and the payload reference *)
(* touch no shared state.                                                  *)
VerifyPayload(j) ==
    /\ bus
    /\ Goto(j, "verify", "revalidate")
    /\ UNCHANGED <<svcVars, target, dev, storage, clientVars, worldVars, histVars>>

(* Mutant: the worker crosses the storage boundary without asking the      *)
(* lifecycle guard.                                                        *)
MayEraseUnguarded(j) ==
    /\ Present(target[j]) /\ Eligible(target[j])
    /\ preflight = [id |-> target[j], device |-> device[target[j]]]

(* The three checks of revalidate_and_transition, all under the lock.      *)
MayErase(j) ==
    /\ Present(target[j]) /\ Eligible(target[j])
    /\ preflight = [id |-> target[j], device |-> device[target[j]]]
    /\ CanTransition(state, "destructive")

RevalidateAndTransition(j) ==
    \/ /\ Goto(j, "revalidate", "resolve")
       /\ MayErase(j)
       /\ state' = "destructive"
       /\ storage' = [storage EXCEPT ![j] = TRUE]
       /\ UNCHANGED <<preflight, jobPath, nextJob, workerActive, target, dev,
                      clientVars, worldVars, histVars>>
    \/ Fail(j, "revalidate")   \* also lsblk itself may fail

(* Mutant: prepare_target trusts the device remembered by Preflight.       *)
StaleTargetDevice(j) == preflight.device

(* The identity is resolved once more; only its presence matters here.     *)
TargetDevice(j) == device[target[j]]

(* emit_progress(20), then the first line of prepare_target.               *)
ResolveTarget(j) ==
    \/ /\ Goto(j, "resolve", "erase")
       /\ bus
       /\ Present(target[j])
       /\ dev' = [dev EXCEPT ![j] = TargetDevice(j)]
       /\ UNCHANGED <<svcVars, target, storage, clientVars, worldVars, histVars>>
    \/ Fail(j, "resolve")

(* A tool overwrites whatever disk is at the resolved device.              *)
Overwrite(j, d) ==
    /\ content' = [content EXCEPT ![d] = "blank"]
    /\ erased' = erased \cup {<<j, d>>}

(* sfdisk refuses a device in use; it may fail before or after it wrote.   *)
PartitionTarget(j) ==
    \/ \E d \in At(dev[j]) \ (inUse \cup Mounted), next \in {"mount", "failed"} :
          /\ Goto(j, "erase", next)
          /\ Overwrite(j, d)
          /\ UNCHANGED <<svcVars, target, dev, storage, clientVars, device, inUse,
                         mounts, bus, told, consent, swapped>>
    \/ Fail(j, "erase")

(* mkfs and the mounts on TARGET_ROOT; a later tool of prepare_target may  *)
(* still fail once the root is mounted.                                    *)
MountTarget(j) ==
    \/ \E d \in At(dev[j]) \ (inUse \cup Mounted), next \in {"deploying", "failed"} :
          /\ Goto(j, "mount", next)
          /\ Overwrite(j, d)
          /\ mounts' = <<d>> \o mounts
          /\ UNCHANGED <<svcVars, target, dev, storage, clientVars, device, inUse,
                         bus, told, consent, swapped>>
    \/ Fail(j, "mount")

(* transition, transition_configuration and transition_complete: the       *)
(* lifecycle guard either moves on or fails the worker.                    *)
Transition(j, step, to, next) ==
    LET granted == CanTransition(state, to) IN
    /\ Goto(j, step, IF granted THEN next ELSE "failed")
    /\ state' = IF granted THEN to ELSE state
    /\ UNCHANGED <<preflight, jobPath, nextJob, workerActive, target, dev, storage,
                   clientVars, worldVars, histVars>>

(* emit_progress, then a tool that works on the mounted target: on success *)
(* the target holds result; a failure leaves it no better than before.     *)
Work(j, step, result, next) ==
    \/ /\ bus
       /\ Goto(j, step, next)
       /\ content' = [content EXCEPT ![Head(mounts)] = result]
       /\ UNCHANGED <<svcVars, target, dev, storage, clientVars, device, inUse,
                      mounts, bus, histVars>>
    \/ Fail(j, step)

(* umount --recursive TARGET_ROOT takes the latest mount away, or fails    *)
(* because it is busy or because nothing is mounted.                       *)
Unmount(j, step, next) ==
    /\ mounts # <<>>
    /\ Goto(j, step, next)
    /\ mounts' = Tail(mounts)
    /\ UNCHANGED <<svcVars, target, dev, storage, clientVars, device, inUse,
                   content, bus, histVars>>

(* Mutant: a busy target counts as unmounted.                              *)
UnmountTargetLazily(j) ==
    \/ Unmount(j, "unmount", "completing")
    \/ /\ Goto(j, "unmount", "completing")
       /\ UNCHANGED <<svcVars, target, dev, storage, clientVars, worldVars, histVars>>

UnmountTarget(j) ==
    \/ Unmount(j, "unmount", "completing")
    \/ Fail(j, "unmount")

(* emit_progress(100).  The Ok arm then announces the completed state.     *)
AnnounceComplete(j) ==
    \/ /\ bus
       /\ Goto(j, "announce", "release")
       /\ UNCHANGED <<svcVars, target, dev, storage, clientVars, worldVars, histVars>>
    \/ /\ ~bus
       /\ Fail(j, "announce")

(* Mutant: the worker that lost to a cancel keeps the service busy.        *)
AfterFailureForgetful(j) ==
    CASE state = "cancelled" -> "done"
      [] storage[j]          -> "cleanup"
      [] OTHER               -> "record"

(* The Err arm: a job already cancelled is left as it is, storage that was *)
(* started is cleaned up, anything else is recorded as a failure.          *)
AfterFailure(j) ==
    CASE state = "cancelled" -> "release"
      [] storage[j]          -> "cleanup"
      [] OTHER               -> "record"

InspectFailure(j) ==
    /\ Goto(j, "failed", AfterFailure(j))
    /\ UNCHANGED <<svcVars, target, dev, storage, clientVars, worldVars, histVars>>

(* A failed unmount only lengthens the diagnostic.                         *)
CleanUp(j) ==
    \/ Unmount(j, "cleanup", "record")
    \/ /\ Goto(j, "cleanup", "record")
       /\ UNCHANGED <<svcVars, target, dev, storage, clientVars, worldVars, histVars>>

(* InstallJob::fail asks no guard: a cancel accepted since InspectFailure  *)
(* is overwritten.                                                         *)
RecordFailure(j) ==
    /\ Goto(j, "record", "release")
    /\ state' = "failed"
    /\ UNCHANGED <<preflight, jobPath, nextJob, workerActive, target, dev, storage,
                   clientVars, worldVars, histVars>>

(* The thread ends and its locals are gone.                                *)
ReleaseWorker(j) ==
    /\ Goto(j, "release", "done")
    /\ workerActive' = FALSE
    /\ dev' = [dev EXCEPT ![j] = None]
    /\ storage' = [storage EXCEPT ![j] = FALSE]
    /\ UNCHANGED <<state, preflight, jobPath, nextJob, target, clientVars,
                   worldVars, histVars>>

Worker(j) ==
    \/ VerifyPayload(j)
    \/ Fail(j, "verify")
    \/ RevalidateAndTransition(j)
    \/ ResolveTarget(j)
    \/ PartitionTarget(j)
    \/ MountTarget(j)
    \/ Transition(j, "deploying", "deploying", "deploy")
    \/ Work(j, "deploy", "deployed", "configuring")
    \/ Transition(j, "configuring", "deploying", "configure")
    \/ Work(j, "configure", "configured", "finalizing")
    \/ Transition(j, "finalizing", "finalizing", "finalize")
    \/ Work(j, "finalize", "bootable", "unmount")
    \/ UnmountTarget(j)
    \/ Transition(j, "completing", "complete", "announce")
    \/ AnnounceComplete(j)
    \/ InspectFailure(j)
    \/ CleanUp(j)
    \/ RecordFailure(j)
    \/ ReleaseWorker(j)
-----------------------------------------------------------------------------
(* The machine around the service.                                         *)

(* The tools of prepare_target write to the device, and not to disk d.     *)
WrittenFor(d, node) ==
    \E j \in Jobs : pc[j] \in {"erase", "mount"} /\ dev[j] = node /\ target[j] # d

(* A disk is unplugged, or plugged into a free device name, also while     *)
(* the tools of prepare_target run.                                        *)
Replug(d) ==
    /\ d \in Pluggable
    /\ d \notin Mounted \cup inUse
    /\ \/ /\ Present(d)
          /\ device' = [device EXCEPT ![d] = None]
          /\ UNCHANGED swapped
       \/ \E node \in Devices :
             /\ ~Present(d) /\ At(node) = {}
             /\ device' = [device EXCEPT ![d] = node]
             /\ swapped' = swapped \cup {e \in {d} : WrittenFor(e, node)}
    /\ UNCHANGED <<svcVars, workVars, clientVars, inUse, mounts, content, bus,
                   told, erased, consent>>

(* The desktop mounts or unmounts a disk that is not under TARGET_ROOT.    *)
Automount(d) ==
    /\ d \in Automounted /\ Present(d) /\ d \notin Mounted
    /\ inUse' = IF d \in inUse THEN inUse \ {d} ELSE inUse \cup {d}
    /\ UNCHANGED <<svcVars, workVars, clientVars, device, mounts, content, bus, histVars>>

(* The bus drops the connection: no call or signal passes any more.        *)
BusLost ==
    /\ bus
    /\ bus' = FALSE
    /\ UNCHANGED <<svcVars, workVars, clientVars, device, inUse, mounts, content, histVars>>

(* The daemon dies with its workers and its private mount namespace; the   *)
(* next call on the bus activates a fresh one.  Pending calls fail.        *)
Crash ==
    /\ MayCrash
    /\ state' = "idle"
    /\ preflight' = NoDisk
    /\ jobPath' = 0
    /\ nextJob' = 1
    /\ workerActive' = FALSE
    /\ pc' = [j \in Jobs |-> "none"]
    /\ target' = [j \in Jobs |-> None]
    /\ dev' = [j \in Jobs |-> None]
    /\ storage' = [j \in Jobs |-> FALSE]
    /\ starting' = [c \in Clients |-> None]
    /\ mounts' = <<>>
    /\ bus' = TRUE
    /\ told' = {}
    /\ erased' = {}
    /\ consent' = [j \in Jobs |-> None]
    /\ swapped' = {}
    /\ UNCHANGED <<reviewed, device, inUse, content>>

Next ==
    \/ \E c \in Clients :
          \/ \E d \in Disks : Preflight(c, d)
          \/ StartCalled(c)
          \/ StartRefused(c)
          \/ StartAccepted(c)
          \/ StartNotSpawned(c)
          \/ StartExhausted(c)
    \/ \E p \in Paths : Cancel(p)
    \/ \E j \in Jobs : Worker(j)
    \/ \E d \in Disks : Replug(d) \/ Automount(d)
    \/ BusLost
    \/ Crash

Spec == Init /\ [][Next]_vars

(* The operating system keeps running the worker thread and every tool it  *)
(* calls returns; nothing is assumed of clients, disks, bus or crashes.    *)
FairSpec == Spec /\ \A j \in Jobs : WF_vars(Worker(j))
-----------------------------------------------------------------------------
TypeOK ==
    /\ state \in InstallerState
    /\ preflight \in [id : Disks \cup {None}, device : Devices \cup {None}]
    /\ jobPath \in Paths
    /\ nextJob \in 1 .. MaxJob
    /\ workerActive \in BOOLEAN
    /\ pc \in [Jobs -> Steps]
    /\ target \in [Jobs -> Disks \cup {None}]
    /\ dev \in [Jobs -> Devices \cup {None}]
    /\ storage \in [Jobs -> BOOLEAN]
    /\ reviewed \in [Clients -> Disks \cup {None}]
    /\ starting \in [Clients -> Disks \cup {None}]
    /\ device \in [Disks -> Devices \cup {None}]
    /\ inUse \subseteq Disks
    /\ mounts \in Seq(Disks)
    /\ content \in [Disks -> {"original", "blank", "deployed", "configured", "bootable"}]
    /\ bus \in BOOLEAN
    /\ told \subseteq Paths
    /\ erased \subseteq Jobs \X Disks
    /\ consent \in [Jobs -> Disks \cup {None}]
    /\ swapped \subseteq Disks

(* At most one worker thread runs, whatever cancels, retries and second    *)
(* clients do: worker_active outlives a cancelled or failed state.         *)
Running(j) == pc[j] \notin {"none", "done"}

OneWorker == \A i, j \in Jobs : Running(i) /\ Running(j) => i = j

(* A job only ever overwrites a disk with the phrase that the client who   *)
(* started it had typed, although another client may have replaced the     *)
(* preflight since and devices may have been renamed; or one that was      *)
(* plugged in where the job's tools were already writing.                  *)
ErasesConsented ==
    [][\A x \in erased' \ erased :
          Phrase[x[2]] = Phrase[consent[x[1]]] \/ x[2] \in swapped]_vars

(* "Complete: the target was finalized and is safe to boot": the target    *)
(* of the current job holds a bootable system and is no longer mounted,    *)
(* unless another disk took its place under the tools.                     *)
CompleteIsBootable ==
    state = "complete" /\ swapped = {} =>
        /\ content[target[jobPath]] = "bootable"
        /\ target[jobPath] \notin Mounted

(* Once a client was told that its cancel was accepted, that job does not  *)
(* overwrite a disk any more, wherever its worker was.                     *)
NoEraseAfterCancel == [][\A x \in erased' \ erased : x[1] \notin told]_vars

(* A job may be reported failed after its cancel was accepted (the worker  *)
(* had already failed), but then no disk was overwritten by it.            *)
CancelledThenFailedUntouched ==
    [][state = "cancelled" /\ state' = "failed" =>
          \A d \in Disks : <<jobPath', d>> \notin erased']_vars

(* The worker slot is always given back, so a retry that was offered is    *)
(* eventually possible.                                                    *)
SlotReleased == workerActive ~> ~workerActive

(* What StateChanged and Status advertise as retryable can eventually be   *)
(* started again, unless the daemon was restarted meanwhile.               *)
RetryHonoured == IsRetryable(state) ~> Startable \/ state = "idle"

(* The inductive invariant behind the theorems of Installer_proofs: what   *)
(* was preflighted and targeted is a disk; the running worker holds the    *)
(* slot and serves the current job path; job numbers are handed out in     *)
(* order; and once its storage was started a job can be neither cancelled  *)
(* nor have been told so, while a cancel accepted before keeps the guard   *)
(* of the storage boundary closed.  Only jobs that started their storage   *)
(* have overwritten anything.                                              *)
Targeted ==
    /\ preflight # NoDisk => preflight.id \in Disks
    /\ \A j \in Jobs : Running(j) => target[j] \in Disks

SlotHeld == \A j \in Jobs : Running(j) => workerActive /\ jobPath = j

Numbered ==
    /\ \A j \in Jobs : pc[j] # "none" => j < nextJob
    /\ nextJob < MaxJob => jobPath < nextJob /\ \A p \in told : p < nextJob

Irrevocable == {"destructive", "deploying", "finalizing", "complete", "failed"}

Boundary ==
    \A j \in Jobs : Running(j) =>
        /\ storage[j] => j \notin told /\ state \in Irrevocable
        /\ storage[j] \/ pc[j] \in {"verify", "revalidate", "failed", "record", "release"}
        /\ pc[j] \in {"verify", "revalidate"} /\ j \in told => state = "cancelled"

Recorded ==
    \A x \in erased : pc[x[1]] # "none" /\ (Running(x[1]) => storage[x[1]])

Inductive == TypeOK /\ Targeted /\ SlotHeld /\ Numbered /\ Boundary /\ Recorded

(* The installer implements the contract about the irreversible step.      *)
Stage(j) ==
    CASE pc[j] = "none" -> "unborn"
      [] pc[j] = "done" -> "closed"
      [] Running(j) /\ j \in told -> "withdrawn"
      [] Running(j) /\ j \notin told /\ storage[j] -> "committed"
      [] Running(j) /\ j \notin told /\ ~storage[j] -> "open"

ContractStage == [j \in Jobs |-> Stage(j)]

Wiped == {j \in Jobs : \E d \in Disks : <<j, d>> \in erased}

Contract == INSTANCE EraseContract WITH stage <- ContractStage, wiped <- Wiped

ImplementsContract == Contract!ContractSpec

(* What InstallerState::Cancelled is documented to mean, for every job     *)
(* path a client was ever told is cancelled.                               *)
CancelledIsUntouched == \A x \in erased : x[1] \notin told
=============================================================================
