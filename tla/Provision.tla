------------------------------- MODULE Provision -------------------------------
(***************************************************************************)
(* The provisioning service (features/provision/daemon): the slot for one  *)
(* request, the worker thread that runs a plan's operations one after the  *)
(* other, the status in memory and its copy on disk, from which a          *)
(* restarted service resumes.  Handlers run one at a time and interleave   *)
(* with the worker; a write of the copy may fail; the service may die      *)
(* between any two steps.                                                  *)
(***************************************************************************)
EXTENDS Naturals, Sequences

CONSTANTS
    Plans,        \* what the planner can answer: [ids, ops, external]
    MaxRequests,  \* bound on the number of accepted requests
    WritesFail,   \* a write of the state file may fail
    None          \* no request, no bundle

Requests == 1 .. MaxRequests

Ops == UNION {{p.ops[i] : i \in 1 .. Len(p.ops)} : p \in Plans}

Names == {op.id : op \in Ops}

ASSUME BoundAssumption == MaxRequests \in Nat /\ WritesFail \in BOOLEAN
ASSUME PlanAssumption ==
    \A p \in Plans : p.ops \in Seq(Ops) /\ p.external \in BOOLEAN /\ p.ids # <<>>
ASSUME NothingAssumption == None \notin Requests /\ None \notin Names /\ None \notin Plans

VARIABLES
    memory,     \* Runtime.state
    disk,       \* the state file
    up,         \* the service is running
    active,     \* the request that holds the slot
    issued,     \* how many requests were accepted, over all lives
    token,      \* requests whose cancellation was accepted
    plan,       \* the plan each request was accepted with
    pc, index,  \* the worker thread of each request: its place, its operation
    installed   \* history: the operations whose program succeeded, and for whom

slotVars   == <<up, active, issued, token, plan>>
threadVars == <<pc, index>>
vars == <<memory, disk, slotVars, threadVars, installed>>

Steps == {"none", "begin", "probed", "loop", "execute", "spawning", "running", "executed",
          "clear", "done"}

(* PersistedState::default.                                                *)
Fresh ==
    [request |-> None, phase |-> "idle", network |-> "unknown", ids |-> <<>>,
     completed |-> {}, current |-> None]

Init ==
    /\ memory = Fresh /\ disk = Fresh
    /\ up = TRUE
    /\ active = None
    /\ issued = 0
    /\ token = {}
    /\ plan = [r \in Requests |-> None]
    /\ pc = [r \in Requests |-> "none"]
    /\ index = [r \in Requests |-> 1]
    /\ installed = {}

(* set_state: the status changes and is written out; a failed write is     *)
(* ignored, and the file keeps what it held.                               *)
SetState(status) ==
    /\ memory' = status
    /\ \/ disk' = status
       \/ WritesFail /\ UNCHANGED disk
-----------------------------------------------------------------------------
(* Handlers.  Status, Plan and Catalog change nothing.                     *)

SlotFree == active = None

(* Mutant: every start begins from nothing.                                *)
ProgressNever(p) == {}

(* Progress is kept for the same selection, in the same order.             *)
Progress(p) == IF memory.ids = p.ids THEN memory.completed ELSE {}

(* start, for a plan the caller consented to; the next identifier is not   *)
(* used by any other life of the service either.                           *)
Start(p) ==
    /\ up /\ SlotFree
    /\ issued < MaxRequests
    /\ SetState([request |-> issued + 1, phase |-> "waiting-network", network |-> "unknown",
                 ids |-> p.ids, completed |-> Progress(p), current |-> None])
    /\ active' = issued + 1
    /\ issued' = issued + 1
    /\ plan' = [plan EXCEPT ![issued + 1] = p]
    /\ pc' = [pc EXCEPT ![issued + 1] = "begin"]
    /\ UNCHANGED <<up, token, index, installed>>

(* cancel of the active request; of any other it is refused.               *)
Cancel(r) ==
    /\ up /\ active = r
    /\ token' = token \cup {r}
    /\ UNCHANGED <<memory, disk, up, active, issued, plan, threadVars, installed>>
-----------------------------------------------------------------------------
(* run.                                                                    *)

Goto(r, from, to) == pc[r] = from /\ pc' = [pc EXCEPT ![r] = to]

Operation(r) == plan[r].ops[index[r]]

MoreToDo(r) == index[r] <= Len(plan[r].ops)

(* An outcome is recorded and nothing is left to do but give up the slot.  *)
Conclude(r, step, phase) ==
    /\ Goto(r, step, "clear")
    /\ SetState([memory EXCEPT !.phase = phase, !.current = None])
    /\ UNCHANGED <<slotVars, index, installed>>

NothingToRun(r) ==
    /\ Conclude(r, "begin", "external-provider-required")
    /\ plan[r].ops = <<>>

(* The probe has a token of its own and ends by itself.                    *)
ProbeNetwork(r, network) ==
    /\ Goto(r, "begin", "probed")
    /\ plan[r].ops # <<>>
    /\ SetState([memory EXCEPT !.network = network])
    /\ UNCHANGED <<slotVars, index, installed>>

AwaitNetwork(r) ==
    /\ memory.network # "connected"
    /\ Conclude(r, "probed", "waiting-network")

BeginOperations(r) ==
    /\ memory.network = "connected"
    /\ Goto(r, "probed", "loop")
    /\ SetState([memory EXCEPT !.phase = "running"])
    /\ UNCHANGED <<slotVars, index, installed>>

AlreadyDone(r) == Operation(r).id \in memory.completed

SkipDone(r) ==
    /\ Goto(r, "loop", "loop")
    /\ MoreToDo(r) /\ AlreadyDone(r)
    /\ index' = [index EXCEPT ![r] = @ + 1]
    /\ UNCHANGED <<memory, disk, slotVars, installed>>

(* The token is looked at between operations, ...                          *)
CancelledBetween(r) ==
    /\ r \in token
    /\ Conclude(r, "loop", "cancelled")
    /\ MoreToDo(r) /\ ~AlreadyDone(r)

BeginOperation(r) ==
    /\ r \notin token
    /\ Goto(r, "loop", "execute")
    /\ MoreToDo(r) /\ ~AlreadyDone(r)
    /\ SetState([memory EXCEPT !.current = Operation(r).id])
    /\ UNCHANGED <<slotVars, index, installed>>

(* Mutant: the engine does not look at the token before the spawn.         *)
EnterRegardless(r) ==
    /\ Goto(r, "execute", "spawning")
    /\ UNCHANGED <<memory, disk, slotVars, index, installed>>

(* ... by the engine before it builds and spawns the command, ...          *)
EnterEngine(r) ==
    /\ r \notin token
    /\ Goto(r, "execute", "spawning")
    /\ UNCHANGED <<memory, disk, slotVars, index, installed>>

(* (a cancel accepted from here on does not keep the program from starting)*)
Spawn(r) ==
    /\ Goto(r, "spawning", "running")
    /\ UNCHANGED <<memory, disk, slotVars, index, installed>>

(* Mutant: a cancelled worker forgets to give up the slot.                 *)
CancelledSlotKept(r) ==
    /\ r \in token
    /\ \E step \in {"execute", "running"} : Goto(r, step, "done")
    /\ SetState([memory EXCEPT !.phase = "cancelled", !.current = None])
    /\ UNCHANGED <<slotVars, index, installed>>

(* ... and by the engine while the program runs.                           *)
CancelledWithin(r) ==
    /\ r \in token
    /\ \E step \in {"execute", "running"} : Conclude(r, step, "cancelled")

(* The program succeeds, ...                                               *)
Succeed(r) ==
    /\ Goto(r, "running", "executed")
    /\ installed' = installed \cup {[by |-> r, op |-> Operation(r)]}
    /\ UNCHANGED <<memory, disk, slotVars, index>>

(* Mutant: a program that failed is recorded as done.                      *)
FailRecorded(r) ==
    /\ Goto(r, "running", "executed")
    /\ UNCHANGED <<memory, disk, slotVars, index, installed>>

(* ... or it fails, or cannot be spawned.                                  *)
FailOperation(r) == \E step \in {"spawning", "running"} : Conclude(r, step, "failed")

RecordDone(r) ==
    /\ Goto(r, "executed", "loop")
    /\ SetState([memory EXCEPT !.completed = @ \cup {Operation(r).id}, !.current = None])
    /\ index' = [index EXCEPT ![r] = @ + 1]
    /\ UNCHANGED <<slotVars, installed>>

Finish(r) ==
    /\ pc[r] = "loop" /\ ~MoreToDo(r)
    /\ Conclude(r, "loop",
                IF plan[r].external THEN "external-provider-required" ELSE "succeeded")

ClearActive(r) ==
    /\ Goto(r, "clear", "done")
    /\ active' = IF active = r THEN None ELSE active
    /\ UNCHANGED <<memory, disk, up, issued, token, plan, index, installed>>

Program(r) == Succeed(r) \/ FailOperation(r)

Worker(r) ==
    \/ NothingToRun(r)
    \/ \E network \in {"connected", "offline", "unknown"} : ProbeNetwork(r, network)
    \/ AwaitNetwork(r)
    \/ BeginOperations(r)
    \/ SkipDone(r)
    \/ CancelledBetween(r)
    \/ BeginOperation(r)
    \/ EnterEngine(r)
    \/ Spawn(r)
    \/ CancelledWithin(r)
    \/ RecordDone(r)
    \/ Finish(r)
    \/ ClearActive(r)
-----------------------------------------------------------------------------
(* The service dies, with its worker and the program it supervises.        *)
Crash ==
    /\ up
    /\ up' = FALSE
    /\ active' = None
    /\ pc' = [r \in Requests |-> IF pc[r] = "none" THEN "none" ELSE "done"]
    /\ index' = [r \in Requests |-> 1]
    /\ memory' = Fresh
    /\ UNCHANGED <<disk, issued, token, plan, installed>>

(* Mutant: a restarted service believes the phase it finds.                *)
RecoveredVerbatim(status) == status

Recovered(status) ==
    IF status.phase \in {"running", "waiting-network"}
    THEN [status EXCEPT !.phase = "interrupted", !.current = None]
    ELSE status

(* load.  A service that cannot write the file does not come up.           *)
Load ==
    /\ ~up
    /\ up' = TRUE
    /\ memory' = Recovered(disk)
    /\ disk' = Recovered(disk)
    /\ UNCHANGED <<active, issued, token, plan, threadVars, installed>>

Next ==
    \/ \E p \in Plans : Start(p)
    \/ \E r \in Requests : Cancel(r) \/ Worker(r) \/ Program(r)
    \/ Crash
    \/ Load

Spec == Init /\ [][Next]_vars

(* The thread is scheduled; nothing is assumed of programs that were not   *)
(* cancelled, of callers, crashes and restarts.                            *)
FairSpec == Spec /\ \A r \in Requests : WF_vars(Worker(r))
-----------------------------------------------------------------------------
Phases ==
    {"idle", "waiting-network", "running", "cancelled", "failed", "succeeded",
     "external-provider-required", "interrupted"}

Status ==
    [request : Requests \cup {None}, phase : Phases,
     network : {"connected", "offline", "unknown"},
     ids : {p.ids : p \in Plans} \cup {<<>>},
     completed : SUBSET Names, current : Names \cup {None}]

TypeOK ==
    /\ memory \in Status /\ disk \in Status
    /\ up \in BOOLEAN
    /\ active \in Requests \cup {None}
    /\ issued \in 0 .. MaxRequests
    /\ token \subseteq Requests
    /\ plan \in [Requests -> Plans \cup {None}]
    /\ pc \in [Requests -> Steps]
    /\ index \in [Requests -> Nat \ {0}]
    /\ installed \subseteq [by : Requests, op : Ops]

Live(r) == pc[r] \notin {"none", "done"}

(* The worker of every request holds the slot until its last step, so no   *)
(* two workers run package tools or write the state file at once.          *)
Slotted == \A r \in Requests : Live(r) => active = r

(* The bundle was installed for the selection ids, by request r or before. *)
InstalledFor(ids, r, id) ==
    \E done \in installed :
        done.by <= r /\ plan[done.by].ids = ids /\ done.op.id = id

(* What is offered for resumption was really done, for the selection it is *)
(* offered for, in memory and in the file, whatever writes failed and      *)
(* whenever the service died.                                              *)
Done(status) ==
    \A id \in status.completed : InstalledFor(status.ids, status.request, id)

CompletedInstalled == Done(memory) /\ Done(disk)

(* "succeeded": every operation of the plan this request was started with  *)
(* has been carried out, by this request or by an earlier one of the same  *)
(* selection, whose environment image may have been another one: start     *)
(* compares the selections alone.                                          *)
Carried(status) ==
    status.phase = "succeeded" =>
        LET p == plan[status.request]
        IN  \A i \in 1 .. Len(p.ops) : InstalledFor(p.ids, status.request, p.ops[i].id)

SucceededInstalled == Carried(memory) /\ Carried(disk)

(* "running" is shown only while a worker runs, also after a restart, and  *)
(* "cancelled" only for a request somebody cancelled.                      *)
PhaseHonest ==
    /\ memory.phase = "running" => active = memory.request /\ Live(active)
    /\ \A status \in {memory, disk} : status.phase = "cancelled" => status.request \in token

(* The inductive invariant behind the theorems of Provision_proofs: what   *)
(* was accepted has a plan and, while it runs, the slot and the status;    *)
(* the worker's place fits its phase; everything before its index is done. *)
Serving ==
    /\ active # None => Live(active)
    /\ ~up => active = None /\ memory = Fresh
    /\ \A r \in Requests :
          /\ r <= issued <=> plan[r] # None
          /\ r <= issued <=> pc[r] # "none"
          /\ Live(r) => active = r /\ memory.request = r
    /\ \A status \in {memory, disk} :
          /\ status.request # None =>
                status.request <= issued /\ status.ids = plan[status.request].ids
          /\ status.request = None => status.completed = {}
          /\ status.phase \in {"succeeded", "cancelled"} => status.request # None

Placed ==
    \A r \in Requests :
        /\ pc[r] \in {"none", "begin", "probed"} => index[r] = 1
        /\ pc[r] \in {"begin", "probed", "clear"} => memory.phase # "running"
        /\ pc[r] \in {"execute", "spawning", "running", "executed"} => MoreToDo(r)
        /\ pc[r] = "executed" => [by |-> r, op |-> Operation(r)] \in installed
        /\ pc[r] \in {"loop", "execute", "spawning", "running", "executed"} =>
              \A i \in 1 .. Len(plan[r].ops) :
                  i < index[r] => plan[r].ops[i].id \in memory.completed

Inductive == TypeOK /\ Serving /\ Placed /\ PhaseHonest /\ CompletedInstalled

(* Once its cancel was accepted, a request runs one more program at most:  *)
(* the one whose engine had looked at the token before, and then only a    *)
(* spawn was left to do.                                                   *)
NoProgramAfterCancel ==
    [][\A r \in token : pc[r] \notin {"spawning", "running"}
                         => pc'[r] \notin {"spawning", "running"}]_vars

(* No failed write is outstanding.                                         *)
InStep == up => disk = memory

(* Progress with a selection is not lost before another one is started, by *)
(* crashes least of all, unless a write has failed before.                 *)
ProgressKept ==
    [][InStep /\ disk'.ids = disk.ids => disk.completed \subseteq disk'.completed]_vars

(* A cancelled request gives up the slot.                                  *)
CancelFreesSlot == \A r \in Requests : r \in token ~> active # r
=============================================================================
