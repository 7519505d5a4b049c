---------------------------- MODULE JobCoordinator ----------------------------
(***************************************************************************)
(* The supervised execution of jobs (shared/execution): the registry that  *)
(* callers share, the worker thread of each job, the process group it      *)
(* supervises, and the store its result is written to.  Callers interleave *)
(* with the workers at every lock; the processes fork, exit and answer     *)
(* signals as they like; writes to the store fail; and the service may be  *)
(* restarted, which forgets the registry but not the store.                *)
(***************************************************************************)
EXTENDS Naturals, FiniteSets

CONSTANTS
    Jobs,        \* request identifiers, chosen by the callers
    Cells,       \* JobCell objects, one for each accepted request
    Heirs,       \* descendants a job's leader may fork into its group
    Stubborn,    \* descendants that ignore SIGTERM
    Holding,     \* descendants that keep the output pipes open
    MaxLife,     \* bound on the number of service lifetimes
    None         \* no cell, no job, no record

ASSUME HeirAssumption == Stubborn \subseteq Heirs /\ Holding \subseteq Heirs
ASSUME LifeAssumption == MaxLife \in Nat \ {0}
ASSUME NothingAssumption ==
    None \notin Jobs \cup Cells \cup {"cancelled"} \cup ((1 .. MaxLife) \X Cells)

VARIABLES
    (* JobCoordinator.jobs, and the status and token of each cell.         *)
    registry, status, token,
    (* The worker thread of each cell: its request, where it is, and the   *)
    (* state of the ExecutionResult it has so far.                         *)
    job, pc, outcome,
    (* Its process group: the direct child and the descendants alive.      *)
    leader, heirs,
    (* JobStore: which run wrote each of a job's three files.              *)
    record,
    (* The number of the service's lifetime.                               *)
    life

cellVars  == <<registry, status, token>>
workVars  == <<job, pc, outcome>>
groupVars == <<leader, heirs>>
vars == <<cellVars, workVars, groupVars, record, life>>

JobLifecycle == {"queued", "running", "succeeded", "failed", "cancelled"}

JobState == {"succeeded", "failed", "cancelled"}

(* JobLifecycle::is_terminal.                                              *)
IsTerminal(s) == s \in {"succeeded", "failed", "cancelled"}

Files == {"json", "stdout", "stderr"}

Steps == {"none", "inserted", "queued", "start", "supervise", "grace", "join"}
             \cup Files \cup {"finish", "done"}

Run(c) == <<life, c>>

Init ==
    /\ registry = [j \in Jobs |-> None]
    /\ status = [c \in Cells |-> "queued"]
    /\ token = [c \in Cells |-> FALSE]
    /\ job = [c \in Cells |-> None]
    /\ pc = [c \in Cells |-> "none"]
    /\ outcome = [c \in Cells |-> None]
    /\ leader = [c \in Cells |-> "none"]
    /\ heirs = [c \in Cells |-> {}]
    /\ record = [j \in Jobs |-> [f \in Files |-> None]]
    /\ life = 1
-----------------------------------------------------------------------------
(* The callers.                                                            *)

(* contains_key; a duplicate is refused and changes nothing.               *)
NewId(j) == registry[j] = None

(* start: a new cell is inserted under the registry's lock.                *)
Insert(j, c) ==
    /\ NewId(j)
    /\ pc[c] = "none"
    /\ registry' = [registry EXCEPT ![j] = c]
    /\ job' = [job EXCEPT ![c] = j]
    /\ pc' = [pc EXCEPT ![c] = "inserted"]
    /\ UNCHANGED <<status, token, outcome, groupVars, record, life>>

(* The thread is spawned outside the lock, ...                             *)
SpawnWorker(c) ==
    /\ pc[c] = "inserted"
    /\ pc' = [pc EXCEPT ![c] = "queued"]
    /\ UNCHANGED <<cellVars, job, outcome, groupVars, record, life>>

(* ... or it cannot be, and the identifier is removed again.               *)
SpawnWorkerFailed(c) ==
    /\ pc[c] = "inserted"
    /\ registry' = [registry EXCEPT ![job[c]] = None]
    /\ token' = [token EXCEPT ![c] = FALSE]
    /\ job' = [job EXCEPT ![c] = None]
    /\ pc' = [pc EXCEPT ![c] = "none"]
    /\ UNCHANGED <<status, outcome, groupVars, record, life>>

(* cancel only sets the token, in whatever state the job is.               *)
Cancel(j) ==
    /\ registry[j] # None
    /\ token' = [token EXCEPT ![registry[j]] = TRUE]
    /\ UNCHANGED <<registry, status, workVars, groupVars, record, life>>
-----------------------------------------------------------------------------
(* run_registered_job and ExecutionEngine::run.                            *)

Goto(c, from, to) == pc[c] = from /\ pc' = [pc EXCEPT ![c] = to]

SetStatus(c, s) == status' = [status EXCEPT ![c] = s]

(* The final status of an error of the engine or of the store.             *)
FailFrom(c, step) ==
    /\ Goto(c, step, "done")
    /\ SetStatus(c, "failed")
    /\ UNCHANGED <<registry, token, job, outcome, groupVars, record, life>>

BeginJob(c) ==
    /\ Goto(c, "queued", "start")
    /\ SetStatus(c, "running")
    /\ UNCHANGED <<registry, token, job, outcome, groupVars, record, life>>

(* A token that is set already: nothing is spawned.                        *)
CancelledEarly(c) ==
    /\ token[c]
    /\ Goto(c, "start", "json")
    /\ outcome' = [outcome EXCEPT ![c] = "cancelled"]
    /\ UNCHANGED <<cellVars, job, groupVars, record, life>>

(* The child becomes the leader of its own process group.  (The token may  *)
(* be set between the look at it and the spawn.)                           *)
SpawnChild(c) ==
    \/ /\ Goto(c, "start", "supervise")
       /\ leader' = [leader EXCEPT ![c] = "running"]
       /\ UNCHANGED <<cellVars, job, outcome, heirs, record, life>>
    \/ FailFrom(c, "start")

(* Mutant: any exit but success counts as a cancellation.                  *)
VerdictBySignal(exit) == IF exit = "ok" THEN "succeeded" ELSE "cancelled"

Verdict(exit) == IF exit = "ok" THEN "succeeded" ELSE "failed"

(* try_wait finds the leader dead before the token was seen.               *)
ReapChild(c) ==
    /\ leader[c] \in {"ok", "bad"}
    /\ Goto(c, "supervise", "join")
    /\ outcome' = [outcome EXCEPT ![c] = Verdict(leader[c])]
    /\ leader' = [leader EXCEPT ![c] = "reaped"]
    /\ UNCHANGED <<cellVars, job, heirs, record, life>>

(* SIGTERM to the group.  The leader may have died since try_wait.         *)
TerminateGroup(c) ==
    /\ token[c]
    /\ Goto(c, "supervise", "grace")
    /\ outcome' = [outcome EXCEPT ![c] = "cancelled"]
    /\ heirs' = [heirs EXCEPT ![c] = @ \cap Stubborn]
    /\ \/ UNCHANGED leader
       \/ leader[c] = "running" /\ leader' = [leader EXCEPT ![c] = "bad"]
    /\ UNCHANGED <<cellVars, job, record, life>>

(* The leader ends within the grace period: nothing more is sent.          *)
ReapTerminated(c) ==
    /\ leader[c] \in {"ok", "bad"}
    /\ Goto(c, "grace", "join")
    /\ leader' = [leader EXCEPT ![c] = "reaped"]
    /\ UNCHANGED <<cellVars, job, outcome, heirs, record, life>>

(* Mutant: no SIGKILL follows.                                             *)
KillGroupNever(c) == FALSE

(* The grace period is over: SIGKILL to the group, and wait.               *)
KillGroup(c) ==
    /\ Goto(c, "grace", "join")
    /\ leader' = [leader EXCEPT ![c] = "reaped"]
    /\ heirs' = [heirs EXCEPT ![c] = {}]
    /\ UNCHANGED <<cellVars, job, outcome, record, life>>

(* Mutant: the readers are not waited for.                                 *)
OutputClosedAlways(c) == TRUE

(* Both pipes are at their end: nobody holds their other end.              *)
OutputClosed(c) == heirs[c] \cap Holding = {}

(* The output readers are joined.                                          *)
JoinReaders(c) ==
    /\ OutputClosed(c)
    /\ Goto(c, "join", "json")
    /\ UNCHANGED <<cellVars, job, outcome, groupVars, record, life>>

(* A read from a pipe fails: its error ends the run.                       *)
ReaderFailed(c) == FailFrom(c, "join")

After(f) == CASE f = "json" -> "stdout" [] f = "stdout" -> "stderr" [] f = "stderr" -> "finish"

(* JobStore::persist: three files, each replaced atomically.               *)
WriteFile(c, f) ==
    /\ Goto(c, f, After(f))
    /\ record' = [record EXCEPT ![job[c]][f] = Run(c)]
    /\ UNCHANGED <<cellVars, job, outcome, groupVars, life>>

(* Mutant: a write that fails does not fail the job.                       *)
WriteFailedIgnored(c, f) ==
    /\ Goto(c, f, After(f))
    /\ UNCHANGED <<cellVars, job, outcome, groupVars, record, life>>

WriteFailed(c, f) == FailFrom(c, f)

FinishJob(c) ==
    /\ Goto(c, "finish", "done")
    /\ SetStatus(c, outcome[c])
    /\ UNCHANGED <<registry, token, job, outcome, groupVars, record, life>>

Worker(c) ==
    \/ BeginJob(c)
    \/ CancelledEarly(c)
    \/ SpawnChild(c)
    \/ ReapChild(c)
    \/ TerminateGroup(c)
    \/ ReapTerminated(c)
    \/ KillGroup(c)
    \/ JoinReaders(c)
    \/ \E f \in Files : WriteFile(c, f) \/ WriteFailed(c, f)
    \/ FinishJob(c)
-----------------------------------------------------------------------------
(* The processes, and the service as a whole.                              *)

LeaderExit(c, exit) ==
    /\ leader[c] = "running"
    /\ leader' = [leader EXCEPT ![c] = exit]
    /\ UNCHANGED <<cellVars, workVars, heirs, record, life>>

Fork(c, h) ==
    /\ leader[c] = "running" /\ h \notin heirs[c]
    /\ heirs' = [heirs EXCEPT ![c] = @ \cup {h}]
    /\ UNCHANGED <<cellVars, workVars, leader, record, life>>

HeirExit(c, h) ==
    /\ h \in heirs[c]
    /\ heirs' = [heirs EXCEPT ![c] = @ \ {h}]
    /\ UNCHANGED <<cellVars, workVars, leader, record, life>>

(* devcore-workd restarts.  What its jobs leave running is not followed.   *)
Restart ==
    /\ life < MaxLife
    /\ life' = life + 1
    /\ registry' = [j \in Jobs |-> None]
    /\ status' = [c \in Cells |-> "queued"]
    /\ token' = [c \in Cells |-> FALSE]
    /\ job' = [c \in Cells |-> None]
    /\ pc' = [c \in Cells |-> "none"]
    /\ outcome' = [c \in Cells |-> None]
    /\ leader' = [c \in Cells |-> "none"]
    /\ heirs' = [c \in Cells |-> {}]
    /\ UNCHANGED record

Next ==
    \/ \E j \in Jobs : Cancel(j) \/ \E c \in Cells : Insert(j, c)
    \/ \E c \in Cells :
          \/ SpawnWorker(c) \/ SpawnWorkerFailed(c)
          \/ Worker(c) \/ ReaderFailed(c)
          \/ \E exit \in {"ok", "bad"} : LeaderExit(c, exit)
          \/ \E h \in Heirs : Fork(c, h) \/ HeirExit(c, h)
    \/ Restart

Spec == Init /\ [][Next]_vars

(* Threads are scheduled; start goes on to its spawn.  Nothing is assumed  *)
(* of the processes (a job may run for ever), of reads or of restarts.     *)
FairSpec ==
    /\ Spec
    /\ \A c \in Cells : WF_vars(Worker(c)) /\ WF_vars(SpawnWorker(c) \/ SpawnWorkerFailed(c))
-----------------------------------------------------------------------------
TypeOK ==
    /\ registry \in [Jobs -> Cells \cup {None}]
    /\ status \in [Cells -> JobLifecycle]
    /\ token \in [Cells -> BOOLEAN]
    /\ job \in [Cells -> Jobs \cup {None}]
    /\ pc \in [Cells -> Steps]
    /\ outcome \in [Cells -> JobState \cup {None}]
    /\ leader \in [Cells -> {"none", "running", "ok", "bad", "reaped"}]
    /\ heirs \in [Cells -> SUBSET Heirs]
    /\ record \in [Jobs -> [Files -> ((1 .. MaxLife) \X Cells) \cup {None}]]
    /\ life \in 1 .. MaxLife

Live(c) == pc[c] \notin {"none", "done"}

(* Every running job answers Status and Cancel under its identifier: no    *)
(* other request ever took its place in the registry.                      *)
Registered == \A c \in Cells : Live(c) => registry[job[c]] = c

(* A verdict of the program is shown only when all three files in the      *)
(* store are those of this run, not of an earlier job of the same name.    *)
VerdictStored ==
    \A j \in Jobs : LET c == registry[j] IN
        c # None /\ status[c] \in {"succeeded", "cancelled"} =>
            \A f \in Files : record[j][f] = Run(c)

(* The stored output is complete: when a verdict is shown the direct child *)
(* is gone and nobody holds the pipes any more.                            *)
OutputComplete ==
    \A c \in Cells : status[c] \in {"succeeded", "cancelled"} =>
        leader[c] \in {"none", "reaped"} /\ heirs[c] \cap Holding = {}

(* A final status stays what it is until the service restarts, whatever is *)
(* started or cancelled under that identifier.                             *)
VerdictFinal ==
    [][\A j \in Jobs : LET c == registry[j] IN
          c # None /\ IsTerminal(status[c]) /\ life' = life =>
              registry'[j] = c /\ status'[c] = status[c]]_vars

(* A cancelled job ends, whatever its leader and its descendants do with   *)
(* SIGTERM, unless a descendant keeps the output pipe for ever.            *)
CancelEndsUnlessHeld ==
    \A c \in Cells :
        []<>(heirs[c] \cap Holding = {}) =>
            (token[c] ~> IsTerminal(status[c]) \/ ~token[c])

(* The inductive invariant behind the theorems of JobCoordinator_proofs:   *)
(* the registry and the cells refer to each other; the status shown, the   *)
(* outcome found and the process group fit the worker's place; and the     *)
(* store holds what the worker has written so far and no record of a run   *)
(* that has not written one.                                               *)
Wired ==
    /\ \A j \in Jobs : registry[j] # None => job[registry[j]] = j /\ pc[registry[j]] # "none"
    /\ \A c \in Cells : pc[c] # "none" => job[c] \in Jobs /\ registry[job[c]] = c

Staged ==
    \A c \in Cells :
        /\ pc[c] = "none" => ~token[c]
        /\ pc[c] \in {"none", "inserted", "queued"} => status[c] = "queued"
        /\ status[c] = "queued" => pc[c] \in {"none", "inserted", "queued"}
        /\ IsTerminal(status[c]) <=> pc[c] = "done"
        /\ pc[c] \in {"grace", "join", "finish"} \cup Files => outcome[c] \in JobState
        /\ outcome[c] = "cancelled" => token[c]
        /\ status[c] = "cancelled" => outcome[c] = "cancelled"
        /\ pc[c] \in {"none", "inserted", "queued", "start", "supervise"} =>
              outcome[c] # "cancelled"

Grouped ==
    \A c \in Cells :
        /\ pc[c] \in {"none", "inserted", "queued", "start"} => leader[c] = "none" /\ heirs[c] = {}
        /\ pc[c] \in Files \cup {"finish"} \/ status[c] \in {"succeeded", "cancelled"} =>
              leader[c] \in {"none", "reaped"} /\ heirs[c] \cap Holding = {}
        /\ pc[c] = "join" => leader[c] = "reaped"

Written(c) ==
    CASE pc[c] = "stdout" -> {"json"}
      [] pc[c] = "stderr" -> {"json", "stdout"}
      [] pc[c] = "finish" -> Files
      [] status[c] \in {"succeeded", "cancelled"} -> Files
      [] OTHER -> {}

Kept == \A c \in Cells : \A f \in Written(c) : record[job[c]][f] = Run(c)

Fresh ==
    \A j \in Jobs, f \in Files, c \in Cells :
        /\ record[j][f] = Run(c) =>
              job[c] = j /\ pc[c] \in {"stdout", "stderr", "finish", "done"}
        /\ job[c] = j /\ pc[c] \in {"stdout", "stderr"} => record[j]["stderr"] # Run(c)

Past == \A j \in Jobs, f \in Files : record[j][f] # None => record[j][f][1] <= life

Inductive == TypeOK /\ Wired /\ Staged /\ Grouped /\ Kept /\ Fresh /\ Past

(* The registry implements the contract its callers rely on.               *)
Known(j) == registry[j] # None

ContractPhase ==
    [j \in Jobs |-> IF Known(j) THEN status[registry[j]] ELSE "unknown"]

Asked == {j \in Jobs : Known(j) /\ token[registry[j]]}

Stored ==
    {j \in Jobs : Known(j) /\ \A f \in Files : record[j][f] = Run(registry[j])}

Contract == INSTANCE JobContract
    WITH phase <- ContractPhase, asked <- Asked, stored <- Stored

ImplementsContract == Contract!ContractSpec

(* What the documentation says of cancellation: the supervised process     *)
(* group is terminated, no descendant is left running.                     *)
CancelLeavesNobody == \A c \in Cells : status[c] = "cancelled" => heirs[c] = {}
=============================================================================
