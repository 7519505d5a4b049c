--------------------------------- MODULE Work ---------------------------------
(***************************************************************************)
(* devcore-workd: clients of the session bus define environments, submit   *)
(* jobs in them under identifiers of their own and ask for cancellation.   *)
(* The registry of jobs is JobContract, which JobCoordinator implements;   *)
(* the commands of the jobs run in systemd scopes and change the named     *)
(* Podman containers.  A restart of the service forgets definitions and    *)
(* jobs, but neither the scopes nor the containers.                        *)
(***************************************************************************)
EXTENDS Policy

CONSTANTS
    Names,       \* environment names
    Specs,       \* what else a definition says: image, workspace, network
    Pinned,      \* those whose image is pinned by a digest
    Jobs,        \* job identifiers
    Kinds,       \* the operations that are submitted
    MaxLife,     \* bound on the number of service lifetimes
    None

ASSUME KindAssumption ==
    Kinds \subseteq {"create", "exec", "stop", "remove", "build", "git", "test",
                     "analysis", "emulator"}
ASSUME PinnedAssumption == Pinned \subseteq Specs
ASSUME LifeAssumption == MaxLife \in Nat \ {0}

VARIABLES
    (* WorkState: environments and the snapshot taken when it was made.    *)
    environments, snapshot,
    (* Its JobCoordinator, as JobContract describes it.                    *)
    phase, asked, stored,
    (* For each registered job: what was submitted, and what its worker    *)
    (* knows of its child.                                                 *)
    request, child,
    (* The scope devcore-job-<id>, and the container of each name.         *)
    unit, container,
    (* The live condition of the machine; the service's lifetime.          *)
    machine, life,
    (* History: the definitions clients were told are accepted under each  *)
    (* name, in this lifetime.                                             *)
    told

registryVars == <<phase, asked, stored>>
definitionVars == <<environments, told>>
vars == <<definitionVars, snapshot, registryVars, request, child, unit, container, machine, life>>

Registry == INSTANCE JobContract

Class(kind) ==
    CASE kind \in {"exec", "git"} -> "interactive"
      [] kind = "emulator" -> "emulator"
      [] kind = "analysis" -> "indexer"
      [] OTHER -> "build"

Requests == [name : Names, kind : Kinds, spec : Specs]

Scopes == [request : Requests, life : 1 .. MaxLife]

Containers == [spec : Specs, up : BOOLEAN, life : 1 .. MaxLife]

ASSUME NothingAssumption == None \notin Specs \cup Requests \cup Scopes

Init ==
    /\ environments = [n \in Names |-> None]
    /\ machine \in Conditions
    /\ snapshot = machine
    /\ Registry!ContractInit
    /\ request = [j \in Jobs |-> None]
    /\ child = [j \in Jobs |-> "none"]
    /\ unit = [j \in Jobs |-> None]
    /\ container = [n \in Names |-> None]
    /\ life = 1
    /\ told = [n \in Names |-> {}]
-----------------------------------------------------------------------------
(* The D-Bus methods.                                                      *)

Record(n, s) ==
    /\ environments' = [environments EXCEPT ![n] = s]
    /\ told' = [told EXCEPT ![n] = @ \cup {s}]
    /\ UNCHANGED <<snapshot, registryVars, request, child, unit, container, machine, life>>

(* Mutant: a name in use is defined anew.                                  *)
DefineAgain(n, s) == s \in Pinned /\ Record(n, s)

(* define_environment: a mutable image or a name in use is refused.        *)
Define(n, s) ==
    /\ s \in Pinned
    /\ environments[n] = None
    /\ Record(n, s)

(* ensure_environment, when the name is defined: only an identical         *)
(* definition is accepted.  (When it is not, it is define_environment.)    *)
EnsureDefined(n, s) ==
    /\ environments[n] = s
    /\ Record(n, s)

(* start_in_scope refuses what the snapshot's policy defers.               *)
Admitted(kind) == ~Deferred(snapshot, Class(kind))

(* create, exec, stop, remove, start_build, start_test and the Git         *)
(* operations: the definition is read now and goes into the command.       *)
Submit(n, j, kind) ==
    /\ environments[n] # None
    /\ Admitted(kind)
    /\ Registry!Accept(j)
    /\ request' = [request EXCEPT ![j] =
           [name |-> n, kind |-> kind, spec |-> environments[n]]]
    /\ UNCHANGED <<definitionVars, snapshot, child, unit, container, machine, life>>

Cancel(j) ==
    /\ Registry!Ask(j)
    /\ UNCHANGED <<definitionVars, snapshot, request, child, unit, container, machine, life>>
-----------------------------------------------------------------------------
(* The worker of a job.                                                    *)

NoThread(j) ==
    /\ Registry!Drop(j)
    /\ request' = [request EXCEPT ![j] = None]
    /\ UNCHANGED <<definitionVars, snapshot, child, unit, container, machine, life>>

Begin(j) ==
    /\ Registry!Begin(j)
    /\ UNCHANGED <<definitionVars, snapshot, request, child, unit, container, machine, life>>

(* systemd-run fails when the unit of that name is still there: a command  *)
(* of an earlier lifetime.                                                 *)
UnitFree(j) == unit[j] = None

Spawn(j) ==
    /\ phase[j] = "running" /\ child[j] = "none"
    /\ \/ /\ UnitFree(j)
          /\ child' = [child EXCEPT ![j] = "own"]
          /\ unit' = [unit EXCEPT ![j] = [request |-> request[j], life |-> life]]
       \/ /\ ~UnitFree(j)
          /\ child' = [child EXCEPT ![j] = "bad"]
          /\ UNCHANGED unit
    /\ UNCHANGED <<definitionVars, snapshot, registryVars, request, container, machine, life>>

(* A token that is set before the spawn.                                   *)
CancelBeforeSpawn(j) ==
    /\ phase[j] = "running" /\ child[j] = "none" /\ j \in asked
    /\ child' = [child EXCEPT ![j] = "killed"]
    /\ UNCHANGED <<definitionVars, snapshot, registryVars, request, unit, container, machine, life>>

(* persist has written all three files.                                    *)
Persist(j) ==
    /\ child[j] \in {"ok", "bad", "killed"}
    /\ Registry!Store(j)
    /\ UNCHANGED <<definitionVars, snapshot, request, child, unit, container, machine, life>>

(* Mutant: the exit status of the command is not looked at.                *)
VerdictOfExit(c) == IF c = "killed" THEN "cancelled" ELSE "succeeded"

Verdict(c) ==
    CASE c = "ok" -> "succeeded" [] c = "bad" -> "failed" [] c = "killed" -> "cancelled"

Finish(j) ==
    /\ child[j] \in {"ok", "bad", "killed"} /\ j \in stored
    /\ Registry!Finish(j, Verdict(child[j]))
    /\ UNCHANGED <<definitionVars, snapshot, request, child, unit, container, machine, life>>

(* The spawn or a write to the store failed.                               *)
WorkerFailed(j) ==
    /\ child[j] # "own" /\ j \notin stored
    /\ Registry!Finish(j, "failed")
    /\ UNCHANGED <<definitionVars, snapshot, request, child, unit, container, machine, life>>
-----------------------------------------------------------------------------
(* Podman: what the command of a scope does to the container of its name,  *)
(* and whether it says it succeeded.                                       *)

Become(n, c) == container' = [container EXCEPT ![n] = c]

(* podman run --detach --name: the name must be free.  A container that    *)
(* does not start stays under its name.                                    *)
RunNamed(s, ok) ==
    LET n == s.request.name IN
    /\ container[n] = None
    /\ Become(n, [spec |-> s.request.spec, up |-> ok, life |-> s.life])

(* podman exec: the program runs in whatever container has the name.       *)
Exec(s) ==
    LET n == s.request.name IN
    /\ container[n] # None /\ container[n].up
    /\ UNCHANGED container

StopNamed(s) ==
    LET n == s.request.name IN
    /\ container[n] # None
    /\ Become(n, [container[n] EXCEPT !.up = FALSE])

(* podman rm: a container that is up is not removed.                       *)
RemoveNamed(s) ==
    LET n == s.request.name IN
    /\ container[n] # None /\ ~container[n].up
    /\ Become(n, None)

Command(s, ok) ==
    CASE s.request.kind = "create" -> RunNamed(s, ok)
      [] s.request.kind = "exec" -> Exec(s)
      [] s.request.kind = "stop" -> StopNamed(s) /\ ok
      [] s.request.kind = "remove" -> RemoveNamed(s) /\ ok
      [] OTHER -> UNCHANGED container       \* podman run --rm

(* The scope ends with the command, and the worker reaps it if it is its   *)
(* own.  Podman may fail without having done anything.                     *)
Own(j) == unit[j].life = life /\ child[j] = "own"

CommandEnds(j, ok) ==
    /\ unit[j] # None
    /\ Command(unit[j], ok) \/ (~ok /\ UNCHANGED container)
    /\ unit' = [unit EXCEPT ![j] = None]
    /\ child' = IF Own(j) THEN [child EXCEPT ![j] = IF ok THEN "ok" ELSE "bad"] ELSE child
    /\ UNCHANGED <<definitionVars, snapshot, registryVars, request, machine, life>>

(* SIGTERM to the child's group: Podman may have done its work already.    *)
CommandKilled(j) ==
    /\ child[j] = "own" /\ j \in asked
    /\ UNCHANGED container \/ \E ok \in BOOLEAN : Command(unit[j], ok)
    /\ unit' = [unit EXCEPT ![j] = None]
    /\ child' = [child EXCEPT ![j] = "killed"]
    /\ UNCHANGED <<definitionVars, snapshot, registryVars, request, machine, life>>
-----------------------------------------------------------------------------
Drift ==
    /\ machine' \in Conditions
    /\ UNCHANGED <<definitionVars, snapshot, registryVars, request, child, unit, container, life>>

(* The service dies and is activated again; some commands die with it.     *)
Restart ==
    /\ life < MaxLife
    /\ life' = life + 1
    /\ environments' = [n \in Names |-> None]
    /\ snapshot' = machine
    /\ Registry!Restart
    /\ request' = [j \in Jobs |-> None]
    /\ child' = [j \in Jobs |-> "none"]
    /\ \E lost \in SUBSET Jobs : unit' = [j \in Jobs |-> IF j \in lost THEN None ELSE unit[j]]
    /\ told' = [n \in Names |-> {}]
    /\ UNCHANGED <<container, machine>>

Next ==
    \/ \E n \in Names :
          \/ \E s \in Specs : Define(n, s) \/ EnsureDefined(n, s)
          \/ \E j \in Jobs, kind \in Kinds : Submit(n, j, kind)
    \/ \E j \in Jobs :
          \/ Cancel(j) \/ NoThread(j) \/ Begin(j) \/ Spawn(j) \/ CancelBeforeSpawn(j)
          \/ Persist(j) \/ Finish(j) \/ WorkerFailed(j)
          \/ CommandKilled(j) \/ \E ok \in BOOLEAN : CommandEnds(j, ok)
    \/ Drift
    \/ Restart

Spec == Init /\ [][Next]_vars
-----------------------------------------------------------------------------
TypeOK ==
    /\ environments \in [Names -> Pinned \cup {None}]
    /\ snapshot \in Conditions /\ machine \in Conditions
    /\ phase \in [Jobs -> {"unknown", "queued", "running", "succeeded", "failed", "cancelled"}]
    /\ asked \subseteq Jobs /\ stored \subseteq Jobs
    /\ request \in [Jobs -> Requests \cup {None}]
    /\ child \in [Jobs -> {"none", "own", "ok", "bad", "killed"}]
    /\ unit \in [Jobs -> Scopes \cup {None}]
    /\ container \in [Names -> Containers \cup {None}]
    /\ life \in 1 .. MaxLife
    /\ told \in [Names -> SUBSET Specs]

(* What clients were told is accepted under a name is what jobs run with:  *)
(* a job has the one definition that every client who called Define or     *)
(* Ensure for its name in this lifetime had accepted.                      *)
EnsuredIsUsed ==
    \A j \in Jobs : LET r == request[j] IN
        r # None => told[r.name] = {r.spec}

(* A command of Exec that finds a container finds one made from the very   *)
(* definition it was submitted with, when both were submitted in one       *)
(* lifetime; also when it runs in a later one that has other definitions.  *)
ExecInItsDefinition ==
    \A j \in Jobs : LET s == unit[j] IN
        s # None /\ s.request.kind = "exec" =>
            LET c == container[s.request.name] IN
            c # None /\ c.life = s.life => c.spec = s.request.spec

(* A job is not reported succeeded while a command runs under its          *)
(* identifier, be it its own or one that an earlier lifetime left behind.  *)
SucceededIsOver == \A j \in Jobs : phase[j] = "succeeded" => unit[j] = None

(* No command of this lifetime runs that the snapshot's policy defers.     *)
DeferredNeverRuns ==
    \A j \in Jobs : unit[j] # None /\ unit[j].life = life =>
        ~Deferred(snapshot, Class(unit[j].request.kind))

(* The inductive invariant behind Studio_proofs.                           *)
Defined ==
    \A n \in Names : told[n] = IF environments[n] = None THEN {} ELSE {environments[n]}

Requested ==
    \A j \in Jobs :
        /\ request[j] = None <=> phase[j] = "unknown"
        /\ request[j] # None =>
              /\ request[j].spec = environments[request[j].name]
              /\ ~Deferred(snapshot, Class(request[j].kind))

Scoped ==
    \A j \in Jobs :
        /\ child[j] = "own" => unit[j] # None /\ unit[j].life = life /\ phase[j] = "running"
        /\ unit[j] # None /\ unit[j].life = life => child[j] = "own" /\ unit[j].request = request[j]
        /\ unit[j] # None => unit[j].life <= life
        /\ phase[j] \in {"unknown", "queued"} => child[j] = "none"
        /\ child[j] = "ok" => unit[j] = None
        /\ phase[j] = "succeeded" => child[j] = "ok"

Contained ==
    \A n \in Names : container[n] # None =>
        /\ container[n].life <= life
        /\ container[n].life = life => container[n].spec = environments[n]

(* What is left of a lifetime agrees on the definitions it had.            *)
Agreed ==
    \A j \in Jobs : unit[j] # None =>
        /\ \A i \in Jobs :
              unit[i] # None /\ unit[i].life = unit[j].life
                 /\ unit[i].request.name = unit[j].request.name =>
                     unit[i].request.spec = unit[j].request.spec
        /\ LET c == container[unit[j].request.name] IN
              c # None /\ c.life = unit[j].life => c.spec = unit[j].request.spec

Inductive ==
    TypeOK /\ Defined /\ Requested /\ Scoped /\ Contained /\ Agreed
=============================================================================
