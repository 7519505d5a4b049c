------------------------------- MODULE FirstBoot -------------------------------
(***************************************************************************)
(* The first-boot service (features/onboarding/firstboot and firstbootd):  *)
(* it serves one Apply at a time, runs six system tools, and publishes a   *)
(* completion record when all of them succeeded.  A tool may fail before   *)
(* or after it took effect, and the process may die at any step; systemd   *)
(* activates it for the next call, unless the record exists.  Apply is     *)
(* called by greeters, which may be gone before they are answered.         *)
(***************************************************************************)
EXTENDS Naturals, FiniteSets

CONSTANTS
    Choices,     \* the configurations a user may submit
    Account,     \* Account[c]: the user name in configuration c
    Shipped,     \* accounts that come with the image
    Pids,        \* process identifiers the service may get
    MaxGreeter,  \* bound on the number of greeter processes
    None         \* no configuration, no call, no process

ASSUME AccountAssumption == DOMAIN Account = Choices
ASSUME GreeterAssumption == MaxGreeter \in Nat \ {0}

Accounts == {Account[c] : c \in Choices} \cup Shipped
Greeters == 1 .. MaxGreeter
Calls == [by : Greeters, choice : Choices]

ASSUME NothingAssumption ==
    None \notin Choices \cup Pids \cup Accounts \cup Calls \cup {"ok", "error"}

VARIABLES
    (* The process.                                                        *)
    pid,       \* of the running service
    job,       \* the call it serves, under the lock
    step,      \* the tool it runs, or its place in commit
    (* The machine.                                                        *)
    applied,   \* applied[s]: the configuration setting s was taken from
    account,   \* what is known of each account
    made,      \* accounts made while the present call is served (history)
    record,    \* /var/lib/devcore/first-boot.conf
    temp,      \* processes whose temporary file is in the state directory
    (* The bus.                                                            *)
    calls,     \* Apply calls on their way
    answer     \* answer[g]: what greeter g got for its last call

procVars    == <<pid, job, step>>
machineVars == <<applied, account, made>>
serviceVars == <<pid, job, step, applied, account, made, record, temp, calls, answer>>

Settings == {"locale", "keymap", "timezone", "hostname"}
Tools == Settings \cup {"useradd", "chpasswd"}
Steps == Tools \cup {"idle", "create", "publish", "reply"}

(* Mutant: the record is committed before the password is set.             *)
AfterUnset == [locale |-> "keymap", keymap |-> "timezone", timezone |-> "hostname",
               hostname |-> "useradd", useradd |-> "create", chpasswd |-> "create"]

(* SystemBackend::apply runs the tools in this order; commit follows.      *)
After == [locale |-> "keymap", keymap |-> "timezone", timezone |-> "hostname",
          hostname |-> "useradd", useradd |-> "chpasswd", chpasswd |-> "create"]

ServiceInit ==
    /\ pid = None /\ job = None /\ step = "idle"
    /\ applied = [s \in Settings |-> None]
    /\ account = [a \in Accounts |-> IF a \in Shipped THEN "shipped" ELSE "absent"]
    /\ made = {}
    /\ record = None
    /\ temp = {}
    /\ calls = {}
    /\ answer = [g \in Greeters |-> None]
-----------------------------------------------------------------------------
(* D-Bus activates the service while there is no completion record.        *)
Activate(p) ==
    /\ pid = None
    /\ record = None
    /\ pid' = p
    /\ UNCHANGED <<job, step, machineVars, record, temp, calls, answer>>

(* Activation fails once the record exists.                                *)
NotActivated(call) ==
    /\ pid = None /\ record # None
    /\ call \in calls
    /\ calls' = calls \ {call}
    /\ answer' = [answer EXCEPT ![call.by] = "error"]
    /\ UNCHANGED <<procVars, machineVars, record, temp>>

(* Apply takes the lock.                                                   *)
Taken(call) ==
    /\ pid # None /\ step = "idle"
    /\ call \in calls
    /\ calls' = calls \ {call}

(* A value or the password is invalid, setup is complete, or the state     *)
(* cannot be inspected.                                                    *)
Refuse(call) ==
    /\ Taken(call)
    /\ answer' = [answer EXCEPT ![call.by] = "error"]
    /\ UNCHANGED <<procVars, machineVars, record, temp>>

(* Mutant: apply does not ask whether setup is complete.                   *)
RequiredAlways == TRUE

Required == record = None

Begin(call) ==
    /\ Taken(call)
    /\ Required
    /\ job' = call
    /\ step' = "locale"
    /\ made' = {}
    /\ UNCHANGED <<pid, applied, account, record, temp, answer>>
-----------------------------------------------------------------------------
(* The tools.                                                              *)

User == Account[job.choice]

(* useradd refuses a name that is taken.                                   *)
Takes(tool) ==
    \/ /\ tool \in Settings
       /\ applied' = [applied EXCEPT ![tool] = job.choice]
       /\ UNCHANGED <<account, made>>
    \/ /\ tool = "useradd" /\ account[User] = "absent"
       /\ account' = [account EXCEPT ![User] = "bare"]
       /\ made' = made \cup {User}
       /\ UNCHANGED applied
    \/ /\ tool = "chpasswd"
       /\ account' = [account EXCEPT ![User] = "ready"]
       /\ UNCHANGED <<applied, made>>

(* Mutant: an account that exists is taken for the one to create.          *)
RunToolAnyway ==
    /\ step \in Tools
    /\ step' = After[step]
    /\ \/ Takes(step)
       \/ /\ step = "useradd" /\ account[User] # "absent"
          /\ UNCHANGED machineVars
    /\ UNCHANGED <<pid, job, record, temp, calls, answer>>

RunTool ==
    /\ step \in Tools
    /\ step' = After[step]
    /\ Takes(step)
    /\ UNCHANGED <<pid, job, record, temp, calls, answer>>

(* A tool that is ended or fails may have taken effect or not.             *)
MayTake == (step \in Tools /\ Takes(step)) \/ UNCHANGED machineVars

Answered(outcome) ==
    /\ step' = "idle"
    /\ job' = None
    /\ answer' = [answer EXCEPT ![job.by] = outcome]

ToolFails ==
    /\ step \in Tools
    /\ MayTake
    /\ Answered("error")
    /\ UNCHANGED <<pid, record, temp, calls>>
-----------------------------------------------------------------------------
(* commit.                                                                 *)

(* The temporary file bears the process identifier and must not exist.     *)
CreateTemp ==
    /\ step = "create"
    /\ pid \notin temp
    /\ temp' = temp \cup {pid}
    /\ step' = "publish"
    /\ UNCHANGED <<pid, job, machineVars, record, calls, answer>>

CreateFails ==
    /\ step = "create"
    /\ Answered("error")
    /\ UNCHANGED <<pid, machineVars, record, temp, calls>>

(* Write, sync and rename.                                                 *)
Publish ==
    /\ step = "publish"
    /\ record' = job.choice
    /\ temp' = temp \ {pid}
    /\ step' = "reply"
    /\ UNCHANGED <<pid, job, machineVars, calls, answer>>

(* Any of them fails; the temporary file is removed.                       *)
PublishFails ==
    /\ step = "publish"
    /\ temp' = temp \ {pid}
    /\ Answered("error")
    /\ UNCHANGED <<pid, machineVars, record, calls>>

Reply ==
    /\ step = "reply"
    /\ Answered("ok")
    /\ UNCHANGED <<pid, machineVars, record, temp, calls>>

Serve ==
    \/ \E call \in calls : Refuse(call) \/ Begin(call)
    \/ RunTool
    \/ ToolFails
    \/ CreateTemp
    \/ CreateFails
    \/ Publish
    \/ PublishFails
    \/ Reply

(* The process dies, and the tool it runs with it.  The bus answers those  *)
(* who wait with an error.                                                 *)
Die ==
    /\ pid # None
    /\ pid' = None /\ job' = None /\ step' = "idle"
    /\ MayTake
    /\ calls' = {}
    /\ answer' = [g \in Greeters |->
                    IF (job # None /\ job.by = g) \/ \E call \in calls : call.by = g
                    THEN "error" ELSE answer[g]]
    /\ UNCHANGED <<record, temp>>
-----------------------------------------------------------------------------
ServiceTypeOK ==
    /\ pid \in Pids \cup {None}
    /\ job \in Calls \cup {None}
    /\ step \in Steps
    /\ applied \in [Settings -> Choices \cup {None}]
    /\ account \in [Accounts -> {"absent", "shipped", "bare", "ready"}]
    /\ made \subseteq Accounts
    /\ record \in Choices \cup {None}
    /\ temp \subseteq Pids
    /\ calls \subseteq Calls
    /\ answer \in [Greeters -> {"ok", "error", None}]
    /\ step # "idle" <=> job # None
    /\ job # None => pid # None

(* "Its completion record is atomically published after locale, keyboard,  *)
(* timezone, hostname, account, and password setup all succeed": while it  *)
(* exists the machine is set up as it says, whatever failed before.        *)
RecordImpliesApplied ==
    record # None =>
        /\ \A s \in Settings : applied[s] = record
        /\ account[Account[record]] = "ready"

(* Setup is applied once: nothing is changed any more after the record was *)
(* published, also not by a call of a greeter that was restarted.          *)
SettledOnce == [][record # None => UNCHANGED <<record, applied, account>>]_serviceVars

(* A password is only ever set for an account that the same call created:  *)
(* never for one that shipped with the image or that another call left.    *)
OwnAccountOnly ==
    [][\A a \in Accounts :
          account[a] # "ready" /\ account'[a] = "ready" => a \in made]_serviceVars
=============================================================================
