---------------------------- MODULE InstallerWizard ----------------------------
(***************************************************************************)
(* The installer's window (features/installer/app) as the client of the    *)
(* installer service.  Each button that needs the service starts a thread  *)
(* with one blocking call; its answer is applied to the window by the      *)
(* event loop, in whatever order the threads come back.  Of the service,   *)
(* which Installer models step by step, each handler is one step, and the  *)
(* worker has one per state and two for a failure.                         *)
(***************************************************************************)
EXTENDS InstallJob, Naturals

CONSTANTS
    Disks,
    MaxThread,     \* bound: calls under way at a time
    MaxJob,        \* bound: jobs of the service, one less after its death
    MayCrash,      \* the service may die, once
    None

ASSUME WizardAssumption ==
    /\ MaxThread \in Nat \ {0} /\ MaxJob \in Nat \ {0}
    /\ MayCrash \in BOOLEAN /\ None \notin Disks

Threads == 1..MaxThread
Jobs == 1..MaxJob
Paths == 0..MaxJob    \* 0 is no path yet

(* Numbers start anew when the service does; <<life, number>> is a job.    *)
Lives == 0..1
NoJob == <<0, 0>>

VARIABLES
    (* InstallerWindow's properties.                                       *)
    step,            \* 1 Disk, 2 settings and Review, 7 Install, 8 Finish
    busy,
    disk_options,    \* the list of disks has come
    required,        \* the disk whose phrase has to be typed
    job_path,        \* the number of its job, with the life of it as history
    progress,        \* "cancelled", or another text of the Install page
    thread,          \* the call of each thread, and its answer
    (* The service.                                                        *)
    state, preflight, jobPath, nextJob,
    worker,          \* "none", "works", or "cleans" after an error
    target,          \* the disk of the worker's job
    life,            \* 1 after the service died
    (* History.                                                            *)
    phrase,          \* the disk whose phrase came with the Start of that job
    erased,          \* the jobs that overwrote their disk
    completed,       \* the jobs that were completed
    overtaken        \* a review came after the Start that it was made for

formVars == <<disk_options, required>>
windowVars == <<step, busy, formVars, job_path, progress>>
serviceVars == <<state, preflight, jobPath, nextJob, worker, target, phrase, life, erased, completed>>
vars == <<windowVars, thread, serviceVars, overtaken>>

Free == [op |-> "none", arg |-> None, reply |-> "none", value |-> None]

Init ==
    /\ step = 1 /\ busy = FALSE
    /\ disk_options = FALSE /\ required = None
    /\ job_path = NoJob /\ progress = "other"
    /\ thread = [t \in Threads |-> IF t = 1 THEN [Free EXCEPT !.op = "ListDisks"] ELSE Free]
    /\ state = "idle" /\ preflight = None /\ jobPath = 0 /\ nextJob = 1
    /\ worker = "none" /\ target = None /\ life = 0
    /\ phrase = None /\ erased = {} /\ completed = {} /\ overtaken = FALSE
-----------------------------------------------------------------------------
(* The user.                                                               *)

Under(op) == {t \in Threads : thread[t].op = op}

Idle == Under("none")

(* thread::spawn of one call.                                              *)
Call(op, arg) ==
    /\ Idle # {}
    /\ thread' = [thread EXCEPT ![CHOOSE t \in Idle : TRUE] =
                    [op |-> op, arg |-> arg, reply |-> "none", value |-> None]]

User == UNCHANGED <<serviceVars, job_path, progress, overtaken>>

DiscoverDisks ==
    /\ step = 1 /\ ~busy
    /\ Call("ListDisks", None)
    /\ User /\ UNCHANGED <<step, busy, formVars>>

(* "Review selected disk" and "Continue" on the Disk page; the latter does *)
(* not ask for a disk, and the service refuses an empty one.  The combo box*)
(* may show any disk: the user selects one, and a list that comes late     *)
(* puts its first one there.                                               *)
RunPreflight(disk_id) ==
    /\ step = 1 /\ ~busy
    /\ disk_id # None <=> disk_options
    /\ Call("Preflight", disk_id)
    /\ User /\ UNCHANGED <<step, busy, formVars>>

(* Welcome is a part of the Disk page, and the pages from 2 to 6 are one:  *)
(* what is entered there is left out, and turning them changes nothing     *)
(* else.                                                                   *)
Pages == {1, 2, 7, 8}

BackPage ==
    /\ step = 2 /\ ~busy
    /\ step' = 1
    /\ User /\ UNCHANGED <<busy, formVars, thread>>

(* The button asks for the phrase and two equal passwords, which the user  *)
(* may type before every press: what is submitted is the required phrase.  *)
StartEnabled == step = 2 /\ ~busy

StartInstall ==
    /\ StartEnabled
    /\ Call("Start", required)
    /\ busy' = TRUE
    /\ User
    /\ UNCHANGED <<step, formVars>>

(* The button of the Install page.                                         *)
RefreshStatus ==
    /\ step = 7 /\ job_path # NoJob
    /\ Call("Status", job_path)
    /\ User /\ UNCHANGED <<step, busy, formVars>>

(* Mutant: the timer runs while its page is shown.                         *)
TimerOfPage == busy /\ step = 7

(* The timer's page need not be shown.                                     *)
TimerRuns == busy

Timer ==
    /\ TimerRuns
    /\ Call("Status", job_path)
    /\ User /\ UNCHANGED <<step, busy, formVars>>

CancelInstall ==
    /\ step = 7 /\ busy
    /\ Call("Cancel", job_path)
    /\ User /\ UNCHANGED <<step, busy, formVars>>
-----------------------------------------------------------------------------
(* The service answers a call.                                             *)

Reply(t, reply, value) ==
    thread' = [thread EXCEPT ![t] = [op |-> @.op, arg |-> None, reply |-> reply, value |-> value]]

Called(t, op) ==
    /\ thread[t].op = op /\ thread[t].reply = "none"
    /\ UNCHANGED windowVars

Served(t, op) == Called(t, op) /\ UNCHANGED overtaken

workerActive == worker # "none"

Keeps == UNCHANGED <<nextJob, worker, target, phrase, life, erased, completed>>

(* Any call may fail and leave the service as it was: no bus, no disk, an  *)
(* ineligible one, no authorization, unusable settings, an unknown job.    *)
ServeError(t) ==
    /\ thread[t].op # "none" /\ Served(t, thread[t].op)
    /\ Reply(t, "error", None)
    /\ UNCHANGED serviceVars

ServeList(t) ==
    /\ Served(t, "ListDisks")
    /\ Reply(t, "ok", None)
    /\ UNCHANGED serviceVars

(* The service gave this window a job.                                     *)
Accepted ==
    \/ job_path # NoJob
    \/ \E s \in Under("Start") : thread[s].reply = "ok"

ServePreflight(t) ==
    /\ Called(t, "Preflight")
    /\ ~workerActive /\ thread[t].arg # None
    /\ preflight' = thread[t].arg /\ state' = "ready"
    /\ Reply(t, "ok", thread[t].arg)
    /\ overtaken' = (overtaken \/ Accepted)
    /\ Keeps /\ UNCHANGED jobPath

(* Mutant: the phrase is compared by the window alone.                     *)
ConfirmedByWindow(d) == preflight # None

Confirmed(d) == preflight = d

(* The first part of start, with its lock.                                 *)
Accept(t) ==
    /\ Served(t, "Start")
    /\ ~workerActive /\ state \in {"ready", "cancelled", "failed"}
    /\ Confirmed(thread[t].arg) /\ preflight # None
    /\ nextJob + life \in Jobs    \* bound
    /\ jobPath' = nextJob /\ nextJob' = nextJob + 1
    /\ UNCHANGED <<preflight, life, erased, completed>>

ServeStart(t) ==
    /\ Accept(t)
    /\ state' = "preparing" /\ worker' = "works" /\ target' = preflight
    /\ phrase' = thread[t].arg
    /\ Reply(t, "ok", <<life, nextJob>>)

(* The worker's thread cannot be made: the job is there, and has failed.   *)
ServeStartUnspawned(t) ==
    /\ Accept(t)
    /\ state' = "failed" /\ UNCHANGED <<worker, target, phrase>>
    /\ Reply(t, "error", None)

OfThisJob(t) == jobPath # 0 /\ thread[t].arg[2] = jobPath

(* What the window tells apart in an answer.                               *)
Seen ==
    IF state \in {"complete", "cancelled"} THEN state
    ELSE IF IsCancellable(state) \/ state = "preparing" THEN "cancellable"
    ELSE "other"

ServeStatus(t) ==
    /\ Served(t, "Status")
    /\ OfThisJob(t)
    /\ Reply(t, "ok", Seen)
    /\ UNCHANGED serviceVars

ServeCancel(t) ==
    /\ Served(t, "Cancel")
    /\ OfThisJob(t)
    /\ state' = IF IsCancellable(state) THEN "cancelled" ELSE state
    /\ Reply(t, "ok", IsCancellable(state))
    /\ Keeps /\ UNCHANGED <<preflight, jobPath>>

(* The job is cancelled, and its signal cannot be sent.                    *)
ServeCancelUnannounced(t) ==
    /\ Served(t, "Cancel")
    /\ OfThisJob(t) /\ IsCancellable(state)
    /\ state' = "cancelled"
    /\ Reply(t, "error", None)
    /\ Keeps /\ UNCHANGED <<preflight, jobPath>>

Serve(t) ==
    \/ ServeError(t) \/ ServeList(t) \/ ServePreflight(t)
    \/ ServeStart(t) \/ ServeStartUnspawned(t)
    \/ ServeStatus(t) \/ ServeCancel(t) \/ ServeCancelUnannounced(t)
-----------------------------------------------------------------------------
(* run_install_worker, one step per state; it gives the slot back last.    *)

Worker(from) ==
    /\ worker = from
    /\ UNCHANGED <<windowVars, thread, overtaken, preflight, jobPath, nextJob, life>>

(* The storage boundary; what the window is told from there to the end is  *)
(* one state.                                                              *)
Erase ==
    /\ Worker("works")
    /\ state = "preparing" /\ state' = "destructive"
    /\ erased' = erased \cup {<<life, jobPath>>}
    /\ UNCHANGED <<worker, target, phrase, completed>>

Complete ==
    /\ Worker("works")
    /\ state = "destructive" /\ state' = "complete"
    /\ completed' = completed \cup {<<life, jobPath>>}
    /\ UNCHANGED <<worker, target, phrase, erased>>

(* A tool or a progress signal fails, the signal of a complete job as well.*)
Fail ==
    /\ Worker("works")
    /\ state \notin {"cancelled", "failed"}
    /\ worker' = "cleans"
    /\ UNCHANGED <<state, target, phrase, erased, completed>>

(* InstallJob::fail looks at no state: not at a cancel that was accepted   *)
(* since, nor at "complete".                                               *)
RecordFailure ==
    /\ Worker("cleans")
    /\ state' = "failed" /\ worker' = "works"
    /\ UNCHANGED <<target, phrase, erased, completed>>

Release ==
    /\ Worker("works")
    /\ state \in {"failed", "cancelled", "complete"}
    /\ worker' = "none" /\ target' = None /\ phrase' = None
    /\ UNCHANGED <<state, erased, completed>>

Work == Erase \/ Complete \/ Fail \/ RecordFailure \/ Release

(* The service dies with its jobs; calls under way fail, also those whose  *)
(* work is done and whose answer was not sent; the next call activates it  *)
(* again.                                                                  *)
Crash ==
    /\ MayCrash /\ life = 0
    /\ nextJob \in Jobs    \* bound: a number is left
    /\ life' = 1
    /\ state' = "idle" /\ preflight' = None /\ jobPath' = 0 /\ nextJob' = 1
    /\ worker' = "none" /\ target' = None /\ phrase' = None
    /\ \E unsent \in SUBSET Threads :
          thread' = [t \in Threads |->
              IF thread[t].op # "none" /\ (thread[t].reply = "none" \/ t \in unsent)
              THEN [op |-> thread[t].op, arg |-> None, reply |-> "error", value |-> None]
              ELSE thread[t]]
    /\ UNCHANGED <<windowVars, overtaken, erased, completed>>
-----------------------------------------------------------------------------
(* invoke_from_event_loop: an answer reaches the window.                   *)

Ends(t) == thread' = [thread EXCEPT ![t] = Free]

Back(t, op) == thread[t].op = op /\ thread[t].reply = "ok" /\ Ends(t)

Window == UNCHANGED <<serviceVars, overtaken>>

Value(t) == thread[t].value

(* Only the start of an installation takes an error for more than a text.  *)
BusyAfterError(op) == busy /\ op # "Start"

ApplyError(t) ==
    /\ thread[t].reply = "error"
    /\ Ends(t)
    /\ busy' = BusyAfterError(thread[t].op)
    /\ Window /\ UNCHANGED <<step, formVars, job_path, progress>>

ApplyList(t) ==
    /\ Back(t, "ListDisks")
    /\ disk_options' = TRUE
    /\ Window
    /\ UNCHANGED <<step, busy, required, job_path, progress>>

ApplyPreflight(t) ==
    /\ Back(t, "Preflight")
    /\ required' = Value(t)
    /\ step' = 2
    /\ overtaken' = (overtaken \/ job_path # NoJob)
    /\ UNCHANGED <<serviceVars, busy, disk_options, job_path, progress>>

ApplyStart(t) ==
    /\ Back(t, "Start")
    /\ job_path' = Value(t) /\ progress' = "other" /\ step' = 7
    /\ Window /\ UNCHANGED <<busy, formVars>>

(* Mutant: everything that ends the job is the end of the installation.    *)
FinishedAnyhow(s) == s \in {"complete", "cancelled"}

Finished(s) == s = "complete"

ApplyStatus(t) ==
    /\ Back(t, "Status")
    /\ busy' = (Value(t) = "cancellable")
    /\ progress' = IF Value(t) = "cancelled" THEN "cancelled" ELSE "other"
    /\ step' = IF Finished(Value(t)) THEN 8 ELSE step
    /\ Window /\ UNCHANGED <<formVars, job_path>>

ApplyCancel(t) ==
    /\ Back(t, "Cancel")
    /\ busy' = IF Value(t) THEN FALSE ELSE busy
    /\ progress' = IF Value(t) THEN "cancelled" ELSE "other"
    /\ Window /\ UNCHANGED <<step, formVars, job_path>>

Apply(t) ==
    \/ ApplyError(t) \/ ApplyList(t) \/ ApplyPreflight(t)
    \/ ApplyStart(t) \/ ApplyStatus(t) \/ ApplyCancel(t)
-----------------------------------------------------------------------------
Press ==
    \/ DiscoverDisks \/ (\E d \in Disks \cup {None} : RunPreflight(d))
    \/ BackPage \/ StartInstall \/ RefreshStatus \/ CancelInstall

Next ==
    \/ Press \/ Timer
    \/ \E t \in Threads : Serve(t) \/ Apply(t)
    \/ Work \/ Crash

Spec == Init /\ [][Next]_vars

(* Calls are answered, but Start, which waits for the user's authorization,*)
(* and answers applied; the worker's tools return; the timer fires, though *)
(* MaxThread calls are under way again and again; and Status is not        *)
(* refused for ever.  Nothing is assumed of the user.                      *)
Fairness ==
    /\ \A t \in Threads : WF_vars(thread[t].op # "Start" /\ Serve(t)) /\ WF_vars(Apply(t))
    /\ WF_vars(Work) /\ SF_vars(Timer)
    /\ SF_vars(\E t \in Threads : ServeStatus(t))

FairSpec == Spec /\ Fairness
-----------------------------------------------------------------------------
(* Properties.                                                             *)

Operations == {"none", "ListDisks", "Preflight", "Start", "Status", "Cancel"}

TypeOK ==
    /\ step \in Pages /\ busy \in BOOLEAN /\ disk_options \in BOOLEAN
    /\ {required, preflight, target, phrase} \subseteq Disks \cup {None}
    /\ job_path \in Lives \X Paths /\ jobPath \in Paths /\ nextJob \in 1..MaxJob + 1
    /\ progress \in {"cancelled", "other"} /\ state \in InstallerState
    /\ worker \in {"none", "works", "cleans"}
    /\ life \in Lives /\ overtaken \in BOOLEAN
    /\ \A t \in Threads :
          thread[t].op \in Operations /\ thread[t].reply \in {"none", "ok", "error"}
    /\ erased \subseteq Lives \X Jobs
    /\ completed \subseteq Lives \X Jobs

(* The disk that is overwritten is the one whose phrase the user submitted *)
(* with this Start, whatever was reviewed, listed and selected while it    *)
(* waited for authorization.                                               *)
ErasesTyped == [][erased' # erased => target = phrase]_vars

(* Types; and the Finish page, which says that one may restart, is shown   *)
(* only after a completed job.  Unless a late review led the user from the *)
(* Install page to a second installation, that is the job of this window,  *)
(* no other runs, and only one Start was submitted at a time.              *)
FinishEarned ==
    /\ TypeOK
    /\ step = 8 => completed # {}
    /\ ~overtaken =>
          /\ Under("Start") # {} => ~StartEnabled /\ \E t \in Threads : Under("Start") = {t}
          /\ step = 8 => job_path \in completed
          /\ step = 8 /\ workerActive => <<life, jobPath>> = job_path

(* The Install page speaks of a cancellation only if its job overwrote     *)
(* nothing, in whatever order the answers to Cancel, the timer's and the   *)
(* button's Status calls come back; a late review has to be excepted, as   *)
(* it makes an old job cancellable and lets another one begin.             *)
CancelShownTrue ==
    progress = "cancelled" /\ ~overtaken => job_path \notin erased

Authorizing == \E t \in Under("Start") : thread[t].reply = "none"

(* The service forgot the job of the page, or reset it for a review.       *)
Orphaned == Under("Start") = {} /\ (job_path[2] # jobPath \/ state = "ready")

(* The window does not stay busy, however late an answer of the time       *)
(* before a cancel is applied, unless the service lost the job.            *)
BusyEnds == busy ~> ~busy \/ Orphaned \/ Authorizing
=============================================================================
