------------------------- MODULE InstallerWizard_proofs -------------------------
(***************************************************************************)
(* Theorems about InstallerWizard, for any number of disks, calls and      *)
(* jobs, and whatever call fails, is late or loses its answer.             *)
(***************************************************************************)
EXTENDS InstallerWizard, TLAPS

(* A thread holds one call.                                                *)
Shaped ==
    thread = [t \in Threads |-> [op |-> thread[t].op, arg |-> thread[t].arg,
                                 reply |-> thread[t].reply, value |-> thread[t].value]]

Answered(t, op) == thread[t].op = op /\ thread[t].reply = "ok"

(* What the service answers, by the call.                                  *)
CallsTyped ==
    \A t \in Threads :
        /\ thread[t].op = "Preflight" => thread[t].arg \in Disks \cup {None}
        /\ Answered(t, "Preflight") => thread[t].value \in Disks
        /\ Answered(t, "Start") => thread[t].value \in Lives \X Jobs
        /\ Answered(t, "Status") /\ thread[t].value = "complete" => completed # {}
        /\ Answered(t, "Cancel") => thread[t].value \in BOOLEAN

(* The worker's disk and number; numbers are not used twice in a life.     *)
JobTyped ==
    /\ workerActive => target = phrase /\ jobPath # 0
    /\ jobPath < nextJob
    /\ step = 8 \/ state = "complete" => completed # {}
    /\ \A j \in erased : j[1] <= life /\ (j[1] = life => j[2] < nextJob)

Inductive == Shaped /\ TypeOK /\ CallsTyped /\ JobTyped

(* One Start at a time, before the window has a job.                       *)
OneStart ==
    /\ \A t, u \in Threads : thread[t].op = "Start" /\ thread[u].op = "Start" => t = u
    /\ \A t \in Threads : thread[t].op = "Start" => busy /\ job_path = NoJob
    /\ job_path # NoJob <=> step \in {7, 8}

(* The service has this job, or lost it when it died.                      *)
Ours(j) == jobPath = 0 \/ j = <<life, jobPath>>

OneJob ==
    /\ ~Accepted => ~workerActive
    /\ job_path # NoJob => Ours(job_path)
    /\ \A t \in Threads : Answered(t, "Start") => Ours(thread[t].value)
    /\ \A t \in Threads : thread[t].op \in {"Status", "Cancel"} =>
            /\ thread[t].reply = "none" => thread[t].arg \in {NoJob, job_path}
            /\ thread[t].reply = "ok" => job_path # NoJob
    /\ Accepted /\ jobPath # 0 =>
            /\ state \notin {"idle", "ready"}
            /\ state \in {"preparing", "cancelled"} => <<life, jobPath>> \notin erased
            /\ state = "complete" => <<life, jobPath>> \in completed

(* What is said of the end of the job, on a page or on the way to it.      *)
SaysComplete ==
    step = 8 \/ \E t \in Threads : Answered(t, "Status") /\ thread[t].value = "complete"

SaysCancelled ==
    \/ progress = "cancelled"
    \/ \E t \in Threads : \/ Answered(t, "Status") /\ thread[t].value = "cancelled"
                          \/ Answered(t, "Cancel") /\ thread[t].value

SaidTrue ==
    /\ SaysComplete => job_path \in completed
    /\ SaysCancelled => job_path # NoJob /\ job_path \notin erased /\ state # "preparing"

Orderly == OneStart /\ OneJob /\ SaidTrue

(* All of this until a review comes too late.                              *)
InTime == ~overtaken => Orderly
-----------------------------------------------------------------------------
(***************************************************************************)
(* The four ways a step changes the threads.                              *)
(***************************************************************************)

Holds(t, op, arg, reply, value) ==
    /\ thread'[t].op = op /\ thread'[t].arg = arg
    /\ thread'[t].reply = reply /\ thread'[t].value = value

OthersKeep(t) == \A u \in Threads : u # t => thread'[u] = thread[u]

LEMMA ThreadSet ==
    ASSUME Shaped, NEW t \in Threads, NEW op, NEW arg, NEW reply, NEW value,
           thread' = [thread EXCEPT ![t] =
                        [op |-> op, arg |-> arg, reply |-> reply, value |-> value]]
    PROVE  Shaped' /\ Holds(t, op, arg, reply, value) /\ OthersKeep(t)
  <1>1. DOMAIN thread = Threads
    BY DEF Shaped
  <1>2. thread' = [u \in Threads |-> IF u = t
                     THEN [op |-> op, arg |-> arg, reply |-> reply, value |-> value]
                     ELSE thread[u]]
    BY <1>1
  <1>3. \A u \in Threads : thread[u] =
            [op |-> thread[u].op, arg |-> thread[u].arg,
             reply |-> thread[u].reply, value |-> thread[u].value]
    BY DEF Shaped
  <1>4. Holds(t, op, arg, reply, value) /\ OthersKeep(t)
    BY <1>2 DEF Holds, OthersKeep
  <1>5. \A u \in Threads : thread'[u] =
            [op |-> thread'[u].op, arg |-> thread'[u].arg,
             reply |-> thread'[u].reply, value |-> thread'[u].value]
    BY <1>3, <1>4 DEF Holds, OthersKeep
  <1>6. QED
    BY <1>2, <1>4, <1>5 DEF Shaped

LEMMA CallFacts ==
    ASSUME Shaped, NEW op, NEW arg, Call(op, arg)
    PROVE  \E t \in Threads : /\ thread[t].op = "none" /\ Shaped'
                              /\ Holds(t, op, arg, "none", None) /\ OthersKeep(t)
  <1>1. PICK t \in Idle : thread' = [thread EXCEPT ![t] =
                [op |-> op, arg |-> arg, reply |-> "none", value |-> None]]
    BY DEF Call
  <1>2. t \in Threads /\ thread[t].op = "none"
    BY DEF Idle, Under
  <1>3. QED
    BY <1>1, <1>2, ThreadSet

LEMMA ReplyFacts ==
    ASSUME Shaped, NEW t \in Threads, NEW reply, NEW value, Reply(t, reply, value)
    PROVE  Shaped' /\ OthersKeep(t) /\ Holds(t, thread[t].op, None, reply, value)
  <1>1. thread' = [thread EXCEPT ![t] =
            [op |-> thread[t].op, arg |-> None, reply |-> reply, value |-> value]]
    <2>1. DOMAIN thread = Threads
      BY DEF Shaped
    <2>2. QED
      BY <2>1 DEF Reply
  <1>2. QED
    BY <1>1, ThreadSet

LEMMA EndsFacts ==
    ASSUME Shaped, NEW t \in Threads, Ends(t)
    PROVE  Shaped' /\ Holds(t, "none", None, "none", None) /\ OthersKeep(t)
  BY ThreadSet DEF Ends, Free

LEMMA CrashFacts ==
    ASSUME Shaped, Crash
    PROVE  /\ Shaped'
           /\ \A t \in Threads :
                /\ thread'[t].op = thread[t].op
                /\ \/ thread'[t] = thread[t]
                   \/ thread'[t].reply = "error" /\ thread'[t].arg = None
  <1>1. PICK unsent \in SUBSET Threads :
            thread' = [t \in Threads |->
              IF thread[t].op # "none" /\ (thread[t].reply = "none" \/ t \in unsent)
              THEN [op |-> thread[t].op, arg |-> None, reply |-> "error", value |-> None]
              ELSE thread[t]]
    BY DEF Crash
  <1>2. \A t \in Threads : thread[t] =
            [op |-> thread[t].op, arg |-> thread[t].arg,
             reply |-> thread[t].reply, value |-> thread[t].value]
    BY DEF Shaped
  <1>3. ASSUME NEW t \in Threads
        PROVE  \/ thread'[t] = thread[t]
               \/ thread'[t] = [op |-> thread[t].op, arg |-> None,
                                reply |-> "error", value |-> None]
    BY <1>1
  <1>4. ASSUME NEW t \in Threads
        PROVE  /\ thread'[t].op = thread[t].op
               /\ \/ thread'[t] = thread[t]
                  \/ thread'[t].reply = "error" /\ thread'[t].arg = None
               /\ thread'[t] = [op |-> thread'[t].op, arg |-> thread'[t].arg,
                                reply |-> thread'[t].reply, value |-> thread'[t].value]
    <2>1. CASE thread'[t] = thread[t]
      <3>1. thread[t] = [op |-> thread[t].op, arg |-> thread[t].arg,
                         reply |-> thread[t].reply, value |-> thread[t].value]
        BY <1>2
      <3>2. QED
        BY <2>1, <3>1
    <2>2. CASE thread'[t] = [op |-> thread[t].op, arg |-> None, reply |-> "error", value |-> None]
      <3> DEFINE op == thread[t].op
      <3>1. thread'[t] = [op |-> op, arg |-> None, reply |-> "error", value |-> None]
        BY <2>2
      <3> HIDE DEF op
      <3>2. /\ thread'[t].op = op /\ thread'[t].arg = None
            /\ thread'[t].reply = "error" /\ thread'[t].value = None
        BY <3>1
      <3>3. QED
        BY <3>1, <3>2 DEF op
    <2>3. QED
      BY <1>3, <2>1, <2>2
  <1>5. thread' = [t \in Threads |-> thread'[t]]
    BY <1>1
  <1>6. Shaped'
    BY <1>4, <1>5 DEF Shaped
  <1>7. QED
    BY <1>4, <1>6
-----------------------------------------------------------------------------
(***************************************************************************)
(* Types, the number and the disk of the job.                              *)
(***************************************************************************)

Replies == {"none", "ok", "error"}

CallTyped(op, arg, reply, value, done) ==
    /\ op = "Preflight" => arg \in Disks \cup {None}
    /\ op = "Preflight" /\ reply = "ok" => value \in Disks
    /\ op = "Start" /\ reply = "ok" => value \in Lives \X Jobs
    /\ op = "Status" /\ reply = "ok" /\ value = "complete" => done # {}
    /\ op = "Cancel" /\ reply = "ok" => value \in BOOLEAN

ThreadsTyped == \A t \in Threads : thread[t].op \in Operations /\ thread[t].reply \in Replies

(* A step changes one call at most.                                        *)
LEMMA CallChanges ==
    ASSUME Inductive, NEW t \in Threads, NEW op \in Operations, NEW arg,
           NEW reply \in Replies, NEW value,
           Holds(t, op, arg, reply, value), OthersKeep(t), completed' = completed,
           CallTyped(op, arg, reply, value, completed)
    PROVE  CallsTyped' /\ ThreadsTyped'
  <1>1. ASSUME NEW u \in Threads
        PROVE  /\ thread'[u].op = "Preflight" => thread'[u].arg \in Disks \cup {None}
               /\ Answered(u, "Preflight")' => thread'[u].value \in Disks
               /\ Answered(u, "Start")' => thread'[u].value \in Lives \X Jobs
               /\ Answered(u, "Status")' /\ thread'[u].value = "complete" => completed' # {}
               /\ Answered(u, "Cancel")' => thread'[u].value \in BOOLEAN
               /\ thread'[u].op \in Operations /\ thread'[u].reply \in Replies
    <2>1. CASE u = t
      BY <2>1 DEF Holds, CallTyped, Answered
    <2>2. CASE u # t
      <3>1. thread'[u] = thread[u]
        BY <2>2 DEF OthersKeep
      <3>2. CallsTyped /\ TypeOK
        BY DEF Inductive
      <3>3. QED
        BY <3>1, <3>2 DEF CallsTyped, Answered, TypeOK, Replies
    <2>3. QED
      BY <2>1, <2>2
  <1>2. QED
    BY <1>1 DEF CallsTyped, ThreadsTyped

(* A step that leaves the calls alone.                                     *)
LEMMA CallsStay ==
    ASSUME Inductive, thread' = thread, completed \subseteq completed'
    PROVE  Shaped' /\ CallsTyped' /\ ThreadsTyped'
  <1>1. Shaped' /\ ThreadsTyped'
    BY DEF Inductive, Shaped, ThreadsTyped, TypeOK, Replies
  <1>2. CallsTyped
    BY DEF Inductive
  <1>3. completed # {} => completed' # {}
    OBVIOUS
  <1>4. CallsTyped'
    BY <1>2, <1>3 DEF CallsTyped, Answered
  <1>5. QED
    BY <1>1, <1>4

LEMMA ThreadsInit ==
    ASSUME Init, NEW t \in Threads
    PROVE  /\ thread[t] = [op |-> thread[t].op, arg |-> None, reply |-> "none", value |-> None]
           /\ thread[t].op \in {"none", "ListDisks"}
           /\ thread[t].arg = None /\ thread[t].reply = "none" /\ thread[t].value = None
  <1>1. thread[t] = IF t = 1 THEN [Free EXCEPT !.op = "ListDisks"] ELSE Free
    BY DEF Init
  <1>2. [Free EXCEPT !.op = "ListDisks"] =
            [op |-> "ListDisks", arg |-> None, reply |-> "none", value |-> None]
    BY DEF Free
  <1>3. QED
    BY <1>1, <1>2 DEF Free

LEMMA InductiveInit == Init => Inductive
  <1> SUFFICES ASSUME Init PROVE Inductive
    OBVIOUS
  <1> USE WizardAssumption
  <1>1. Shaped
    <2>1. thread = [t \in Threads |-> thread[t]]
      BY DEF Init
    <2>2. \A t \in Threads : thread[t] =
              [op |-> thread[t].op, arg |-> thread[t].arg,
               reply |-> thread[t].reply, value |-> thread[t].value]
      BY ThreadsInit
    <2>3. QED
      BY <2>1, <2>2 DEF Shaped
  <1>2. CallsTyped
    BY ThreadsInit DEF CallsTyped, Answered
  <1>3. TypeOK
    <2>1. /\ 1 \in Pages /\ NoJob \in Lives \X Paths /\ 0 \in Paths /\ 0 \in Lives
          /\ 1 \in 1 .. MaxJob + 1 /\ "idle" \in InstallerState
      BY DEF Pages, NoJob, Lives, Paths, InstallerState
    <2>2. \A t \in Threads : thread[t].op \in Operations /\ thread[t].reply = "none"
      BY ThreadsInit DEF Operations
    <2>3. QED
      BY <2>1, <2>2 DEF Init, TypeOK
  <1>4. JobTyped
    BY DEF Init, JobTyped, workerActive
  <1>5. QED
    BY <1>1, <1>2, <1>3, <1>4 DEF Inductive

LEMMA InductivePress ==
    ASSUME Inductive, Press \/ Timer
    PROVE  Inductive'
  <1>1. Shaped /\ TypeOK /\ JobTyped
    BY DEF Inductive
  <1>2. /\ UNCHANGED <<serviceVars, job_path, progress, overtaken>>
        /\ UNCHANGED <<disk_options, required>>
        /\ busy' \in BOOLEAN /\ step' \in Pages /\ (step' = 8 => step = 8)
    <2>1. /\ step \in Pages /\ busy \in BOOLEAN
      BY <1>1 DEF TypeOK
    <2>2. CASE User /\ UNCHANGED <<step, busy, formVars>>
      BY <2>1, <2>2 DEF User, formVars
    <2>3. CASE BackPage
      BY <2>1, <2>3 DEF BackPage, User, formVars, Pages
    <2>4. CASE StartInstall
      BY <2>1, <2>4 DEF StartInstall, User, formVars
    <2>5. CASE DiscoverDisks \/ RefreshStatus
      BY <2>2, <2>5 DEF DiscoverDisks, RefreshStatus
    <2>6. CASE Timer \/ CancelInstall
      BY <2>2, <2>6 DEF Timer, CancelInstall
    <2>7. CASE \E d \in Disks \cup {None} : RunPreflight(d)
      BY <2>2, <2>7 DEF RunPreflight
    <2>8. QED
      BY <2>3, <2>4, <2>5, <2>6, <2>7 DEF Press
  <1>3. completed' = completed
    BY <1>2 DEF serviceVars
  <1>4. Shaped' /\ CallsTyped' /\ ThreadsTyped'
    <2>1. ASSUME NEW op \in Operations, NEW arg, Call(op, arg),
                 op = "Preflight" => arg \in Disks \cup {None}
          PROVE  Shaped' /\ CallsTyped' /\ ThreadsTyped'
      <3>1. PICK t \in Threads : Shaped' /\ Holds(t, op, arg, "none", None) /\ OthersKeep(t)
        BY <1>1, <2>1, CallFacts
      <3>2. "none" \in Replies /\ CallTyped(op, arg, "none", None, completed)
        BY <2>1 DEF Replies, CallTyped
      <3>3. QED
        BY <1>3, <2>1, <3>1, <3>2, CallChanges
    <2>2. CASE DiscoverDisks \/ RefreshStatus \/ Timer \/ CancelInstall \/ StartInstall
      BY <2>1, <2>2 DEF DiscoverDisks, RefreshStatus, Timer, CancelInstall, StartInstall, Operations
    <2>3. CASE \E d \in Disks \cup {None} : RunPreflight(d)
      BY <2>1, <2>3 DEF RunPreflight, Operations
    <2>4. CASE BackPage
      BY <1>3, <2>4, CallsStay DEF BackPage
    <2>5. QED
      BY <2>2, <2>3, <2>4 DEF Press
  <1>5. TypeOK'
    BY <1>1, <1>2, <1>4 DEF serviceVars, TypeOK, ThreadsTyped, Replies
  <1>6. JobTyped'
    BY <1>1, <1>2 DEF serviceVars, JobTyped, workerActive
  <1>7. QED
    BY <1>4, <1>5, <1>6 DEF Inductive

(* What a served call answers has its type.                                *)
LEMMA ServeReplies ==
    ASSUME Inductive, NEW t \in Threads, Serve(t)
    PROVE  \E reply \in {"ok", "error"} : \E value :
              /\ Reply(t, reply, value)
              /\ CallTyped(thread[t].op, None, reply, value, completed)
  <1>1. TypeOK /\ CallsTyped /\ JobTyped
    BY DEF Inductive
  <1>2. CASE ServeError(t)
    BY <1>2 DEF ServeError, CallTyped
  <1>3. CASE ServeList(t)
    BY <1>3 DEF ServeList, Served, Called, CallTyped
  <1>4. CASE ServePreflight(t)
    <2>1. thread[t].arg \in Disks
      BY <1>1, <1>4 DEF ServePreflight, Called, CallsTyped
    <2>2. QED
      BY <1>4, <2>1 DEF ServePreflight, Called, CallTyped
  <1>5. CASE ServeStart(t)
    <2>1. nextJob \in Jobs
      <3>1. nextJob + life \in Jobs /\ nextJob \in 1 .. MaxJob + 1 /\ life \in {0, 1}
        BY <1>1, <1>5 DEF ServeStart, Accept, TypeOK, Lives
      <3>2. QED
        BY <3>1, WizardAssumption DEF Jobs
    <2>2. <<life, nextJob>> \in Lives \X Jobs
      BY <1>1, <2>1 DEF TypeOK
    <2>3. Reply(t, "ok", <<life, nextJob>>) /\ thread[t].op = "Start"
      BY <1>5 DEF ServeStart, Accept, Served, Called
    <2>4. QED
      BY <2>2, <2>3 DEF CallTyped
  <1>6. CASE ServeStartUnspawned(t)
    BY <1>6 DEF ServeStartUnspawned, CallTyped
  <1>7. CASE ServeStatus(t)
    <2>1. Seen = "complete" => completed # {}
      BY <1>1 DEF Seen, JobTyped
    <2>2. QED
      BY <1>7, <2>1 DEF ServeStatus, Served, Called, CallTyped
  <1>8. CASE ServeCancel(t)
    <2>1. IsCancellable(state) \in BOOLEAN
      BY DEF IsCancellable
    <2>2. QED
      BY <1>8, <2>1 DEF ServeCancel, Served, Called, CallTyped
  <1>9. CASE ServeCancelUnannounced(t)
    BY <1>9 DEF ServeCancelUnannounced, CallTyped
  <1>10. QED
    BY <1>2, <1>3, <1>4, <1>5, <1>6, <1>7, <1>8, <1>9 DEF Serve

(* A served call changes the service, and nothing of the window.           *)
LEMMA InductiveServe ==
    ASSUME Inductive, NEW t \in Threads, Serve(t)
    PROVE  Inductive'
  <1>1. Shaped /\ TypeOK /\ CallsTyped /\ JobTyped
    BY DEF Inductive
  <1>2. UNCHANGED <<windowVars, life, erased, completed>>
    BY DEF Serve, ServeError, ServeList, ServePreflight, ServeStart, ServeStartUnspawned, Accept,
           ServeStatus, ServeCancel, ServeCancelUnannounced, Served, Called, Keeps, serviceVars
  <1>3. Shaped' /\ CallsTyped' /\ ThreadsTyped'
    <2>1. PICK reply, value :
              /\ reply \in {"ok", "error"} /\ Reply(t, reply, value)
              /\ CallTyped(thread[t].op, None, reply, value, completed)
      BY ServeReplies
    <2>2. Shaped' /\ OthersKeep(t) /\ Holds(t, thread[t].op, None, reply, value)
      BY <1>1, <2>1, ReplyFacts
    <2>3. thread[t].op \in Operations /\ reply \in Replies /\ completed' = completed
      BY <1>1, <1>2, <2>1 DEF TypeOK, Replies
    <2>4. QED
      BY <2>1, <2>2, <2>3, CallChanges
  <1>4. ASSUME UNCHANGED <<jobPath, nextJob, worker, target, phrase>>,
               state' \in InstallerState, state' = "complete" => state = "complete",
               preflight' \in Disks \cup {None}, overtaken' \in BOOLEAN
        PROVE  Inductive'
    <2>1. TypeOK'
      BY <1>1, <1>2, <1>3, <1>4 DEF windowVars, formVars, TypeOK, ThreadsTyped, Replies
    <2>2. JobTyped'
      BY <1>1, <1>2, <1>4 DEF windowVars, JobTyped, workerActive
    <2>3. QED
      BY <1>3, <2>1, <2>2 DEF Inductive
  <1>5. CASE ServeError(t) \/ ServeList(t) \/ ServeStatus(t)
    BY <1>1, <1>4, <1>5 DEF ServeError, ServeList, ServeStatus, Served, serviceVars, TypeOK
  <1>6. CASE ServePreflight(t)
    <2>1. thread[t].arg \in Disks \cup {None}
      BY <1>1, <1>6 DEF ServePreflight, Called, CallsTyped
    <2>2. (overtaken \/ Accepted) \in BOOLEAN
      BY <1>1 DEF TypeOK, Accepted
    <2>3. QED
      BY <1>4, <1>6, <2>1, <2>2 DEF ServePreflight, Keeps, InstallerState
  <1>7. CASE ServeCancel(t) \/ ServeCancelUnannounced(t)
    BY <1>1, <1>4, <1>7 DEF ServeCancel, ServeCancelUnannounced, Served, Keeps, TypeOK, InstallerState
  <1>8. ASSUME Accept(t), state' \in {"preparing", "failed"},
               \/ worker' = "works" /\ target' = preflight /\ phrase' = thread[t].arg
               \/ UNCHANGED <<worker, target, phrase>>
        PROVE  Inductive'
    <2>1. /\ nextJob + life \in Jobs /\ jobPath' = nextJob /\ nextJob' = nextJob + 1
          /\ preflight # None /\ preflight = thread[t].arg /\ worker = "none"
          /\ UNCHANGED <<preflight, overtaken>>
      BY <1>8 DEF Accept, Served, Confirmed, workerActive
    <2>2. nextJob \in Jobs /\ nextJob \in Paths /\ nextJob + 1 \in 1 .. MaxJob + 1
      <3>1. nextJob \in 1 .. MaxJob + 1 /\ life \in {0, 1}
        BY <1>1 DEF TypeOK, Lives
      <3>2. QED
        BY <2>1, <3>1, WizardAssumption DEF Jobs, Paths
    <2>3. TypeOK'
      BY <1>1, <1>2, <1>3, <1>8, <2>1, <2>2
         DEF windowVars, formVars, TypeOK, ThreadsTyped, Replies, InstallerState
    <2>4. \A j \in erased' : j[1] <= life' /\ (j[1] = life' => j[2] < nextJob')
      <3>1. \A j \in erased : j[1] \in Nat /\ j[2] \in Nat
        BY <1>1 DEF TypeOK, Lives, Jobs
      <3>2. QED
        BY <1>1, <1>2, <2>1, <2>2, <3>1 DEF JobTyped, Jobs
    <2>5. /\ workerActive' => target' = phrase' /\ jobPath' # 0
          /\ jobPath' < nextJob' /\ state' # "complete"
      BY <1>8, <2>1, <2>2 DEF workerActive, Jobs
    <2>6. JobTyped'
      BY <1>1, <1>2, <2>4, <2>5 DEF JobTyped, windowVars
    <2>7. QED
      BY <1>3, <2>3, <2>6 DEF Inductive
  <1>9. CASE ServeStart(t) \/ ServeStartUnspawned(t)
    BY <1>8, <1>9 DEF ServeStart, ServeStartUnspawned
  <1>10. QED
    BY <1>5, <1>6, <1>7, <1>9 DEF Serve

(* An answer changes the window, and nothing of the service.               *)
LEMMA InductiveApply ==
    ASSUME Inductive, NEW t \in Threads, Apply(t)
    PROVE  Inductive'
  <1>1. Shaped /\ TypeOK /\ CallsTyped /\ JobTyped
    BY DEF Inductive
  <1>2. Ends(t) /\ UNCHANGED serviceVars
    BY DEF Apply, ApplyError, ApplyList, ApplyPreflight, ApplyStart, ApplyStatus, ApplyCancel,
           Back, Window
  <1>3. Shaped' /\ CallsTyped' /\ ThreadsTyped'
    <2>1. Shaped' /\ Holds(t, "none", None, "none", None) /\ OthersKeep(t)
      BY <1>1, <1>2, EndsFacts
    <2>2. /\ "none" \in Operations /\ "none" \in Replies /\ completed' = completed
          /\ CallTyped("none", None, "none", None, completed)
      BY <1>2 DEF Operations, Replies, CallTyped, serviceVars
    <2>3. QED
      BY <2>1, <2>2, CallChanges
  <1>4. ASSUME step' \in Pages, step' = 8 => step = 8 \/ completed # {},
               busy' \in BOOLEAN, disk_options' \in BOOLEAN, overtaken' \in BOOLEAN,
               required' \in Disks \cup {None},
               job_path' \in Lives \X Paths, progress' \in {"cancelled", "other"}
        PROVE  Inductive'
    <2>1. TypeOK'
      BY <1>1, <1>2, <1>3, <1>4 DEF serviceVars, TypeOK, ThreadsTyped, Replies
    <2>2. JobTyped'
      BY <1>1, <1>2, <1>4 DEF serviceVars, JobTyped, workerActive
    <2>3. QED
      BY <1>3, <2>1, <2>2 DEF Inductive
  <1>5. CASE ApplyError(t)
    <2>1. busy' \in BOOLEAN
      BY <1>5 DEF ApplyError, BusyAfterError
    <2>2. UNCHANGED <<step, formVars, job_path, progress, overtaken>>
      BY <1>5 DEF ApplyError, Window
    <2>3. QED
      BY <1>1, <1>4, <2>1, <2>2 DEF formVars, TypeOK
  <1>6. CASE ApplyList(t)
    BY <1>1, <1>4, <1>6 DEF ApplyList, Window, TypeOK
  <1>7. CASE ApplyPreflight(t)
    <2>1. thread[t].value \in Disks
      BY <1>1, <1>7 DEF ApplyPreflight, Back, CallsTyped, Answered
    <2>2. 2 \in Pages /\ (overtaken \/ job_path # NoJob) \in BOOLEAN
      BY <1>1 DEF Pages, TypeOK
    <2>3. QED
      BY <1>1, <1>4, <1>7, <2>1, <2>2 DEF ApplyPreflight, Value, TypeOK
  <1>8. CASE ApplyStart(t)
    <2>1. thread[t].value \in Lives \X Jobs
      BY <1>1, <1>8 DEF ApplyStart, Back, CallsTyped, Answered
    <2>2. thread[t].value \in Lives \X Paths /\ 7 \in Pages
      BY <2>1, WizardAssumption DEF Jobs, Paths, Pages
    <2>3. QED
      BY <1>1, <1>4, <1>8, <2>2 DEF ApplyStart, Window, Value, formVars, TypeOK
  <1>9. CASE ApplyStatus(t)
    <2>1. thread[t].value = "complete" => completed # {}
      BY <1>1, <1>9 DEF ApplyStatus, Back, CallsTyped, Answered
    <2>2. /\ step' \in Pages /\ (step' = 8 => step = 8 \/ completed # {})
          /\ busy' \in BOOLEAN /\ progress' \in {"cancelled", "other"}
          /\ UNCHANGED <<formVars, job_path, overtaken>>
      BY <1>1, <1>9, <2>1 DEF ApplyStatus, Finished, Window, Value, TypeOK, Pages
    <2>3. QED
      BY <1>1, <1>4, <2>2 DEF formVars, TypeOK
  <1>10. CASE ApplyCancel(t)
    <2>1. UNCHANGED <<step, formVars, job_path, overtaken>> /\ busy' \in BOOLEAN
          /\ progress' \in {"cancelled", "other"}
      BY <1>1, <1>10 DEF ApplyCancel, Window, TypeOK
    <2>2. QED
      BY <1>1, <1>4, <2>1 DEF formVars, TypeOK
  <1>11. QED
    BY <1>5, <1>6, <1>7, <1>8, <1>9, <1>10 DEF Apply

LEMMA InductiveService ==
    ASSUME Inductive, Work \/ Crash \/ UNCHANGED vars
    PROVE  Inductive'
  <1>1. Shaped /\ TypeOK /\ CallsTyped /\ JobTyped
    BY DEF Inductive
  <1>2. CASE Work
    <2>1. /\ UNCHANGED <<windowVars, thread, overtaken, preflight, jobPath, nextJob, life>>
          /\ workerActive
      BY <1>2 DEF Work, Erase, Complete, Fail, RecordFailure, Release, Worker, workerActive
    <2>2. jobPath \in Jobs /\ <<life, jobPath>> \in Lives \X Jobs
      BY <1>1, <2>1, WizardAssumption DEF JobTyped, TypeOK, Paths, Jobs
    <2>3. /\ completed \subseteq completed' /\ completed' \subseteq Lives \X Jobs
          /\ erased' \subseteq erased \cup {<<life, jobPath>>}
          /\ state' \in InstallerState /\ worker' \in {"none", "works", "cleans"}
          /\ state' = "complete" => state = "complete" \/ completed' # {}
          /\ \/ UNCHANGED <<target, phrase>>
             \/ worker' = "none" /\ target' = None /\ phrase' = None
      BY <1>1, <1>2, <2>2
         DEF Work, Erase, Complete, Fail, RecordFailure, Release, Worker, TypeOK, InstallerState
    <2>4. Shaped' /\ CallsTyped' /\ ThreadsTyped'
      BY <2>1, <2>3, CallsStay
    <2>5. TypeOK'
      <3>1. erased' \subseteq Lives \X Jobs
        BY <1>1, <2>2, <2>3 DEF TypeOK
      <3>2. {target', phrase'} \subseteq Disks \cup {None}
        BY <1>1, <2>3 DEF TypeOK
      <3>3. QED
        BY <1>1, <2>1, <2>3, <2>4, <3>1, <3>2 DEF windowVars, formVars, TypeOK, ThreadsTyped, Replies
    <2>6. \A j \in erased' : j[1] <= life' /\ (j[1] = life' => j[2] < nextJob')
      <3>1. life \in Nat /\ jobPath < nextJob
        BY <1>1 DEF TypeOK, Lives, JobTyped
      <3>2. \A j \in erased : j[1] <= life /\ (j[1] = life => j[2] < nextJob)
        BY <1>1 DEF JobTyped
      <3>3. <<life, jobPath>>[1] = life /\ <<life, jobPath>>[2] = jobPath
        OBVIOUS
      <3>4. \A j \in erased' : j \in erased \/ j = <<life, jobPath>>
        BY <2>3
      <3>5. QED
        BY <2>1, <3>1, <3>2, <3>3, <3>4
    <2>7. step' = 8 \/ state' = "complete" => completed' # {}
      BY <1>1, <2>1, <2>3 DEF JobTyped, windowVars
    <2>8. JobTyped'
      BY <1>1, <2>1, <2>3, <2>6, <2>7 DEF JobTyped, workerActive
    <2>9. QED
      BY <2>4, <2>5, <2>8 DEF Inductive
  <1>3. CASE Crash
    <2>1. /\ Shaped'
          /\ \A t \in Threads :
                /\ thread'[t].op = thread[t].op
                /\ \/ thread'[t] = thread[t]
                   \/ thread'[t].reply = "error" /\ thread'[t].arg = None
      BY <1>1, <1>3, CrashFacts
    <2>2. /\ UNCHANGED <<windowVars, overtaken, erased, completed>>
          /\ state' = "idle" /\ preflight' = None /\ jobPath' = 0 /\ nextJob' = 1
          /\ worker' = "none" /\ target' = None /\ phrase' = None /\ life = 0 /\ life' = 1
      BY <1>3 DEF Crash
    <2>3. CallsTyped'
      BY <1>1, <2>1, <2>2 DEF CallsTyped, Answered
    <2>4. ThreadsTyped'
      BY <1>1, <2>1 DEF TypeOK, ThreadsTyped, Replies
    <2>5. /\ 0 \in Paths /\ 1 \in 1 .. MaxJob + 1 /\ 1 \in Lives /\ "idle" \in InstallerState
      BY WizardAssumption DEF Paths, Lives, InstallerState
    <2>6. TypeOK'
      <3>1. /\ step' \in Pages /\ busy' \in BOOLEAN /\ disk_options' \in BOOLEAN
            /\ required' \in Disks \cup {None} /\ job_path' \in Lives \X Paths
            /\ progress' \in {"cancelled", "other"} /\ overtaken' \in BOOLEAN
            /\ erased' \subseteq Lives \X Jobs /\ completed' \subseteq Lives \X Jobs
        BY <1>1, <2>2 DEF windowVars, formVars, TypeOK
      <3>2. \A t \in Threads : thread'[t].op \in Operations /\ thread'[t].reply \in {"none", "ok", "error"}
        BY <2>4 DEF ThreadsTyped, Replies
      <3>3. jobPath' \in Paths /\ nextJob' \in 1 .. MaxJob + 1 /\ life' \in Lives
        BY <2>2, <2>5
      <3>4. /\ state' \in InstallerState /\ worker' \in {"none", "works", "cleans"}
            /\ {preflight', target', phrase'} \subseteq Disks \cup {None}
        BY <2>2, <2>5
      <3>5. QED
        BY <3>1, <3>2, <3>3, <3>4 DEF TypeOK
    <2>7. JobTyped'
      <3>1. \A j \in erased : j[1] <= 0 /\ j[1] \in Nat
        BY <1>1, <2>2 DEF JobTyped, TypeOK, Lives
      <3>2. \A j \in erased' : j[1] <= life' /\ (j[1] = life' => j[2] < nextJob')
        BY <2>2, <3>1
      <3>3. step' = 8 => completed' # {}
        BY <1>1, <2>2 DEF JobTyped, windowVars
      <3>4. QED
        BY <2>2, <3>2, <3>3 DEF JobTyped, workerActive
    <2>8. QED
      BY <2>1, <2>3, <2>6, <2>7 DEF Inductive
  <1>4. CASE UNCHANGED vars
    <2>1. Shaped' /\ CallsTyped' /\ ThreadsTyped'
      BY <1>4, CallsStay DEF vars, serviceVars
    <2>2. TypeOK'
      BY <1>1, <1>4, <2>1 DEF vars, windowVars, formVars, serviceVars, TypeOK, ThreadsTyped, Replies
    <2>3. JobTyped'
      BY <1>1, <1>4 DEF vars, windowVars, serviceVars, JobTyped, workerActive
    <2>4. QED
      BY <2>1, <2>2, <2>3 DEF Inductive
  <1>5. QED
    BY <1>2, <1>3, <1>4

LEMMA InductiveNext == Inductive /\ [Next]_vars => Inductive'
  BY InductivePress, InductiveServe, InductiveApply, InductiveService DEF Next

LEMMA InductiveHolds == Spec => []Inductive
  BY InductiveInit, InductiveNext, PTL DEF Spec

(* What a worker overwrites is the disk whose phrase came with the Start   *)
(* that made its job (start_install of the window, and Start's check of    *)
(* the confirmation under the lock), however late reviews and lists are.   *)
THEOREM ErasesTypedHolds == Spec => ErasesTyped
  <1>1. Inductive /\ [Next]_vars => [erased' # erased => target = phrase]_vars
    <2>1. SUFFICES ASSUME Inductive, [Next]_vars, erased' # erased PROVE target = phrase
      OBVIOUS
    <2>2. ASSUME NEW t \in Threads, Serve(t) \/ Apply(t) PROVE erased' = erased
      BY <2>2 DEF Serve, ServeError, ServeList, ServePreflight, ServeStart, ServeStartUnspawned,
                  Accept, ServeStatus, ServeCancel, ServeCancelUnannounced, Keeps, serviceVars,
                  Apply, ApplyError, ApplyList, ApplyPreflight, ApplyStart, ApplyStatus,
                  ApplyCancel, Window
    <2>3. Press \/ Timer \/ Crash \/ UNCHANGED vars => erased' = erased
      BY DEF Press, DiscoverDisks, RunPreflight, BackPage, StartInstall, RefreshStatus, Timer,
             CancelInstall, User, Crash, vars, serviceVars
    <2>4. Work => workerActive
      BY DEF Work, Erase, Complete, Fail, RecordFailure, Release, Worker, workerActive
    <2>5. QED
      BY <2>1, <2>2, <2>3, <2>4 DEF Next, Inductive, JobTyped
  <1>2. QED
    BY <1>1, InductiveHolds, PTL DEF Spec, ErasesTyped
-----------------------------------------------------------------------------
(***************************************************************************)
(* What the pages say, until a review comes too late.                      *)
(***************************************************************************)

LEMMA OrderlyInit == Init => Orderly
  <1> SUFFICES ASSUME Init PROVE Orderly
    OBVIOUS
  <1>1. \A t \in Threads : thread[t].op \in {"none", "ListDisks"} /\ thread[t].reply = "none"
    BY ThreadsInit
  <1>2. /\ step = 1 /\ job_path = NoJob /\ progress = "other" /\ jobPath = 0
        /\ ~workerActive
    BY DEF Init, workerActive
  <1>3. OneStart
    BY <1>1, <1>2 DEF OneStart
  <1>4. ~Accepted
    BY <1>1, <1>2 DEF Accepted, Under
  <1>5. OneJob
    BY <1>1, <1>2, <1>4 DEF OneJob, Answered
  <1>6. SaidTrue
    BY <1>1, <1>2 DEF SaidTrue, SaysComplete, SaysCancelled, Answered
  <1>7. QED
    BY <1>3, <1>5, <1>6 DEF Orderly

LEMMA OneStartPress ==
    ASSUME Inductive, Orderly, Press \/ Timer
    PROVE  OneStart'
  <1>1. Shaped /\ TypeOK /\ OneStart
    BY DEF Inductive, Orderly
  <1>2. ASSUME NEW op \in {"ListDisks", "Preflight", "Status", "Cancel"}, NEW arg, Call(op, arg),
               UNCHANGED <<step, busy, job_path>>
        PROVE  OneStart'
    <2>1. PICK t \in Threads : /\ thread[t].op = "none"
                               /\ Holds(t, op, arg, "none", None) /\ OthersKeep(t)
      BY <1>1, <1>2, CallFacts
    <2>2. \A u \in Threads : thread'[u].op = "Start" <=> thread[u].op = "Start"
      BY <1>2, <2>1 DEF Holds, OthersKeep
    <2>3. QED
      BY <1>1, <1>2, <2>2 DEF OneStart
  <1>3. CASE DiscoverDisks \/ RefreshStatus
    BY <1>2, <1>3 DEF DiscoverDisks, RefreshStatus, User
  <1>4. CASE Timer \/ CancelInstall
    BY <1>2, <1>4 DEF Timer, CancelInstall, User
  <1>5. CASE \E d \in Disks \cup {None} : RunPreflight(d)
    BY <1>2, <1>5 DEF RunPreflight, User
  <1>6. CASE StartInstall
    <2>1. /\ step = 2 /\ ~busy /\ busy' = TRUE /\ UNCHANGED <<step, job_path>>
          /\ Call("Start", required)
      BY <1>6 DEF StartInstall, StartEnabled, User
    <2>2. PICK t \in Threads : /\ thread[t].op = "none"
                               /\ Holds(t, "Start", required, "none", None) /\ OthersKeep(t)
      BY <1>1, <2>1, CallFacts
    <2>3. job_path = NoJob /\ \A u \in Threads : thread[u].op # "Start"
      BY <1>1, <2>1 DEF OneStart
    <2>4. \A u \in Threads : thread'[u].op = "Start" => u = t
      BY <2>2, <2>3 DEF Holds, OthersKeep
    <2>5. QED
      BY <1>1, <2>1, <2>3, <2>4 DEF OneStart
  <1>7. CASE BackPage
    <2>1. step = 2 /\ step' = 1 /\ UNCHANGED <<thread, busy, job_path>>
      BY <1>7 DEF BackPage, User
    <2>2. QED
      BY <1>1, <2>1 DEF OneStart
  <1>8. QED
    BY <1>3, <1>4, <1>5, <1>6, <1>7 DEF Press

LEMMA OneStartApply ==
    ASSUME Inductive, Orderly, NEW t \in Threads, Apply(t), ~overtaken'
    PROVE  OneStart'
  <1>1. Shaped /\ TypeOK /\ CallsTyped /\ OneStart /\ OneJob
    BY DEF Inductive, Orderly
  <1>2. Holds(t, "none", None, "none", None) /\ OthersKeep(t)
    BY <1>1, EndsFacts DEF Apply, ApplyError, ApplyList, ApplyPreflight, ApplyStart, ApplyStatus,
                           ApplyCancel, Back
  <1>3. \A u \in Threads : thread'[u].op = "Start" => thread[u].op = "Start" /\ u # t
    BY <1>2 DEF Holds, OthersKeep
  <1>4. CASE ApplyError(t)
    <2>1. busy' = (busy /\ thread[t].op # "Start") /\ UNCHANGED <<step, job_path>>
      BY <1>4 DEF ApplyError, BusyAfterError
    <2>2. \A u \in Threads : thread'[u].op = "Start" => thread[t].op # "Start"
      BY <1>1, <1>3 DEF OneStart
    <2>3. QED
      BY <1>1, <1>3, <2>1, <2>2 DEF OneStart
  <1>5. CASE ApplyList(t)
    BY <1>1, <1>3, <1>5 DEF ApplyList, OneStart
  <1>6. CASE ApplyPreflight(t)
    <2>1. step' = 2 /\ job_path = NoJob /\ UNCHANGED <<busy, job_path>>
      BY <1>6 DEF ApplyPreflight
    <2>2. QED
      BY <1>1, <1>3, <2>1 DEF OneStart
  <1>7. CASE ApplyStart(t)
    <2>1. /\ thread[t].op = "Start" /\ thread[t].value \in Lives \X Jobs
          /\ step' = 7 /\ job_path' = thread[t].value
      BY <1>1, <1>7 DEF ApplyStart, Back, Value, CallsTyped, Answered
    <2>2. job_path' # NoJob
      BY <2>1 DEF Jobs, NoJob
    <2>3. \A u \in Threads : thread'[u].op # "Start"
      BY <1>1, <1>3, <2>1 DEF OneStart
    <2>4. QED
      BY <2>1, <2>2, <2>3 DEF OneStart
  <1>8. CASE ApplyStatus(t) \/ ApplyCancel(t)
    <2>1. /\ thread[t].op \in {"Status", "Cancel"} /\ thread[t].reply = "ok"
          /\ job_path' = job_path /\ (step' = step \/ step' = 8)
      BY <1>8 DEF ApplyStatus, ApplyCancel, Back
    <2>2. job_path # NoJob
      BY <1>1, <2>1 DEF OneJob
    <2>3. step \in {7, 8} /\ step' \in {7, 8}
      BY <1>1, <2>1, <2>2 DEF OneStart
    <2>4. \A u \in Threads : thread'[u].op # "Start"
      BY <1>1, <1>3, <2>2 DEF OneStart
    <2>5. QED
      BY <2>1, <2>2, <2>3, <2>4 DEF OneStart
  <1>9. QED
    BY <1>4, <1>5, <1>6, <1>7, <1>8 DEF Apply

(* The service leaves the window and what the calls ask for as they are.   *)
LEMMA OneStartStays ==
    ASSUME OneStart, UNCHANGED windowVars,
           \A t \in Threads : thread'[t].op = thread[t].op
    PROVE  OneStart'
  BY DEF OneStart, windowVars

(* A step that brings no new answer.                                       *)
NoNews ==
    \A t \in Threads : thread'[t].reply = "ok" =>
        /\ thread[t].reply = "ok" /\ thread'[t].op = thread[t].op
        /\ thread'[t].value = thread[t].value

(* A window without a job has been told nothing of one.                    *)
LEMMA NothingSaid ==
    ASSUME Orderly, job_path = NoJob
    PROVE  ~SaysComplete /\ ~SaysCancelled
  BY DEF Orderly, OneStart, OneJob, SaidTrue, SaysComplete, SaysCancelled, Answered

LEMMA SaidStays ==
    ASSUME SaidTrue, NoNews,
           step' = 8 => SaysComplete, progress' = "cancelled" => SaysCancelled,
           UNCHANGED <<job_path, state, erased, completed>>
    PROVE  SaidTrue'
  <1>1. SaysComplete' => SaysComplete
    BY DEF NoNews, SaysComplete, Answered
  <1>2. SaysCancelled' => SaysCancelled
    BY DEF NoNews, SaysCancelled, Answered
  <1>3. QED
    BY <1>1, <1>2 DEF SaidTrue

LEMMA AskedNews ==
    ASSUME NEW t \in Threads, NEW op, NEW arg,
           Holds(t, op, arg, "none", None), OthersKeep(t)
    PROVE  NoNews
  BY DEF NoNews, Holds, OthersKeep

(* Which jobs the calls are about.                                         *)
CallsOurs ==
    /\ \A t \in Threads : Answered(t, "Start") => Ours(thread[t].value)
    /\ \A t \in Threads : thread[t].op \in {"Status", "Cancel"} =>
            /\ thread[t].reply = "none" => thread[t].arg \in {NoJob, job_path}
            /\ thread[t].reply = "ok" => job_path # NoJob

LEMMA OneJobStays ==
    ASSUME OneJob, CallsOurs', UNCHANGED <<serviceVars, job_path>>, Accepted' <=> Accepted
    PROVE  OneJob'
  BY DEF OneJob, CallsOurs, Ours, serviceVars, workerActive

LEMMA JobPress ==
    ASSUME Inductive, Orderly, Press \/ Timer
    PROVE  OneJob' /\ SaidTrue'
  <1>1. Shaped /\ TypeOK /\ OneStart /\ OneJob /\ SaidTrue
    BY DEF Inductive, Orderly
  <1>2. UNCHANGED <<serviceVars, job_path, progress>>
    BY DEF Press, DiscoverDisks, RunPreflight, StartInstall, RefreshStatus, Timer, CancelInstall,
           BackPage, User
  <1>3. step' = 8 => step = 8
    BY DEF Press, DiscoverDisks, RunPreflight, StartInstall, RefreshStatus, Timer, CancelInstall,
           BackPage
  <1>4. ASSUME NEW op, NEW arg, Call(op, arg), op \in {"Status", "Cancel"} => arg = job_path
        PROVE  OneJob' /\ SaidTrue'
    <2>1. PICK t \in Threads : /\ thread[t].op = "none"
                               /\ Holds(t, op, arg, "none", None) /\ OthersKeep(t)
      BY <1>1, <1>4, CallFacts
    <2>2. \A u \in Threads : /\ Answered(u, "Start")' <=> Answered(u, "Start")
                             /\ Answered(u, "Start")' => thread'[u].value = thread[u].value
      BY <2>1 DEF Holds, OthersKeep, Answered
    <2>3. Accepted' <=> Accepted
      BY <1>2, <2>2 DEF Accepted, Under, Answered
    <2>4. CallsOurs'
      BY <1>1, <1>2, <1>4, <2>1, <2>2 DEF CallsOurs, Holds, OthersKeep, OneJob, Ours, serviceVars
    <2>5. SaidTrue'
      BY <1>1, <1>2, <1>3, <2>1, AskedNews, SaidStays DEF SaysComplete, SaysCancelled, serviceVars
    <2>6. QED
      BY <1>1, <1>2, <2>3, <2>4, <2>5, OneJobStays
  <1>5. ASSUME UNCHANGED thread PROVE OneJob' /\ SaidTrue'
    <2>1. CallsOurs' /\ (Accepted' <=> Accepted) /\ NoNews
      BY <1>1, <1>2, <1>5 DEF CallsOurs, OneJob, Ours, Answered, Accepted, Under, NoNews, serviceVars
    <2>2. SaidTrue'
      BY <1>1, <1>2, <1>3, <2>1, SaidStays DEF SaysComplete, SaysCancelled, serviceVars
    <2>3. QED
      BY <1>1, <1>2, <2>1, <2>2, OneJobStays
  <1>6. CASE DiscoverDisks \/ RefreshStatus \/ Timer \/ CancelInstall \/ StartInstall
    BY <1>4, <1>6 DEF DiscoverDisks, RefreshStatus, Timer, CancelInstall, StartInstall
  <1>7. CASE \E d \in Disks \cup {None} : RunPreflight(d)
    BY <1>4, <1>7 DEF RunPreflight
  <1>8. CASE BackPage
    BY <1>5, <1>8 DEF BackPage
  <1>9. QED
    BY <1>6, <1>7, <1>8 DEF Press

LEMMA JobApply ==
    ASSUME Inductive, Orderly, NEW t \in Threads, Apply(t)
    PROVE  OneJob' /\ SaidTrue'
  <1>1. Shaped /\ TypeOK /\ CallsTyped /\ OneStart /\ OneJob /\ SaidTrue
    BY DEF Inductive, Orderly
  <1>2. Ends(t) /\ UNCHANGED serviceVars
    BY DEF Apply, ApplyError, ApplyList, ApplyPreflight, ApplyStart, ApplyStatus, ApplyCancel,
           Back, Window
  <1>3. Holds(t, "none", None, "none", None) /\ OthersKeep(t)
    BY <1>1, <1>2, EndsFacts
  <1>4. NoNews
    BY <1>3, AskedNews
  <1>5. ASSUME ~Answered(t, "Start"), UNCHANGED job_path,
               step' = 8 => SaysComplete, progress' = "cancelled" => SaysCancelled
        PROVE  OneJob' /\ SaidTrue'
    <2>1. \A u \in Threads : Answered(u, "Start") <=> Answered(u, "Start")'
      BY <1>3, <1>5 DEF Holds, OthersKeep, Answered
    <2>2. \A u \in Threads : Answered(u, "Start")' => thread'[u].value = thread[u].value
      BY <1>4 DEF NoNews, Answered
    <2>3. CallsOurs'
      BY <1>1, <1>2, <1>3, <1>5, <2>1, <2>2
         DEF CallsOurs, Holds, OthersKeep, OneJob, Ours, serviceVars
    <2>4. Accepted' <=> Accepted
      BY <1>5, <2>1 DEF Accepted, Under, Answered
    <2>5. SaidTrue'
      BY <1>1, <1>2, <1>4, <1>5, SaidStays DEF serviceVars
    <2>6. QED
      BY <1>1, <1>2, <1>5, <2>3, <2>4, <2>5, OneJobStays
  <1>6. CASE ApplyError(t)
    BY <1>5, <1>6 DEF ApplyError, Answered, SaysComplete, SaysCancelled
  <1>7. CASE ApplyList(t)
    BY <1>5, <1>7 DEF ApplyList, Back, Answered, SaysComplete, SaysCancelled
  <1>8. CASE ApplyPreflight(t)
    BY <1>5, <1>8 DEF ApplyPreflight, Back, Answered, SaysCancelled
  <1>9. CASE ApplyStart(t)
    <2>1. /\ Answered(t, "Start") /\ thread[t].value \in Lives \X Jobs
          /\ step' = 7 /\ progress' = "other" /\ job_path' = thread[t].value
      BY <1>1, <1>9 DEF ApplyStart, Back, Value, CallsTyped, Answered
    <2>2. job_path = NoJob /\ job_path' # NoJob /\ Ours(job_path')
      BY <1>1, <2>1 DEF OneStart, OneJob, Answered, Jobs, NoJob
    <2>3. Accepted /\ Accepted'
      BY <2>1, <2>2 DEF Accepted, Under, Answered
    <2>4. \A u \in Threads : ~Answered(u, "Start")'
      BY <1>1, <1>3, <2>1 DEF OneStart, Holds, OthersKeep, Answered
    <2>5. \A u \in Threads : thread'[u].op \in {"Status", "Cancel"} /\ thread'[u].reply = "none" =>
                thread'[u].arg \in {NoJob, job_path'}
      BY <1>1, <1>3, <2>2 DEF Holds, OthersKeep, OneJob
    <2>6. jobPath' = 0 \/ job_path' = <<life', jobPath'>>
      BY <1>2, <2>2 DEF Ours, serviceVars
    <2>7. OneJob'
      BY <1>1, <1>2, <2>2, <2>3, <2>4, <2>5, <2>6 DEF OneJob, Ours, serviceVars, workerActive
    <2>8. ~SaysComplete /\ ~SaysCancelled
      BY <2>2, NothingSaid
    <2>9. ~SaysComplete' /\ ~SaysCancelled'
      BY <1>4, <2>1, <2>8 DEF NoNews, SaysComplete, SaysCancelled, Answered
    <2>10. QED
      BY <2>7, <2>9 DEF SaidTrue
  <1>10. CASE ApplyStatus(t)
    <2>1. Answered(t, "Status")
      BY <1>10 DEF ApplyStatus, Back, Answered
    <2>2. /\ step' = 8 => SaysComplete
          /\ progress' = "cancelled" => SaysCancelled
      BY <1>10, <2>1 DEF ApplyStatus, Finished, Value, SaysComplete, SaysCancelled
    <2>3. QED
      BY <1>5, <1>10, <2>1, <2>2 DEF ApplyStatus, Answered
  <1>11. CASE ApplyCancel(t)
    <2>1. Answered(t, "Cancel") /\ thread[t].value \in BOOLEAN
      BY <1>1, <1>11 DEF ApplyCancel, Back, Answered, CallsTyped
    <2>2. /\ step' = 8 => SaysComplete
          /\ progress' = "cancelled" => SaysCancelled
      BY <1>11, <2>1 DEF ApplyCancel, Value, SaysComplete, SaysCancelled
    <2>3. QED
      BY <1>5, <1>11, <2>1, <2>2 DEF ApplyCancel, Answered
  <1>12. QED
    BY <1>6, <1>7, <1>8, <1>9, <1>10, <1>11 DEF Apply

LEMMA JobWork ==
    ASSUME Inductive, Orderly, Work
    PROVE  OneJob' /\ SaidTrue'
  <1>1. TypeOK /\ JobTyped /\ OneStart /\ OneJob /\ SaidTrue
    BY DEF Inductive, Orderly
  <1>2. UNCHANGED <<windowVars, thread, jobPath, life>> /\ workerActive
    BY DEF Work, Erase, Complete, Fail, RecordFailure, Release, Worker, workerActive
  <1>3. jobPath # 0 /\ Accepted
    BY <1>1, <1>2 DEF JobTyped, OneJob
  <1>4. /\ Accepted' /\ (SaysComplete' => SaysComplete) /\ (SaysCancelled' => SaysCancelled)
        /\ job_path' = job_path
    BY <1>2, <1>3 DEF Accepted, Under, SaysComplete, SaysCancelled, Answered, windowVars
  <1>5. /\ state \notin {"idle", "ready"}
        /\ state \in {"preparing", "cancelled"} => <<life, jobPath>> \notin erased
        /\ state = "complete" => <<life, jobPath>> \in completed
    BY <1>1, <1>3 DEF OneJob
  <1>6. /\ state' \notin {"idle", "ready"}
        /\ state' \in {"preparing", "cancelled"} => <<life, jobPath>> \notin erased'
        /\ state' = "complete" => <<life, jobPath>> \in completed'
        /\ completed \subseteq completed'
        /\ state' = "preparing" => state = "preparing"
        /\ erased' # erased => state = "preparing" /\ erased' = erased \cup {<<life, jobPath>>}
    <2>1. CASE Erase
      BY <1>5, <2>1 DEF Erase
    <2>2. CASE Complete
      BY <1>5, <2>2 DEF Complete
    <2>3. CASE Fail \/ RecordFailure \/ Release
      BY <1>5, <2>3 DEF Fail, RecordFailure, Release
    <2>4. QED
      BY <2>1, <2>2, <2>3 DEF Work
  <1>7. OneJob'
    <2>1. CallsOurs'
      BY <1>1, <1>2, <1>4 DEF OneJob, CallsOurs, Ours, Answered
    <2>2. job_path' # NoJob => Ours(job_path)
      BY <1>1, <1>4 DEF OneJob
    <2>3. job_path' # NoJob => jobPath' = 0 \/ job_path' = <<life', jobPath'>>
      BY <1>2, <1>4, <2>2 DEF Ours
    <2>4. QED
      BY <1>2, <1>4, <1>6, <2>1, <2>3 DEF OneJob, CallsOurs, Ours
  <1>8. SaidTrue'
    <2>1. SaysCancelled => erased' = erased
      BY <1>1, <1>6 DEF SaidTrue
    <2>2. QED
      BY <1>1, <1>4, <1>6, <2>1 DEF SaidTrue
  <1>9. QED
    BY <1>7, <1>8

LEMMA JobCrash ==
    ASSUME Inductive, Orderly, Crash
    PROVE  OneStart' /\ OneJob' /\ SaidTrue'
  <1>1. Shaped /\ TypeOK /\ OneStart /\ OneJob /\ SaidTrue
    BY DEF Inductive, Orderly
  <1>2. \A t \in Threads : /\ thread'[t].op = thread[t].op
                           /\ \/ thread'[t] = thread[t]
                              \/ thread'[t].reply = "error" /\ thread'[t].arg = None
    BY <1>1, CrashFacts
  <1>3. /\ UNCHANGED <<windowVars, erased, completed>>
        /\ state' = "idle" /\ jobPath' = 0 /\ ~workerActive'
    BY DEF Crash, workerActive
  <1>4. UNCHANGED <<step, busy, job_path, progress>>
    BY <1>3 DEF windowVars
  <1>5. OneStart'
    BY <1>1, <1>2, <1>3, OneStartStays
  <1>6. \A t \in Threads : thread'[t].op \in {"Status", "Cancel"} =>
            /\ thread'[t].reply = "none" => thread'[t].arg \in {NoJob, job_path}
            /\ thread'[t].reply = "ok" => job_path # NoJob
    BY <1>1, <1>2 DEF OneJob
  <1>7. OneJob'
    BY <1>3, <1>4, <1>6 DEF OneJob, Ours
  <1>8. (SaysComplete' => SaysComplete) /\ (SaysCancelled' => SaysCancelled)
    BY <1>2, <1>4 DEF SaysComplete, SaysCancelled, Answered
  <1>9. SaidTrue'
    BY <1>1, <1>3, <1>4, <1>8 DEF SaidTrue
  <1>10. QED
    BY <1>5, <1>7, <1>9

LEMMA JobServe ==
    ASSUME Inductive, Orderly, NEW t \in Threads, Serve(t), ~overtaken'
    PROVE  OneStart' /\ OneJob' /\ SaidTrue'
  <1>1. Shaped /\ TypeOK /\ CallsTyped /\ JobTyped /\ OneStart /\ OneJob /\ SaidTrue
    BY DEF Inductive, Orderly
  <1>2. UNCHANGED windowVars /\ UNCHANGED <<step, busy, job_path, progress>>
    BY DEF Serve, ServeError, ServeList, ServePreflight, ServeStart, ServeStartUnspawned, Accept,
           ServeStatus, ServeCancel, ServeCancelUnannounced, Served, Called, windowVars
  <1>3. UNCHANGED <<life, erased, completed>>
    BY DEF Serve, ServeError, ServeList, ServePreflight, ServeStart, ServeStartUnspawned, Accept,
           ServeStatus, ServeCancel, ServeCancelUnannounced, Keeps, serviceVars
  <1>4. thread[t].reply = "none"
    BY DEF Serve, ServeError, ServeList, ServePreflight, ServeStart, ServeStartUnspawned, Accept,
           ServeStatus, ServeCancel, ServeCancelUnannounced, Served, Called
  <1>5. PICK reply, value : Reply(t, reply, value)
    BY DEF Serve, ServeError, ServeList, ServePreflight, ServeStart, ServeStartUnspawned,
           ServeStatus, ServeCancel, ServeCancelUnannounced
  <1>6. OthersKeep(t) /\ Holds(t, thread[t].op, None, reply, value)
    BY <1>1, <1>5, ReplyFacts
  <1>7. /\ \A u \in Threads : thread'[u].op = thread[u].op /\ (u # t => thread'[u] = thread[u])
        /\ thread'[t].arg = None
    BY <1>6 DEF Holds, OthersKeep
  <1>8. ASSUME NEW r, NEW v, Reply(t, r, v)
        PROVE  thread'[t].reply = r /\ thread'[t].value = v
    BY <1>1, <1>8, ReplyFacts DEF Holds
  <1>9. OneStart'
    BY <1>1, <1>2, <1>7, OneStartStays
  (* What follows if the answer is not the start of a job.                 *)
  <1>10. ASSUME thread[t].op # "Start" \/ thread'[t].reply = "error"
         PROVE  /\ Accepted' <=> Accepted
                /\ \A u \in Threads : Answered(u, "Start")' =>
                        Answered(u, "Start") /\ thread'[u].value = thread[u].value
    <2>1. \A u \in Threads : /\ Answered(u, "Start")' <=> Answered(u, "Start")
                             /\ Answered(u, "Start")' => thread'[u].value = thread[u].value
      BY <1>4, <1>7, <1>10 DEF Answered
    <2>2. Accepted' <=> Accepted
      BY <1>2, <2>1 DEF Accepted, Under, Answered
    <2>3. QED
      BY <2>1, <2>2
  <1>11. ASSUME thread[t].op \notin {"Status", "Cancel"} \/ thread'[t].reply = "error"
         PROVE  (SaysComplete' => SaysComplete) /\ (SaysCancelled' => SaysCancelled)
    <2>1. \A u \in Threads : \A o \in {"Status", "Cancel"} :
            Answered(u, o)' => Answered(u, o) /\ thread'[u].value = thread[u].value
      BY <1>4, <1>7, <1>11 DEF Answered
    <2>2. QED
      BY <1>2, <2>1 DEF SaysComplete, SaysCancelled
  <1>12. ASSUME job_path # NoJob \/ thread[t].op \notin {"Status", "Cancel"}
                                 \/ thread'[t].reply = "error"
         PROVE  \A u \in Threads : thread'[u].op \in {"Status", "Cancel"} =>
                    /\ thread'[u].reply = "none" => thread'[u].arg \in {NoJob, job_path'}
                    /\ thread'[u].reply = "ok" => job_path' # NoJob
    <2>1. thread'[t].reply # "none"
      <3>1. \A v : Reply(t, "ok", v) \/ Reply(t, "error", v) => thread'[t].reply # "none"
        BY <1>8
      <3>2. \E v : Reply(t, "ok", v) \/ Reply(t, "error", v)
        BY DEF Serve, ServeError, ServeList, ServePreflight, ServeStart, ServeStartUnspawned,
               ServeStatus, ServeCancel, ServeCancelUnannounced
      <3>3. QED
        BY <3>1, <3>2
    <2>2. \A u \in Threads : thread[u].op \in {"Status", "Cancel"} =>
                    /\ thread[u].reply = "none" => thread[u].arg \in {NoJob, job_path}
                    /\ thread[u].reply = "ok" => job_path # NoJob
      BY <1>1 DEF OneJob
    <2>3. QED
      BY <1>2, <1>7, <1>12, <2>1, <2>2
  <1>13. CASE ServeError(t) \/ ServeList(t)
    <2>1. (thread[t].op = "ListDisks" \/ thread'[t].reply = "error") /\ UNCHANGED serviceVars
      BY <1>8, <1>13 DEF ServeError, ServeList, Served, Called
    <2>2. CallsOurs'
      BY <1>1, <1>10, <1>12, <2>1 DEF CallsOurs, OneJob, Ours, serviceVars
    <2>3. OneJob'
      BY <1>1, <1>2, <1>10, <2>1, <2>2, OneJobStays
    <2>4. SaidTrue'
      BY <1>1, <1>2, <1>11, <2>1 DEF SaidTrue, serviceVars
    <2>5. QED
      BY <1>9, <2>3, <2>4
  <1>14. CASE ServePreflight(t)
    <2>1. /\ thread[t].op = "Preflight" /\ ~Accepted /\ ~workerActive
          /\ UNCHANGED <<jobPath, worker>>
      BY <1>14 DEF ServePreflight, Called, Keeps
    <2>2. job_path = NoJob /\ ~Accepted'
      BY <1>10, <2>1 DEF Accepted
    <2>3. \A u \in Threads : ~Answered(u, "Start")'
      BY <1>2, <2>2 DEF Accepted, Under, Answered
    <2>4. OneJob'
      BY <1>2, <1>12, <2>1, <2>2, <2>3 DEF OneJob, workerActive
    <2>5. ~SaysComplete' /\ ~SaysCancelled'
      BY <1>11, <2>1, <2>2, NothingSaid
    <2>6. QED
      BY <1>9, <2>4, <2>5 DEF SaidTrue
  <1>15. CASE ServeStart(t) \/ ServeStartUnspawned(t)
    <2>1. /\ thread[t].op = "Start" /\ jobPath' = nextJob /\ nextJob + life \in Jobs
          /\ ~workerActive /\ (ServeStart(t) => state' = "preparing")
          /\ ServeStartUnspawned(t) => state' = "failed"
      BY <1>15 DEF ServeStart, ServeStartUnspawned, Accept, Served, Called
    <2>2. job_path = NoJob /\ \A u \in Threads : thread[u].op = "Start" => u = t
      BY <1>1, <2>1 DEF OneStart
    <2>3. <<life, nextJob>> \notin erased
      <3>1. nextJob \in 1 .. MaxJob + 1
        BY <1>1 DEF TypeOK
      <3>2. \A j \in erased : j[1] = life => j[2] < nextJob
        BY <1>1 DEF JobTyped
      <3>3. <<life, nextJob>>[1] = life /\ <<life, nextJob>>[2] = nextJob /\ ~(nextJob < nextJob)
        BY <3>1
      <3>4. QED
        BY <3>2, <3>3
    <2>4. \A u \in Threads : Answered(u, "Start")' => u = t
      BY <1>7, <2>2 DEF Answered
    <2>5. ~SaysComplete' /\ ~SaysCancelled'
      BY <1>11, <2>1, <2>2, NothingSaid
    <2>6. CASE ServeStart(t)
      <3>1. thread'[t].reply = "ok" /\ thread'[t].value = <<life, nextJob>>
        BY <1>8, <2>6 DEF ServeStart
      <3>2. Accepted'
        BY <1>7, <2>1, <3>1 DEF Accepted, Under
      <3>3. \A u \in Threads : Answered(u, "Start")' => thread'[u].value = <<life', jobPath'>>
        BY <1>3, <2>1, <2>4, <3>1
      <3>4. OneJob'
        BY <1>2, <1>3, <1>12, <2>1, <2>2, <2>3, <2>6, <3>2, <3>3 DEF OneJob, Ours
      <3>5. QED
        BY <1>9, <2>5, <3>4 DEF SaidTrue
    <2>7. CASE ServeStartUnspawned(t)
      <3>1. thread'[t].reply = "error" /\ UNCHANGED worker
        BY <1>8, <2>7 DEF ServeStartUnspawned
      <3>2. \A u \in Threads : ~Answered(u, "Start")'
        BY <2>4, <3>1 DEF Answered
      <3>3. ~Accepted'
        BY <1>2, <2>2, <3>2 DEF Accepted, Under, Answered
      <3>4. OneJob'
        BY <1>2, <1>12, <2>1, <2>2, <3>1, <3>2, <3>3 DEF OneJob, workerActive
      <3>5. QED
        BY <1>9, <2>5, <3>4 DEF SaidTrue
    <2>8. QED
      BY <1>15, <2>6, <2>7
  <1>16. CASE ServeStatus(t) \/ ServeCancel(t) \/ ServeCancelUnannounced(t)
    <2>1. /\ thread[t].op \in {"Status", "Cancel"} /\ jobPath # 0 /\ thread[t].arg[2] = jobPath
          /\ UNCHANGED <<jobPath, worker>>
      BY <1>16 DEF ServeStatus, ServeCancel, ServeCancelUnannounced, OfThisJob, Served, Called,
                   Keeps, serviceVars
    <2>2. job_path # NoJob /\ job_path = <<life, jobPath>>
      <3>1. thread[t].arg \in {NoJob, job_path}
        BY <1>1, <1>4, <2>1 DEF OneJob
      <3>2. NoJob[2] = 0
        BY DEF NoJob
      <3>3. thread[t].arg = job_path /\ job_path # NoJob
        BY <2>1, <3>1, <3>2
      <3>4. QED
        BY <1>1, <2>1, <3>3 DEF OneJob, Ours
    <2>3. Accepted /\ Accepted'
      BY <1>2, <2>2 DEF Accepted
    <2>4. /\ state \notin {"idle", "ready"}
          /\ state \in {"preparing", "cancelled"} => job_path \notin erased
          /\ state = "complete" => job_path \in completed
      BY <1>1, <2>1, <2>2, <2>3 DEF OneJob
    <2>5. CallsOurs'
      <3>1. \A u \in Threads : Answered(u, "Start")' => Ours(thread'[u].value)
        BY <1>1, <1>10, <2>1 DEF OneJob
      <3>2. \A u \in Threads : Answered(u, "Start")' =>
                jobPath' = 0 \/ thread'[u].value = <<life', jobPath'>>
        BY <1>3, <2>1, <3>1 DEF Ours
      <3>3. QED
        BY <1>12, <2>2, <3>2 DEF CallsOurs, Ours
    <2>6. ASSUME state' = state \/ (state = "preparing" /\ state' = "cancelled")
          PROVE  OneJob'
      BY <1>2, <1>3, <2>1, <2>2, <2>3, <2>4, <2>5, <2>6 DEF OneJob, CallsOurs, Ours, workerActive
    <2>7. CASE ServeStatus(t)
      <3>1. Reply(t, "ok", Seen) /\ thread[t].op = "Status" /\ state' = state
        BY <2>7 DEF ServeStatus, Served, Called, serviceVars
      <3>2. /\ thread'[t].value = Seen
            /\ Seen = "complete" => state = "complete"
            /\ Seen = "cancelled" => state = "cancelled"
        BY <1>8, <3>1 DEF Seen
      <3>3. SaysComplete' => SaysComplete \/ state = "complete"
        BY <1>2, <1>7, <3>1, <3>2 DEF SaysComplete, Answered
      <3>4. SaysCancelled' => SaysCancelled \/ state = "cancelled"
        BY <1>2, <1>7, <3>1, <3>2 DEF SaysCancelled, Answered
      <3>5. SaidTrue'
        BY <1>1, <1>2, <1>3, <2>2, <2>4, <3>1, <3>3, <3>4 DEF SaidTrue
      <3>6. QED
        BY <1>9, <2>6, <3>1, <3>5
    <2>8. CASE ServeCancel(t) \/ ServeCancelUnannounced(t)
      <3>1. /\ thread[t].op = "Cancel"
            /\ state' = IF IsCancellable(state) THEN "cancelled" ELSE state
            /\ \/ thread'[t].reply = "error"
               \/ thread'[t].reply = "ok" /\ thread'[t].value = IsCancellable(state)
        BY <1>8, <2>8 DEF ServeCancel, ServeCancelUnannounced, Served, Called
      <3>2. /\ IsCancellable(state) => state = "preparing" /\ state' = "cancelled"
            /\ ~IsCancellable(state) => state' = state
        BY <2>4, <3>1 DEF IsCancellable
      <3>3. SaysComplete' => SaysComplete
        BY <1>2, <1>7, <3>1 DEF SaysComplete, Answered
      <3>4. SaysCancelled' => SaysCancelled \/ IsCancellable(state)
        BY <1>2, <1>7, <3>1 DEF SaysCancelled, Answered
      <3>5. SaidTrue'
        BY <1>1, <1>2, <1>3, <2>2, <2>4, <3>2, <3>3, <3>4 DEF SaidTrue
      <3>6. QED
        BY <1>9, <2>6, <3>2, <3>5
    <2>9. QED
      BY <1>16, <2>7, <2>8
  <1>17. QED
    BY <1>13, <1>14, <1>15, <1>16 DEF Serve

LEMMA InTimeNext == Inductive /\ InTime /\ [Next]_vars => InTime'
  <1> SUFFICES ASSUME Inductive, InTime, [Next]_vars, ~overtaken' PROVE Orderly'
    BY DEF InTime
  <1>1. CASE Press \/ Timer
    <2>1. overtaken' = overtaken
      BY <1>1 DEF Press, DiscoverDisks, RunPreflight, StartInstall, RefreshStatus, Timer,
                  CancelInstall, BackPage, User
    <2>2. QED
      BY <1>1, <2>1, OneStartPress, JobPress DEF InTime, Orderly
  <1>2. ASSUME NEW t \in Threads, Serve(t) PROVE Orderly'
    <2>1. overtaken' = overtaken \/ overtaken' = (overtaken \/ Accepted)
      BY <1>2 DEF Serve, ServeError, ServeList, ServePreflight, ServeStart, ServeStartUnspawned,
                  Accept, ServeStatus, ServeCancel, ServeCancelUnannounced, Served
    <2>2. QED
      BY <1>2, <2>1, JobServe DEF InTime, Orderly
  <1>3. ASSUME NEW t \in Threads, Apply(t) PROVE Orderly'
    <2>1. overtaken' = overtaken \/ overtaken' = (overtaken \/ job_path # NoJob)
      BY <1>3 DEF Apply, ApplyError, ApplyList, ApplyPreflight, ApplyStart, ApplyStatus,
                  ApplyCancel, Window
    <2>2. QED
      BY <1>3, <2>1, OneStartApply, JobApply DEF InTime, Orderly
  <1>4. CASE Work
    <2>1. UNCHANGED <<overtaken, windowVars, thread>>
      BY <1>4 DEF Work, Erase, Complete, Fail, RecordFailure, Release, Worker
    <2>2. Orderly
      BY <2>1 DEF InTime
    <2>3. OneStart'
      BY <2>1, <2>2, OneStartStays DEF Orderly
    <2>4. QED
      BY <1>4, <2>2, <2>3, JobWork DEF Orderly
  <1>5. CASE Crash
    BY <1>5, JobCrash DEF Crash, InTime, Orderly
  <1>6. CASE UNCHANGED vars
    BY <1>6 DEF vars, windowVars, serviceVars, InTime, Orderly, OneStart, OneJob, Ours, Accepted,
                Under, workerActive, SaidTrue, SaysComplete, SaysCancelled, Answered
  <1>7. QED
    BY <1>1, <1>2, <1>3, <1>4, <1>5, <1>6 DEF Next

LEMMA InTimeHolds == Spec => []InTime
  <1>1. Init => InTime
    BY OrderlyInit DEF InTime
  <1>2. QED
    BY <1>1, InTimeNext, InductiveHolds, PTL DEF Spec

(* The Finish page is shown for a completed job (update_status of the      *)
(* window): of this window, and the only one at work, until a review comes *)
(* after the Start it was made for; a job that is recorded as failed after *)
(* it was complete is a completed one.                                     *)
THEOREM FinishEarnedHolds == Spec => []FinishEarned
  <1>1. Inductive /\ InTime => FinishEarned
    <2> SUFFICES ASSUME Inductive, InTime PROVE FinishEarned
      OBVIOUS
    <2>1. TypeOK /\ (step = 8 => completed # {}) /\ (workerActive => jobPath # 0)
      BY DEF Inductive, JobTyped
    <2>2. ASSUME ~overtaken
          PROVE  /\ Under("Start") # {} => ~StartEnabled /\ \E t \in Threads : Under("Start") = {t}
                 /\ step = 8 => job_path \in completed
                 /\ step = 8 /\ workerActive => <<life, jobPath>> = job_path
      <3>1. OneStart /\ OneJob /\ SaidTrue
        BY <2>2 DEF InTime, Orderly
      <3>2. ASSUME NEW t \in Under("Start") PROVE ~StartEnabled /\ Under("Start") = {t}
        BY <3>1 DEF Under, OneStart, StartEnabled
      <3>3. step = 8 => job_path \in completed
        BY <3>1 DEF SaidTrue, SaysComplete
      <3>4. step = 8 /\ workerActive => <<life, jobPath>> = job_path
        BY <2>1, <3>1 DEF OneStart, OneJob, Ours
      <3>5. QED
        BY <3>2, <3>3, <3>4 DEF Under
    <2>3. QED
      BY <2>1, <2>2 DEF FinishEarned
  <1>2. QED
    BY <1>1, InductiveHolds, InTimeHolds, PTL

(* A window that speaks of a cancellation (cancel_install and              *)
(* update_status) has a job that overwrote nothing, until a review comes   *)
(* after the Start it was made for.                                        *)
THEOREM CancelShownHolds == Spec => []CancelShownTrue
  <1>1. InTime => CancelShownTrue
    BY DEF InTime, Orderly, SaidTrue, SaysCancelled, CancelShownTrue
  <1>2. QED
    BY <1>1, InTimeHolds, PTL
=============================================================================
