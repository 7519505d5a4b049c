---------------------------- MODULE Greeter_proofs ----------------------------
(* Theorems about Greeter, for any configurations, accounts, processes and *)
(* number of greeters.                                                     *)
EXTENDS Greeter, TLAPS

(* What the service and the greeter share of the invariant.                *)
Configured == ServiceTypeOK /\ Setting /\ RecordImpliesApplied
Awaited == Asking /\ SetupReported

GreeterTypeOK ==
    /\ gen \in Greeters
    /\ page \in {"starting", "wizard", "login", "gone"}
    /\ busy \in BOOLEAN /\ auth \in BOOLEAN
    /\ asked \in Choices \cup {None}
    /\ typed \in Accounts \cup {None}
    /\ session \in Accounts \cup {None} /\ started \in Accounts \cup {None}
    /\ conv \in {"none", "asking", "ready", "broken"}
    /\ conv # "none" => session # None

(* The login screen, the conversation and the session started.             *)
LoggedIn == GreeterTypeOK /\ LoggingIn /\ StartedAsTyped

LEMMA Parts ==
    /\ Inductive <=> Configured /\ Awaited /\ LoggedIn
    /\ Inductive' <=> (Configured /\ Awaited /\ LoggedIn)'
  BY DEF Inductive, Configured, Awaited, LoggedIn, GreeterTypeOK, TypeOK

-----------------------------------------------------------------------------
(* The service.                                                            *)

(* The tool that was run is the only one done more when the next starts.   *)
LEMMA AfterTool ==
    ASSUME NEW s \in Tools
    PROVE  /\ After[s] \in DOMAIN Before \ {"publish", "locale"}
           /\ Before[After[s]] \subseteq Before[s] \cup ({s} \cap Settings)
           /\ After[s] = "chpasswd" => s = "useradd"
           /\ After[s] = "create" => s = "chpasswd"
           /\ After[s] \in Steps \ {"idle", "reply"}
  <1> USE DEF After, Before, Settings, Tools, Steps
  <1>1. CASE s = "locale"
    BY <1>1
  <1>2. CASE s = "keymap"
    BY <1>2
  <1>3. CASE s = "timezone"
    BY <1>3
  <1>4. CASE s = "hostname"
    BY <1>4
  <1>5. CASE s = "useradd"
    BY <1>5
  <1>6. CASE s = "chpasswd"
    BY <1>6
  <1>7. QED
    BY <1>1, <1>2, <1>3, <1>4, <1>5, <1>6

LEMMA BeforeDomain ==
    DOMAIN Before = Tools \cup {"create", "publish"} /\ \A s \in DOMAIN Before : Before[s] \subseteq Settings
  BY DEF Before, Tools, Settings

(* The user of a configuration is an account.                              *)
LEMMA UserKnown == ASSUME job \in Calls PROVE User \in Accounts /\ job.choice \in Choices
  BY DEF Calls, User, Accounts

LEMMA CallsAreNot == \A c \in Calls : c # None
  BY NothingAssumption

LEMMA InitConfigured == ServiceInit => Configured
  <1> SUFFICES ASSUME ServiceInit PROVE Configured
    OBVIOUS
  <1>1. ServiceTypeOK
    <2>1. account \in [Accounts -> {"absent", "shipped", "bare", "ready"}]
      BY DEF ServiceInit
    <2>2. applied \in [Settings -> Choices \cup {None}] /\ answer \in [Greeters -> {"ok", "error", None}]
      BY DEF ServiceInit
    <2>3. QED
      BY <2>1, <2>2 DEF ServiceInit, ServiceTypeOK, Steps
  <1>2. Setting
    BY BeforeDomain DEF ServiceInit, Setting, Tools, Settings
  <1>3. QED
    BY <1>1, <1>2 DEF ServiceInit, Configured, RecordImpliesApplied

LEMMA ServiceConfigured ==
    ASSUME Configured, Serve \/ Die
           \/ (\E call \in calls : NotActivated(call)) \/ (\E p \in Pids : Activate(p))
    PROVE  Configured'
  <1> USE DEF Configured, procVars, machineVars
  <1>1. job # None => job \in Calls /\ User \in Accounts /\ job.choice \in Choices
    BY UserKnown DEF ServiceTypeOK
  <1>2. ASSUME NEW p \in Pids, Activate(p) PROVE Configured'
    BY <1>2, <1>1 DEF Activate, ServiceTypeOK, Setting, RecordImpliesApplied, User
  <1>3. ASSUME NEW call \in calls, NotActivated(call) \/ Refuse(call) PROVE Configured'
    <2>1. call.by \in Greeters
      BY DEF ServiceTypeOK, Calls
    <2>2. QED
      BY <2>1, <1>3 DEF NotActivated, Refuse, Taken, ServiceTypeOK, Setting, RecordImpliesApplied, User
  <1>4. ASSUME NEW call \in calls, Begin(call) PROVE Configured'
    <2>1. ServiceTypeOK'
      BY <1>4, CallsAreNot DEF Begin, Taken, Required, ServiceTypeOK, Steps, Tools, Settings
    <2>2. Setting'
      BY <1>4 DEF Begin, Taken, Required, Setting, Before
    <2>3. QED
      BY <2>1, <2>2, <1>4 DEF Begin, Required, RecordImpliesApplied
  <1>5. ASSUME RunTool PROVE Configured'
    <2>1. /\ job # None /\ record = None
          /\ step \in DOMAIN Before /\ \A s \in Before[step] : applied[s] = job.choice
      BY <1>5, BeforeDomain DEF RunTool, Setting, ServiceTypeOK, Tools, Settings
    <2>2. ServiceTypeOK'
      BY <1>5, <1>1, <2>1, AfterTool DEF RunTool, Takes, ServiceTypeOK
    <2>3. Setting'
      <3>1. /\ step' \in DOMAIN Before \ {"publish"} /\ step' # "reply"
            /\ Before[step'] \subseteq Before[step] \cup ({step} \cap Settings)
            /\ step' = "chpasswd" => step = "useradd"
            /\ step' = "create" => step = "chpasswd"
        BY <1>5, AfterTool DEF RunTool, Steps
      <3>2. step \in Settings => applied' = [applied EXCEPT ![step] = job.choice]
        BY <1>5 DEF RunTool, Takes, Settings
      <3>3. step \notin Settings => applied' = applied
        BY <1>5 DEF RunTool, Takes
      <3>4. \A s \in Before[step'] : applied'[s] = job.choice
        <4>1. Before[step] \subseteq Settings /\ applied \in [Settings -> Choices \cup {None}]
          BY <2>1, BeforeDomain DEF ServiceTypeOK
        <4>2. CASE step \in Settings
          BY <4>1, <4>2, <3>1, <3>2, <2>1
        <4>3. CASE step \notin Settings
          BY <4>1, <4>3, <3>1, <3>3, <2>1
        <4>4. QED
          BY <4>2, <4>3
      <3>5. step = "useradd" => User \in made'
        BY <1>5 DEF RunTool, Takes, Settings
      <3>6. step = "chpasswd" => account'[User] = "ready"
        BY <1>5, <1>1, <2>1 DEF RunTool, Takes, Settings, ServiceTypeOK
      <3>7. job' = job /\ record' = record
        BY <1>5 DEF RunTool
      <3>8. QED
        BY <3>1, <3>4, <3>5, <3>6, <3>7, <2>1 DEF Setting, User
    <2>4. QED
      BY <2>1, <2>2, <2>3, <1>5 DEF RunTool, RecordImpliesApplied
  <1>6. ASSUME MayTake, record' = record
        PROVE  /\ applied' \in [Settings -> Choices \cup {None}]
               /\ account' \in [Accounts -> {"absent", "shipped", "bare", "ready"}]
               /\ made' \subseteq Accounts
               /\ RecordImpliesApplied'
    <2>1. CASE UNCHANGED machineVars
      BY <2>1, <1>6 DEF ServiceTypeOK, RecordImpliesApplied
    <2>2. CASE step \in Tools /\ Takes(step)
      <3>1. job # None /\ record = None
        BY <2>2, BeforeDomain DEF Setting, ServiceTypeOK, Tools, Settings
      <3>2. QED
        BY <3>1, <2>2, <1>1, <1>6 DEF Takes, ServiceTypeOK, RecordImpliesApplied
    <2>3. QED
      BY <2>1, <2>2, <1>6 DEF MayTake
  <1>7. ASSUME NEW outcome \in {"ok", "error"}, Answered(outcome), job # None, UNCHANGED pid,
               temp' \subseteq Pids, calls' = calls, record' = record, MayTake
        PROVE  Configured'
    <2>1. job.by \in Greeters
      BY <1>7, <1>1 DEF Calls
    <2>2. ServiceTypeOK'
      BY <2>1, <1>6, <1>7 DEF Answered, ServiceTypeOK, Steps
    <2>3. Setting'
      BY <1>7 DEF Answered, Setting, Before
    <2>4. QED
      BY <2>2, <2>3, <1>6, <1>7
  <1>8. step # "idle" => job # None
    BY DEF ServiceTypeOK
  <1>9. ASSUME ToolFails \/ CreateFails \/ PublishFails \/ Reply PROVE Configured'
    BY <1>7, <1>8, <1>9 DEF ToolFails, CreateFails, PublishFails, Reply, MayTake, Tools, Settings, ServiceTypeOK
  <1>10. ASSUME CreateTemp PROVE Configured'
    <2>1. ServiceTypeOK'
      BY <1>10, <1>8 DEF CreateTemp, ServiceTypeOK, Steps
    <2>2. Setting'
      BY <1>10 DEF CreateTemp, Setting, Before, User
    <2>3. QED
      BY <2>1, <2>2, <1>10 DEF CreateTemp, RecordImpliesApplied
  <1>11. ASSUME Publish PROVE Configured'
    <2>1. ServiceTypeOK'
      BY <1>11, <1>8, <1>1 DEF Publish, ServiceTypeOK, Steps
    <2>2. Setting'
      BY <1>11 DEF Publish, Setting, Before
    <2>3. /\ \A s \in Settings : applied[s] = job.choice
          /\ account[User] = "ready"
      BY <1>11 DEF Publish, Setting, Before
    <2>4. QED
      BY <2>1, <2>2, <2>3, <1>11 DEF Publish, RecordImpliesApplied, User
  <1>12. ASSUME Die PROVE Configured'
    <2>1. ServiceTypeOK'
      BY <1>12, <1>6 DEF Die, ServiceTypeOK, Steps
    <2>2. Setting'
      BY <1>12 DEF Die, Setting, Before
    <2>3. QED
      BY <2>1, <2>2, <1>12, <1>6 DEF Die
  <1>13. QED
    BY <1>2, <1>3, <1>4, <1>5, <1>9, <1>10, <1>11, <1>12 DEF Serve

-----------------------------------------------------------------------------
(* Calls and answers.                                                      *)

(* A greeter has one call: two of the present one would be the same.       *)
LEMMA OneCall ==
    ASSUME ServiceTypeOK, Asking, job # None, job.by = gen, NEW call \in calls
    PROVE  call.by # gen
  <1>1. job \in Calls /\ call \in Calls /\ call # None
    BY CallsAreNot DEF ServiceTypeOK
  <1>2. job # call
    BY DEF Asking
  <1>3. call.by = job.by /\ call.choice = job.choice => call = job
    BY <1>1 DEF Calls
  <1>4. QED
    BY <1>1, <1>2, <1>3 DEF Asking

(* An answer to the one call that is served.                               *)
LEMMA AnsweredAwaited ==
    ASSUME ServiceTypeOK, Awaited, gen \in Greeters, UNCHANGED greeterVars,
           job # None, calls' = calls, NEW outcome \in {"ok", "error"}, Answered(outcome), record' = record,
           outcome = "ok" => record = job.choice
    PROVE  Awaited'
  <1> USE DEF greeterVars, Greeters
  <1>1. job \in Calls /\ job.by \in Greeters /\ job.choice # None /\ answer \in [Greeters -> {"ok", "error", None}]
    BY NothingAssumption DEF ServiceTypeOK, Calls
  <1>2. /\ answer' = [answer EXCEPT ![job.by] = outcome] /\ job' = None
        /\ gen' = gen /\ asked' = asked /\ page' = page /\ busy' = busy
    BY DEF Answered
  <1>3. job.by <= gen /\ (job.by = gen => job.choice = asked)
    BY DEF Awaited, Asking
  <1>4. Asking'
    <2>1. ASSUME NEW call \in calls
          PROVE  /\ call.by <= gen
                 /\ call.by = gen =>
                       /\ call.choice = asked /\ answer'[gen] = None
                       /\ page = "gone" \/ (page = "wizard" /\ busy)
      BY <1>1, <1>2, OneCall, CallsAreNot DEF Awaited, Asking, ServiceTypeOK
    <2>2. \A g \in Greeters : g > gen => answer'[g] = None
      BY <1>1, <1>2, <1>3 DEF Awaited, Asking
    <2>3. None \notin calls
      BY CallsAreNot DEF ServiceTypeOK
    <2>4. QED
      BY <1>2, <2>1, <2>2, <2>3 DEF Asking
  <1>5. SetupReported'
    BY <1>1, <1>2, <1>3 DEF Awaited, SetupReported
  <1>6. QED
    BY <1>4, <1>5 DEF Awaited

LEMMA ServiceAwaited ==
    ASSUME Configured, Awaited, gen \in Greeters, UNCHANGED greeterVars,
           Serve \/ Die
           \/ (\E call \in calls : NotActivated(call)) \/ (\E p \in Pids : Activate(p))
    PROVE  Awaited'
  <1> USE DEF Configured, greeterVars, procVars, machineVars
  <1>1. \A call \in calls \cup {job} : call # None => call \in Calls /\ call.by \in Greeters
    BY DEF ServiceTypeOK, Calls
  <1>2. ASSUME NEW p \in Pids, Activate(p) PROVE Awaited'
    BY <1>2 DEF Activate, Awaited, Asking, SetupReported
  <1>3. ASSUME NEW call \in calls, NotActivated(call) \/ Refuse(call) PROVE Awaited'
    <2>1. /\ answer' = [answer EXCEPT ![call.by] = "error"] /\ calls' = calls \ {call}
          /\ job' = job /\ job = None /\ record' = record
      BY <1>3 DEF NotActivated, Refuse, Taken, ServiceTypeOK
    <2>2. call \in Calls /\ call # None
      BY CallsAreNot DEF ServiceTypeOK
    <2>3. ASSUME NEW other \in calls', call.by = gen PROVE other.by # gen
      <3>1. other \in Calls /\ other # call /\ other \in calls /\ other # None
        BY <2>1, CallsAreNot DEF ServiceTypeOK
      <3>2. other.by = call.by /\ other.choice = call.choice => other = call
        BY <2>2, <3>1 DEF Calls
      <3>3. QED
        BY <2>2, <2>3, <3>1, <3>2 DEF Awaited, Asking
    <2>4. Asking'
      BY <2>1, <2>2, <2>3, <1>1 DEF Awaited, Asking, ServiceTypeOK, Greeters
    <2>5. SetupReported'
      BY <2>1, <2>2, <1>1, NothingAssumption DEF Awaited, SetupReported, ServiceTypeOK
    <2>6. QED
      BY <2>4, <2>5 DEF Awaited
  <1>4. ASSUME NEW call \in calls, Begin(call) PROVE Awaited'
    BY <1>4 DEF Begin, Taken, Awaited, Asking, SetupReported
  <1>5. ASSUME UNCHANGED <<job, calls, answer, record>> PROVE Awaited'
    BY <1>5 DEF Awaited, Asking, SetupReported
  <1>6. ASSUME RunTool \/ CreateTemp PROVE Awaited'
    BY <1>5, <1>6 DEF RunTool, CreateTemp
  <1>7. ASSUME Publish PROVE Awaited'
    <2>1. record = None
      BY <1>7 DEF Publish, Setting, Before
    <2>2. answer[gen] # "ok"
      BY <2>1 DEF Awaited, SetupReported
    <2>3. QED
      BY <1>7, <2>2 DEF Publish, Awaited, Asking, SetupReported
  <1>8. ASSUME ToolFails \/ CreateFails \/ PublishFails \/ Reply PROVE Awaited'
    <2>1. job # None
      BY <1>8 DEF ToolFails, CreateFails, PublishFails, Reply, ServiceTypeOK, Tools, Settings
    <2>2. Reply => record = job.choice
      BY DEF Reply, Setting
    <2>3. CASE Reply
      BY <2>1, <2>2, <2>3, AnsweredAwaited DEF Reply
    <2>4. CASE ToolFails \/ CreateFails \/ PublishFails
      BY <2>1, <2>4, AnsweredAwaited DEF ToolFails, CreateFails, PublishFails
    <2>5. QED
      BY <1>8, <2>3, <2>4
  <1>9. ASSUME Die PROVE Awaited'
    <2>1. /\ job' = None /\ calls' = {} /\ record' = record
          /\ \A g \in Greeters : answer'[g] = "error" \/ answer'[g] = answer[g]
          /\ \A g \in Greeters : g > gen => answer'[g] = answer[g]
      <3>1. /\ job' = None /\ calls' = {} /\ record' = record
            /\ answer' = [g \in Greeters |->
                            IF (job # None /\ job.by = g) \/ \E call \in calls : call.by = g
                            THEN "error" ELSE answer[g]]
        BY <1>9 DEF Die
      <3>2. \A g \in Greeters : answer'[g] = "error" \/ answer'[g] = answer[g]
        BY <3>1
      <3>3. ASSUME NEW g \in Greeters, g > gen PROVE answer'[g] = answer[g]
        <4>1. /\ job # None => job.by # g
              /\ \A call \in calls : call.by # g
          BY <1>1, <3>3, CallsAreNot DEF Awaited, Asking, Greeters, ServiceTypeOK
        <4>2. QED
          BY <3>1, <4>1
      <3>4. QED
        BY <3>1, <3>2, <3>3
    <2>2. QED
      BY <2>1 DEF Awaited, Asking, SetupReported
  <1>10. QED
    BY <1>2, <1>3, <1>4, <1>6, <1>7, <1>8, <1>9 DEF Serve

-----------------------------------------------------------------------------
(* The greeter.                                                            *)

(* The wizard.                                                             *)
LEMMA WizardInductive ==
    ASSUME Inductive,
           SetupStatus \/ SetupUnknown \/ Applied \/ NotSent \/ \E c \in Choices : Finish(c)
    PROVE  Inductive'
  <1> USE NothingAssumption DEF procVars, machineVars, serviceVars, loginVars
  <1> Configured /\ Awaited /\ LoggedIn
    BY Parts
  <1> USE DEF GreeterTypeOK
  <1>1. \A call \in calls \cup {job} : call # None => call \in Calls /\ call.by \in Greeters
    BY DEF Configured, ServiceTypeOK, Calls
  <1>2. ASSUME SetupStatus \/ SetupUnknown \/ Applied PROVE Inductive'
    <2>1. /\ UNCHANGED <<serviceVars, gen, asked, loginVars>>
          /\ page' \in {"wizard", "login"} /\ page \in {"starting", "wizard"} /\ busy' \in BOOLEAN
      BY <1>2 DEF SetupStatus, SetupUnknown, Applied, BusyAfter, LoggedIn
    <2>2. \A call \in calls \cup {job} : call # None => call.by # gen
      BY <1>2 DEF SetupStatus, SetupUnknown, Applied, Awaited, Asking
    <2>3. Awaited'
      BY <2>1, <2>2 DEF Awaited, Asking, SetupReported
    <2>4. Configured'
      BY <2>1 DEF Configured, ServiceTypeOK, Setting, RecordImpliesApplied, User
    <2>5. LoggedIn'
      BY <2>1 DEF LoggedIn, LoggingIn, StartedAsTyped
    <2>6. QED
      BY <2>3, <2>4, <2>5, Parts
  <1>3. ASSUME NEW c \in Choices, Finish(c) PROVE Inductive'
    <2> DEFINE new == [by |-> gen, choice |-> c]
    <2>1. /\ page = "wizard" /\ busy = FALSE /\ page' = page /\ busy' = TRUE /\ asked' = c /\ gen' = gen
          /\ UNCHANGED <<procVars, machineVars, record, temp, loginVars>>
          /\ calls' = calls \cup {new} /\ answer' = [answer EXCEPT ![gen] = None]
      BY <1>3 DEF Finish, LoggedIn
    <2>2. \A call \in calls \cup {job} : call # None => call.by # gen
      BY <2>1 DEF Awaited, Asking
    <2>3. gen \in Greeters /\ new \in Calls /\ new # None /\ new.by = gen /\ new.choice = c
      BY CallsAreNot DEF LoggedIn, Calls
    <2>4. answer \in [Greeters -> {"ok", "error", None}]
      BY DEF Configured, ServiceTypeOK
    <2>5. ServiceTypeOK'
      BY <2>1, <2>3 DEF Configured, ServiceTypeOK
    <2>6. Configured'
      BY <2>1, <2>5 DEF Configured, Setting, RecordImpliesApplied, User
    <2>7. Asking'
      <3>1. \A call \in calls \cup {job} : call # None => call.by <= gen /\ call.by # gen
        BY <2>2 DEF Awaited, Asking
      <3>2. job \notin calls'
        BY <2>1, <2>2, <2>3 DEF Awaited, Asking
      <3>3. answer'[gen] = None /\ \A g \in Greeters : g > gen => answer'[g] = None
        BY <2>1, <2>3, <2>4 DEF Awaited, Asking, Greeters
      <3>4. gen <= gen
        BY <2>3 DEF Greeters
      <3>5. QED
        BY <2>1, <2>3, <3>1, <3>2, <3>3, <3>4 DEF Asking
    <2>8. SetupReported'
      BY <2>1, <2>3, <2>4 DEF SetupReported
    <2>9. LoggedIn'
      BY <2>1 DEF LoggedIn, LoggingIn, StartedAsTyped
    <2>10. QED
      BY <2>6, <2>7, <2>8, <2>9, Parts DEF Awaited
  <1>4. ASSUME NotSent PROVE Inductive'
    <2>1. /\ UNCHANGED <<procVars, machineVars, record, temp, gen, page, busy, asked, loginVars>>
          /\ calls' = {call \in calls : call.by # gen} /\ answer' = [answer EXCEPT ![gen] = "error"]
      BY <1>4 DEF NotSent
    <2>2. job # None => job.by # gen
      BY <1>4, OneCall DEF NotSent, Awaited, Configured
    <2>3. gen \in Greeters /\ answer \in [Greeters -> {"ok", "error", None}]
      BY DEF LoggedIn, Configured, ServiceTypeOK
    <2>4. ServiceTypeOK'
      BY <2>1, <2>3 DEF Configured, ServiceTypeOK
    <2>5. Configured'
      BY <2>1, <2>4 DEF Configured, Setting, RecordImpliesApplied, User
    <2>6. Asking'
      BY <2>1, <2>2, <2>3 DEF Awaited, Asking, Greeters
    <2>7. SetupReported'
      BY <2>1, <2>3 DEF SetupReported
    <2>8. LoggedIn'
      BY <2>1 DEF LoggedIn, LoggingIn, StartedAsTyped
    <2>9. QED
      BY <2>5, <2>6, <2>7, <2>8, Parts DEF Awaited
  <1>5. QED
    BY <1>2, <1>3, <1>4

(* A reply in the conversation of the user whose name was typed.           *)
LEMMA ReplyLoggedIn ==
    ASSUME LoggedIn, page = "login", NEW u \in Accounts, typed' = u, ProcessReply(u) \/ Failure(None, "none"),
           UNCHANGED <<gen, page, busy, asked, started>>
    PROVE  LoggedIn'
  <1> USE NothingAssumption DEF LoggedIn, GreeterTypeOK, LoggingIn, StartedAsTyped
  <1>1. u # None /\ started = None
    OBVIOUS
  <1>2. CASE Show(u, "asking", TRUE)
    BY <1>1, <1>2 DEF Show
  <1>3. CASE Show(u, "ready", auth)
    BY <1>1, <1>3 DEF Show
  <1>4. CASE Failure(None, "none")
    BY <1>1, <1>4 DEF Failure, Show
  <1>5. QED
    BY <1>2, <1>3, <1>4 DEF ProcessReply, Prompted

(* The login.                                                              *)
LEMMA LoginInductive ==
    ASSUME Inductive,
           \/ \E u \in Accounts : SignIn(u) \/ SignInAgain(u)
           \/ Respond \/ StartSession \/ Break \/ Leave
    PROVE  Inductive'
  <1> USE NothingAssumption DEF loginVars
  <1> Configured /\ Awaited /\ LoggedIn
    BY Parts
  <1>1. /\ UNCHANGED <<serviceVars, gen, asked>>
        /\ page = "login" \/ page' = "gone"
        /\ page' = "gone" \/ (page' = page /\ busy' = busy)
    BY DEF SignIn, SignInAgain, Respond, Post, StartSession, Break, Leave
  <1>2. Configured'
    BY <1>1 DEF Configured, ServiceTypeOK, Setting, RecordImpliesApplied, User, serviceVars
  <1>3. Awaited'
    BY <1>1 DEF Awaited, Asking, SetupReported, serviceVars
  <1>4. LoggedIn'
    <2> USE DEF LoggedIn, GreeterTypeOK, LoggingIn, StartedAsTyped
    <2>1. ASSUME NEW u \in Accounts, SignIn(u) PROVE LoggedIn'
      BY <2>1, ReplyLoggedIn DEF SignIn
    <2>2. ASSUME Post, NEW u \in Accounts, typed' = u, conv = "asking" => u = session
          PROVE  LoggedIn'
      <3>1. CASE conv = "asking" /\ ProcessReply(session)
        BY <2>2, <3>1, ReplyLoggedIn DEF Post
      <3>2. CASE conv # "asking" /\ \E c \in {"none", "broken"} : Failure(IF c = "none" THEN None ELSE session, c)
        BY <2>2, <3>2 DEF Post, Failure, Show
      <3>3. QED
        BY <2>2, <3>1, <3>2 DEF Post
    <2>3. ASSUME NEW u \in Accounts, SignInAgain(u) PROVE LoggedIn'
      BY <2>2, <2>3 DEF SignInAgain
    <2>4. ASSUME Respond PROVE LoggedIn'
      <3>1. CASE conv = "asking"
        BY <2>2, <2>4, <3>1 DEF Respond, Post
      <3>2. CASE conv # "asking"
        BY <2>4, <3>2 DEF Respond, Post, Failure, Show
      <3>3. QED
        BY <3>1, <3>2
    <2>5. ASSUME StartSession PROVE LoggedIn'
      BY <2>5 DEF StartSession, Failure, Show
    <2>6. ASSUME Break \/ Leave PROVE LoggedIn'
      BY <2>6 DEF Break, Leave, Show
    <2>7. QED
      BY <2>1, <2>3, <2>4, <2>5, <2>6
  <1>5. QED
    BY <1>2, <1>3, <1>4, Parts

LEMMA RestartInductive == ASSUME Inductive, Restart PROVE Inductive'
  <1> USE NothingAssumption, GreeterAssumption
  <1> Configured /\ Awaited /\ LoggedIn
    BY Parts
  <1>1. Configured'
    BY DEF Restart, Configured, ServiceTypeOK, Setting, RecordImpliesApplied, User, serviceVars
  <1>2. gen \in Greeters /\ gen + 1 \in Greeters
    BY DEF LoggedIn, GreeterTypeOK, Restart, Greeters
  <1>3. Awaited'
    BY <1>2 DEF Restart, Awaited, Asking, SetupReported, serviceVars, Greeters, Configured, ServiceTypeOK, Calls
  <1>4. LoggedIn'
    BY <1>2 DEF Restart, LoggedIn, GreeterTypeOK, LoggingIn, StartedAsTyped
  <1>5. QED
    BY <1>1, <1>3, <1>4, Parts

LEMMA InitInductive == Init => Inductive
  <1> SUFFICES ASSUME Init PROVE Inductive
    OBVIOUS
  <1>1. Configured
    BY InitConfigured DEF Init
  <1>2. Awaited
    BY NothingAssumption, GreeterAssumption DEF Init, ServiceInit, Awaited, Asking, SetupReported, Greeters
  <1>3. LoggedIn
    <2>1. gen \in Greeters
      BY GreeterAssumption DEF Init, Greeters
    <2>2. QED
      BY <2>1 DEF Init, LoggedIn, GreeterTypeOK, LoggingIn, StartedAsTyped
  <1>4. QED
    BY <1>1, <1>2, <1>3, Parts

LEMMA NextInductive == Inductive /\ [Next]_vars => Inductive'
  <1> SUFFICES ASSUME Inductive, [Next]_vars PROVE Inductive'
    OBVIOUS
  <1> Configured /\ Awaited /\ LoggedIn
    BY Parts
  <1>1. ASSUME Service \/ Died PROVE Inductive'
    <2>1. UNCHANGED greeterVars /\ gen \in Greeters
      BY <1>1 DEF Service, Died, LoggedIn, GreeterTypeOK
    <2>2. Configured' /\ Awaited'
      BY <1>1, <2>1, ServiceConfigured, ServiceAwaited DEF Service, Died
    <2>3. LoggedIn'
      BY <2>1 DEF greeterVars, loginVars, LoggedIn, GreeterTypeOK, LoggingIn, StartedAsTyped
    <2>4. QED
      BY <2>2, <2>3, Parts
  <1>2. ASSUME UNCHANGED vars PROVE Inductive'
    <2>1. Configured'
      BY <1>2 DEF vars, serviceVars, Configured, ServiceTypeOK, Setting, RecordImpliesApplied, User
    <2>2. Awaited'
      BY <1>2 DEF vars, serviceVars, Awaited, Asking, SetupReported
    <2>3. LoggedIn'
      BY <1>2 DEF vars, loginVars, LoggedIn, GreeterTypeOK, LoggingIn, StartedAsTyped
    <2>4. QED
      BY <2>1, <2>2, <2>3, Parts
  <1>3. QED
    BY <1>1, <1>2, WizardInductive, LoginInductive, RestartInductive DEF Next

-----------------------------------------------------------------------------
(* Every part of the inductive invariant holds: in particular a greeter's  *)
(* call is the only one of its own, and the tools run before the present   *)
(* step stay in force until the record is published.                       *)
THEOREM InductiveHolds == Spec => []Inductive
  BY InitInductive, NextInductive, PTL DEF Spec

(* The types of service and greeter, with a job exactly while one of the   *)
(* steps of Apply is under way.                                            *)
THEOREM TypeOKHolds == Spec => []TypeOK
  <1>1. Inductive => TypeOK
    BY DEF Inductive
  <1>2. QED
    BY <1>1, InductiveHolds, PTL

(* The completion record says what was set up, whichever tools failed or   *)
(* died before, in this attempt or in another one.                         *)
THEOREM RecordImpliesAppliedHolds == Spec => []RecordImpliesApplied
  <1>1. Inductive => RecordImpliesApplied
    BY DEF Inductive
  <1>2. QED
    BY <1>1, InductiveHolds, PTL

(* The wizard reports success only for its own configuration, on record.   *)
THEOREM SetupReportedHolds == Spec => []SetupReported
  <1>1. Inductive => SetupReported
    BY DEF Inductive
  <1>2. QED
    BY <1>1, InductiveHolds, PTL

(* A prompt on the screen belongs to a conversation that is held.          *)
THEOREM PromptHasConversationHolds == Spec => []PromptHasConversation
  <1>1. Inductive => PromptHasConversation
    BY DEF Inductive, LoggingIn, PromptHasConversation
  <1>2. QED
    BY <1>1, InductiveHolds, PTL

(* The session that starts belongs to the user whose name was typed last.  *)
THEOREM StartedAsTypedHolds == Spec => []StartedAsTyped
  <1>1. Inductive => StartedAsTyped
    BY DEF Inductive
  <1>2. QED
    BY <1>1, InductiveHolds, PTL

(* A tool that runs finds no record, and chpasswd an account of its call.  *)
LEMMA ToolStep ==
    ASSUME Configured, MayTake
    PROVE  /\ record # None => UNCHANGED <<applied, account>>
           /\ \A a \in Accounts : account[a] # "ready" /\ account'[a] = "ready" => a \in made
  <1>1. CASE UNCHANGED machineVars
    BY <1>1 DEF machineVars
  <1>2. CASE step \in Tools /\ Takes(step)
    <2>1. record = None /\ job # None /\ (step = "chpasswd" => User \in made)
      BY <1>2, BeforeDomain DEF Configured, ServiceTypeOK, Setting, Tools, Settings
    <2>2. account \in [Accounts -> {"absent", "shipped", "bare", "ready"}]
      BY DEF Configured, ServiceTypeOK
    <2>3. QED
      BY <1>2, <2>1, <2>2 DEF Takes, Tools, Settings
  <1>3. QED
    BY <1>1, <1>2 DEF MayTake

(* What any step does to the machine and the record.                       *)
LEMMA NextMachine ==
    ASSUME Inductive, [Next]_vars
    PROVE  /\ MayTake \/ UNCHANGED <<applied, account>>
           /\ record # None => record' = record
  <1> Configured
    BY Parts
  <1>1. ASSUME UNCHANGED serviceVars PROVE MayTake /\ record' = record
    BY <1>1 DEF serviceVars, MayTake, machineVars
  <1>2. ASSUME Publish PROVE MayTake /\ record = None
    BY <1>2 DEF Publish, MayTake, Configured, Setting, Before
  <1>3. ASSUME RunTool PROVE MayTake /\ record' = record
    BY <1>3 DEF RunTool, MayTake
  <1>4. ASSUME NEW call \in calls, Begin(call) PROVE UNCHANGED <<applied, account, record>>
    BY <1>4 DEF Begin
  <1>5. ASSUME Service, ~Publish, ~RunTool, ~\E call \in calls : Begin(call)
        PROVE MayTake /\ record' = record
    BY <1>5 DEF Service, Serve, Activate, NotActivated, Refuse, ToolFails, CreateTemp, CreateFails,
       PublishFails, Reply, MayTake, machineVars
  <1>6. ASSUME Died PROVE MayTake /\ record' = record
    BY <1>6 DEF Died, Die
  <1>7. ASSUME NotSent \/ \E c \in Choices : Finish(c) PROVE MayTake /\ record' = record
    BY <1>7 DEF NotSent, Finish, MayTake
  <1>8. ASSUME \/ SetupStatus \/ SetupUnknown \/ Applied
               \/ \E u \in Accounts : SignIn(u) \/ SignInAgain(u)
               \/ Respond \/ StartSession \/ Break \/ Leave \/ Restart
        PROVE  UNCHANGED serviceVars
    BY <1>8 DEF SetupStatus, SetupUnknown, Applied, SignIn, SignInAgain, Respond, Post, StartSession,
       Break, Leave, Restart
  <1>9. QED
    BY <1>1, <1>2, <1>3, <1>4, <1>5, <1>6, <1>7, <1>8 DEF Next, vars, serviceVars

(* Setup is applied once: neither a tool nor a record follows the record.  *)
THEOREM SettledOnceHolds == Spec => SettledOnce
  <1>1. Inductive /\ [Next]_vars => [record # None => UNCHANGED <<record, applied, account>>]_serviceVars
    BY NextMachine, ToolStep, Parts
  <1>2. QED
    BY <1>1, InductiveHolds, PTL DEF Spec, SettledOnce

(* No password is set for an account the call did not create.              *)
THEOREM OwnAccountOnlyHolds == Spec => OwnAccountOnly
  <1>1. Inductive /\ [Next]_vars =>
            [\A a \in Accounts : account[a] # "ready" /\ account'[a] = "ready" => a \in made]_serviceVars
    BY NextMachine, ToolStep, Parts
  <1>2. QED
    BY <1>1, InductiveHolds, PTL DEF Spec, OwnAccountOnly
=============================================================================
