-------------------------------- MODULE Greeter --------------------------------
(***************************************************************************)
(* The greeter (features/onboarding/greeter, with the greetd client of     *)
(* features/desktop/session) composed with the first-boot service: it asks *)
(* whether setup is required, shows the setup wizard or goes on to the     *)
(* login, where each button press is one or two requests to greetd.  It    *)
(* may be killed and started again at any moment.                          *)
(***************************************************************************)
EXTENDS FirstBoot

VARIABLES
    gen,       \* the greeter process that runs, or ran last
    page,      \* what it shows
    busy,      \* FirstBootWindow.busy: a worker waits for Apply
    asked,     \* the configuration submitted last
    auth,      \* GreeterWindow.auth-visible
    typed,     \* the user name at the last press of "Sign in"
    session,   \* LoginController.session: whose conversation it holds
    conv,      \* greetd's side of that conversation
    started    \* the user whose session greetd started

loginVars == <<auth, typed, session, conv, started>>
vars == <<serviceVars, gen, page, busy, asked, loginVars>>

Init ==
    /\ ServiceInit
    /\ gen = 1 /\ page = "starting" /\ busy = FALSE /\ asked = None
    /\ auth = FALSE /\ typed = None /\ session = None /\ conv = "none"
    /\ started = None
-----------------------------------------------------------------------------
(* Setup.                                                                  *)

(* Status is answered when no Apply holds the lock.                        *)
SetupStatus ==
    /\ page = "starting"
    /\ pid # None /\ step = "idle"
    /\ page' = IF record = None THEN "wizard" ELSE "login"
    /\ UNCHANGED <<serviceVars, gen, busy, asked, loginVars>>

(* No bus, no activation, no answer: the greeter goes on to the login.     *)
SetupUnknown ==
    /\ page = "starting"
    /\ page' = "login"
    /\ UNCHANGED <<serviceVars, gen, busy, asked, loginVars>>

(* The last page of the wizard is confirmed with two equal passwords.      *)
Finish(c) ==
    /\ page = "wizard" /\ ~busy
    /\ busy' = TRUE
    /\ asked' = c
    /\ calls' = calls \cup {[by |-> gen, choice |-> c]}
    /\ answer' = [answer EXCEPT ![gen] = None]
    /\ UNCHANGED <<procVars, machineVars, record, temp, gen, page, loginVars>>

(* Mutant: the wizard stays busy after an error.                           *)
BusyAfterError == answer[gen] = "error"

BusyAfter == FALSE

(* The worker hands the result back to the event loop.                     *)
Applied ==
    /\ page = "wizard" /\ busy
    /\ answer[gen] # None
    /\ busy' = BusyAfter
    /\ page' = IF answer[gen] = "ok" THEN "login" ELSE "wizard"
    /\ UNCHANGED <<serviceVars, gen, asked, loginVars>>

(* The worker cannot reach the service at all.                             *)
NotSent ==
    /\ page = "wizard" /\ busy
    /\ \E call \in calls : call.by = gen
    /\ calls' = {call \in calls : call.by # gen}
    /\ answer' = [answer EXCEPT ![gen] = "error"]
    /\ UNCHANGED <<procVars, machineVars, record, temp, gen, page, busy, asked, loginVars>>
-----------------------------------------------------------------------------
(* Login.                                                                  *)

Show(s, c, a) == session' = s /\ conv' = c /\ auth' = a

(* apply_outcome of a failure goes back to the user name.                  *)
Failure(s, c) == Show(s, c, FALSE)

(* Mutant: an AuthMessage of kind Error is shown as a failure.             *)
PromptShown == {TRUE, FALSE}

Prompted == {TRUE}

(* process_reply of what greetd answers in the conversation of user u: a   *)
(* prompt, the end of the authentication, or an error that ends it.        *)
ProcessReply(u) ==
    \/ \E shown \in Prompted : Show(u, "asking", shown)
    \/ account[u] = "ready" /\ Show(u, "ready", auth)
    \/ Failure(None, "none")

(* submit without a session: connect and create_session.  When either      *)
(* fails no session is kept.                                               *)
SignIn(u) ==
    /\ page = "login" /\ ~auth /\ session = None
    /\ typed' = u
    /\ ProcessReply(u) \/ Failure(None, "none")
    /\ UNCHANGED <<serviceVars, gen, page, busy, asked, started>>

(* submit with a session posts the answer to it, whether the user answered *)
(* a prompt or typed a name.  A broken stream fails the request and stays. *)
Post ==
    /\ page = "login" /\ session # None /\ conv # "ready"
    /\ \/ conv = "asking" /\ ProcessReply(session)
       \/ conv = "none" /\ Failure(None, "none")
       \/ conv = "broken" /\ Failure(session, "broken")
    /\ UNCHANGED <<serviceVars, gen, page, busy, asked, started>>

Respond == auth /\ Post /\ UNCHANGED typed

SignInAgain(u) == ~auth /\ Post /\ typed' = u

(* start_session follows at once.                                          *)
StartSession ==
    /\ page = "login" /\ conv = "ready"
    /\ \/ /\ started' = session
          /\ page' = "gone"
          /\ Show(None, "none", FALSE)
       \/ /\ \E c \in {"none", "broken"} : Failure(session, c)
          /\ UNCHANGED <<page, started>>
    /\ UNCHANGED <<serviceVars, gen, busy, asked, typed>>

(* greetd ends or loses the conversation.                                  *)
Break ==
    /\ page = "login" /\ conv = "asking"
    /\ conv' = "broken"
    /\ UNCHANGED <<serviceVars, gen, page, busy, asked, auth, typed, session, started>>

(* Cancel, or the greeter is killed.                                       *)
Leave ==
    /\ page # "gone"
    /\ page' = "gone"
    /\ busy' = FALSE
    /\ Show(None, "none", FALSE)
    /\ UNCHANGED <<serviceVars, gen, asked, typed, started>>

(* greetd starts a greeter when there is none and no session.              *)
Restart ==
    /\ page = "gone" /\ gen < MaxGreeter
    /\ gen' = gen + 1
    /\ page' = "starting"
    /\ asked' = None /\ typed' = None /\ started' = None
    /\ UNCHANGED <<serviceVars, busy, auth, session, conv>>
-----------------------------------------------------------------------------
greeterVars == <<gen, page, busy, asked, loginVars>>

Service ==
    /\ \/ Serve
       \/ \E call \in calls : NotActivated(call)
       \/ /\ page = "starting" \/ calls # {}
          /\ \E p \in Pids : Activate(p)
    /\ UNCHANGED greeterVars

Died == Die /\ UNCHANGED greeterVars

Next ==
    \/ Service
    \/ Died
    \/ SetupStatus \/ SetupUnknown
    \/ \E c \in Choices : Finish(c)
    \/ Applied \/ NotSent
    \/ \E u \in Accounts : SignIn(u) \/ SignInAgain(u)
    \/ Respond \/ StartSession \/ Break
    \/ Leave \/ Restart

Spec == Init /\ [][Next]_vars

(* Calls are dispatched, tools return, and the worker's result reaches the *)
(* event loop.                                                             *)
FairSpec == Spec /\ WF_vars(Service) /\ WF_vars(Applied)
-----------------------------------------------------------------------------
TypeOK ==
    /\ ServiceTypeOK
    /\ gen \in Greeters
    /\ page \in {"starting", "wizard", "login", "gone"}
    /\ busy \in BOOLEAN /\ auth \in BOOLEAN
    /\ asked \in Choices \cup {None}
    /\ typed \in Accounts \cup {None}
    /\ session \in Accounts \cup {None} /\ started \in Accounts \cup {None}
    /\ conv \in {"none", "asking", "ready", "broken"}
    /\ conv # "none" => session # None

(* "Setup complete" is shown only when this greeter's configuration is the *)
(* one on record, although calls of other greeters may be under way.       *)
SetupReported == answer[gen] = "ok" => asked # None /\ record = asked

(* Whoever pressed Finish gets the wizard back or moves on to the login.   *)
FinishAnswered == busy ~> ~busy

(* A prompt is only shown for a conversation that is still held, so that   *)
(* an answer is never taken for the start of another one.                  *)
PromptHasConversation == auth => session # None

(* The session that starts is the one of the user whose name was typed     *)
(* last, although a conversation survives some failures.                   *)
StartedAsTyped == started # None => started = typed
(* The inductive invariant behind the theorems of Greeter_proofs: what the *)
(* tools before the present step have done stands; the record is published *)
(* last; an answer belongs to what its greeter submitted; and the screen,  *)
(* the session and the conversation fit together.                          *)
Before == [locale |-> {}, keymap |-> {"locale"}, timezone |-> {"locale", "keymap"},
           hostname |-> Settings \ {"hostname"}, useradd |-> Settings,
           chpasswd |-> Settings, create |-> Settings, publish |-> Settings]

Setting ==
    /\ step \in DOMAIN Before =>
          record = None /\ \A s \in Before[step] : applied[s] = job.choice
    /\ step = "chpasswd" => User \in made
    /\ step \in {"create", "publish"} => account[User] = "ready"
    /\ step = "reply" => record = job.choice

Asking ==
    /\ \A call \in calls \cup {job} : call # None =>
          /\ call.by <= gen
          /\ call.by = gen =>
                /\ call.choice = asked /\ answer[gen] = None
                /\ page = "gone" \/ (page = "wizard" /\ busy)
    /\ job \notin calls
    /\ \A g \in Greeters : g > gen => answer[g] = None

LoggingIn ==
    /\ conv = "asking" => auth
    /\ auth => session # None
    /\ conv \in {"asking", "ready"} => session = typed
    /\ page # "login" => session = None /\ conv = "none"
    /\ page # "gone" => started = None

Inductive ==
    /\ TypeOK /\ Setting /\ Asking /\ LoggingIn
    /\ RecordImpliesApplied /\ SetupReported /\ StartedAsTyped
=============================================================================
