-------------------------------- MODULE Shell --------------------------------
(***************************************************************************)
(* devcore-shell: one thread runs the interface and waits in every call it *)
(* makes.  Studio's editor loads and saves files through WorkspaceFiles.   *)
(* The dashboard shows snapshots of org.devcore.Resource1: the answers of  *)
(* its own Refresh calls, and the SnapshotChanged signals that another     *)
(* thread receives and posts to the event loop.                            *)
(***************************************************************************)
EXTENDS WorkspaceFiles, Sequences

CONSTANT MaxSnapshot   \* bound on the number of snapshots taken

VARIABLES
    (* Studio's editor: file-path, file-content and file-dirty.            *)
    path, content, dirty,
    (* History: what was loaded or published last, and whether the file    *)
    (* has been left alone since.                                          *)
    held,
    (* Snapshots of the machine, numbered as they are taken.               *)
    taken,
    (* The listener thread, and the signals in its connection; closures    *)
    (* that wait in the event loop; the Refresh call under way and its      *)
    (* answer.                                                             *)
    listener, signals, posted, refresh, answer,
    (* The snapshot shown, and (history) the last one announced to the     *)
    (* listener.                                                           *)
    shown, announced

editorVars == <<path, content, dirty, held>>
dashboardVars == <<listener, signals, posted, refresh, answer, shown, announced>>
vars == <<filesVars, editorVars, taken, dashboardVars>>

ASSUME SnapshotAssumption == MaxSnapshot \in Nat \ {0}

Init ==
    /\ FilesInit
    /\ path \in Paths
    /\ content = Empty
    /\ dirty = FALSE
    /\ held = None
    /\ taken = 1
    /\ listener = "starting"
    /\ signals = <<>>
    /\ posted = <<>>
    /\ refresh = "none"
    /\ answer = 0
    /\ shown = 0
    /\ announced = 0

(* The interface thread is not in a call.                                  *)
Idle == call = None /\ refresh = "none"
-----------------------------------------------------------------------------
(* The editor: the path and the text are typed; only text makes it dirty.  *)
TypePath(p) ==
    /\ Idle
    /\ path' = p
    /\ UNCHANGED <<filesVars, content, dirty, held, taken, dashboardVars>>

TypeText(t) ==
    /\ Idle
    /\ content' = t
    /\ dirty' = TRUE
    /\ UNCHANGED <<filesVars, path, held, taken, dashboardVars>>

(* handle_studio_action: Register, ReadFile and WriteFile are calls whose  *)
(* answer the thread waits for.                                            *)
Press(kind) ==
    /\ Idle
    /\ Request(kind, path, content)
    /\ UNCHANGED <<files, registered, editorVars, taken, dashboardVars>>

(* Mutant: a failed save is taken for a saved text.                        *)
ApplyAnyAnswer ==
    IF call.ok /\ call.kind = "ReadText"
      THEN /\ content' = call.text
           /\ dirty' = FALSE
      ELSE /\ dirty' = (dirty /\ call.kind # "WriteText")
           /\ UNCHANGED content

Apply ==
    IF call.ok /\ call.kind = "ReadText"
      THEN /\ content' = call.text
           /\ dirty' = FALSE
      ELSE /\ dirty' = (dirty /\ ~ (call.ok /\ call.kind = "WriteText"))
           /\ UNCHANGED content

Answered ==
    /\ call # None
    /\ call.at = "answered"
    /\ Apply
    /\ call' = None
    /\ held' = IF call.ok /\ call.kind = "ReadText"
                 THEN [path |-> call.path, text |-> call.text,
                       same |-> IsFile(call.path) /\ files[call.path].text = call.text]
                 ELSE held
    /\ UNCHANGED <<files, registered, path, taken, dashboardVars>>

(* A step of the service; when it publishes, that is what is held.         *)
ServeStep ==
    /\ Serve
    /\ held' = IF call.kind = "WriteText" /\ call'.ok
                 THEN [path |-> call.path, text |-> call.text, same |-> TRUE] ELSE held
    /\ UNCHANGED <<path, content, dirty, taken, dashboardVars>>

OtherStep ==
    /\ \/ \E p \in Paths :
            /\ JobChanges(p)
            /\ held' = IF held # None /\ held.path = p THEN [held EXCEPT !.same = FALSE] ELSE held
       \/ WorkdStops /\ UNCHANGED held
    /\ UNCHANGED <<path, content, dirty, taken, dashboardVars>>
-----------------------------------------------------------------------------
(* ResourceService::refresh: a snapshot is taken and announced, then the   *)
(* caller is answered.                                                     *)
Take ==
    /\ taken < MaxSnapshot
    /\ taken' = taken + 1

Announce(n) ==
    IF listener = "up"
      THEN signals' = Append(signals, n) /\ announced' = n
      ELSE UNCHANGED <<signals, announced>>

(* Any other client refreshes.                                             *)
OtherRefreshes ==
    /\ Take
    /\ Announce(taken + 1)
    /\ UNCHANGED <<filesVars, editorVars, listener, posted, refresh, answer, shown>>

(* The service is started again: it takes a snapshot and announces none.   *)
ServiceRestarts ==
    /\ Take
    /\ UNCHANGED <<filesVars, editorVars, dashboardVars>>

(* refresh_shell: the thread waits for the answer.                         *)
RefreshPressed ==
    /\ Idle
    /\ refresh' = "called"
    /\ UNCHANGED <<filesVars, editorVars, taken, listener, signals, posted, answer, shown, announced>>

RefreshServed ==
    /\ refresh = "called"
    /\ Take
    /\ Announce(taken + 1)
    /\ refresh' = "served"
    /\ answer' = taken + 1
    /\ UNCHANGED <<filesVars, editorVars, listener, posted, shown>>

(* collect_shell_snapshot: the answer is shown, or without an answer a     *)
(* snapshot the shell takes itself, or nothing.                            *)
ShowAnswer ==
    /\ refresh = "served"
    /\ shown' = answer
    /\ refresh' = "none"
    /\ answer' = 0
    /\ UNCHANGED <<filesVars, editorVars, taken, listener, signals, posted, announced>>

RefreshFails ==
    /\ refresh # "none"
    /\ refresh' = "none"
    /\ answer' = 0
    /\ \/ /\ taken < MaxSnapshot
          /\ taken' = taken + 1
          /\ shown' = taken + 1
       \/ UNCHANGED <<taken, shown>>
    /\ UNCHANGED <<filesVars, editorVars, listener, signals, posted, announced>>

(* spawn_resource_signal_listener: one failure and the thread is gone.     *)
ListenerStarts ==
    /\ listener = "starting"
    /\ listener' \in {"up", "gone"}
    /\ UNCHANGED <<filesVars, editorVars, taken, signals, posted, refresh, answer, shown, announced>>

Post ==
    /\ signals # <<>>
    /\ posted' = Append(posted, Head(signals))
    /\ signals' = Tail(signals)
    /\ UNCHANGED <<filesVars, editorVars, taken, listener, refresh, answer, shown, announced>>

(* Mutant: a signal is shown in the middle of a callback.                  *)
ShowSignalAtOnce ==
    /\ posted # <<>>
    /\ shown' = Head(posted)
    /\ posted' = Tail(posted)
    /\ UNCHANGED <<filesVars, editorVars, taken, listener, signals, refresh, answer, announced>>

(* The event loop runs a closure between two callbacks.                    *)
ShowSignal ==
    /\ Idle
    /\ posted # <<>>
    /\ shown' = Head(posted)
    /\ posted' = Tail(posted)
    /\ UNCHANGED <<filesVars, editorVars, taken, listener, signals, refresh, answer, announced>>
-----------------------------------------------------------------------------
(* After a loss of power the session is a new one.                         *)
SessionStarts ==
    /\ PowerLost
    /\ path' \in Paths
    /\ content' = Empty
    /\ dirty' = FALSE
    /\ held' = None
    /\ UNCHANGED taken
    /\ listener' = "starting"
    /\ signals' = <<>>
    /\ posted' = <<>>
    /\ refresh' = "none"
    /\ answer' = 0
    /\ shown' = 0
    /\ announced' = 0

Next ==
    \/ \E p \in Paths : TypePath(p)
    \/ \E t \in Texts : TypeText(t)
    \/ \E kind \in {"Register", "ReadText", "WriteText"} : Press(kind)
    \/ Answered \/ ServeStep \/ OtherStep
    \/ OtherRefreshes \/ ServiceRestarts
    \/ RefreshPressed \/ RefreshServed \/ ShowAnswer \/ RefreshFails
    \/ ListenerStarts \/ Post \/ ShowSignal
    \/ SessionStarts

Spec == Init /\ [][Next]_vars
-----------------------------------------------------------------------------
(* A text and where it is, and whether it is still there.                  *)
Holding == [path : Paths, text : AnyText, same : BOOLEAN]

ASSUME HoldingAssumption == None \notin Holding

TypeOK ==
    /\ FilesTypeOK
    /\ path \in Paths /\ content \in AnyText /\ dirty \in BOOLEAN
    /\ held \in Holding \cup {None}
    /\ taken \in 1 .. MaxSnapshot
    /\ listener \in {"starting", "up", "gone"}
    /\ signals \in Seq(1 .. MaxSnapshot) /\ posted \in Seq(1 .. MaxSnapshot)
    /\ refresh \in {"none", "called", "served"}
    /\ {answer, shown, announced} \subseteq 0 .. MaxSnapshot

(* Types; and whatever stops, and whenever it does, a path Studio saved to *)
(* last holds a whole text: saving replaces a file atomically.             *)
SavesAreWhole ==
    /\ TypeOK
    /\ \A p \in Paths : IsFile(p) /\ files[p].by = "workd" => files[p].data # "torn"

(* An editor without changes shows the text that was loaded or published   *)
(* last, and that text is in the file as long as nobody else touched it.   *)
CleanMatchesDisk ==
    call = None /\ ~ dirty /\ held # None =>
        /\ content = held.text
        /\ held.same => IsFile(held.path) /\ files[held.path].text = content

(* When no signal is on its way and the thread is free, the dashboard is   *)
(* not behind what the service announced to it, in whatever order answers  *)
(* and signals came.                                                       *)
DashboardIsCurrent ==
    Idle /\ signals = <<>> /\ posted = <<>> => shown >= announced
=============================================================================
