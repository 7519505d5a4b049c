---------------------------- MODULE WorkspaceFiles ----------------------------
(***************************************************************************)
(* org.devcore.Workspace1: devcore-workd reads and replaces text files     *)
(* below the workspace of a registered environment, while the jobs it      *)
(* runs, Git and terminals change the same files, and while the service    *)
(* or the machine may stop between any two system calls.  The methods are  *)
(* synchronous and hold the lock of WorkState, so that one call is served  *)
(* at a time; `call' is that call, from the request to its answer.         *)
(***************************************************************************)
EXTENDS Naturals

CONSTANTS
    Paths,    \* normalized paths of the workspace
    Texts,    \* texts that are typed, and that jobs write
    Long,     \* those above MAX_WORKSPACE_TEXT_BYTES
    Half,     \* what a reader gets of a file a job is writing
    Empty,    \* the empty text
    Directory,  \* anything at a path that is not a regular file
    None

ASSUME LongAssumption == Long \subseteq Texts
ASSUME HalfAssumption == {Half, Empty} \cap Texts = {} /\ Half # Empty

VARIABLES
    files,        \* what is at each path
    registered,   \* WorkState.environments has the environment Studio names
    call          \* the call being served

filesVars == <<files, registered, call>>

AnyText == Texts \cup {Half, Empty}

(* What a path holds: nothing, something other than a regular file, or a   *)
(* file, with who wrote it last and whether its bytes have reached the     *)
(* disk ("whole"), only the page cache ("cached") or are incomplete.       *)
Regular == [text : AnyText, by : {"workd", "job"}, data : {"whole", "cached", "torn"}]

IsFile(p) == files[p] \in Regular

Written(t, data) == [text |-> t, by |-> "workd", data |-> data]
ByJob(t, data) == [text |-> t, by |-> "job", data |-> data]

Stages == {"received", "checked", "created", "written", "synced", "answered"}

Calls == [kind : {"Register", "ReadText", "WriteText"}, path : Paths,
          text : AnyText, at : Stages, ok : BOOLEAN]

ASSUME NoneAssumption == None \notin Calls \cup Regular /\ Directory \notin Regular

FilesTypeOK ==
    /\ files \in [Paths -> Regular \cup {None, Directory}]
    /\ registered \in BOOLEAN
    /\ call \in Calls \cup {None}

FilesInit ==
    /\ files \in [Paths -> {None} \cup {ByJob(t, "whole") : t \in Texts}]
    /\ registered = FALSE
    /\ call = None

Request(kind, p, t) ==
    call' = [kind |-> kind, path |-> p, text |-> t, at |-> "received", ok |-> FALSE]

(* The call goes on to a next stage, or ends with a result or an error.    *)
Serving(kind, stage) == call # None /\ call.kind = kind /\ call.at = stage
Goes(stage) == call' = [call EXCEPT !.at = stage]
Result(t) == call' = [call EXCEPT !.at = "answered", !.ok = TRUE, !.text = t]
Error == call' = [call EXCEPT !.at = "answered", !.ok = FALSE]
-----------------------------------------------------------------------------
(* Environment1.Define, for the one environment Studio names: a name that  *)
(* is in use is refused.                                                   *)
Define ==
    /\ Serving("Register", "received")
    /\ registered' = TRUE
    /\ IF registered THEN Error ELSE Result(call.text)
    /\ UNCHANGED files

Readable(p) == IsFile(p) /\ files[p].text \notin Long

(* read_workspace_file: the metadata is inspected first, the file is       *)
(* opened and read after it; the length is asked of both.  Each system     *)
(* call may fail.                                                          *)
InspectRead ==
    /\ Serving("ReadText", "received")
    /\ \/ registered /\ Readable(call.path) /\ Goes("checked")
       \/ Error
    /\ UNCHANGED <<files, registered>>

Read ==
    /\ Serving("ReadText", "checked")
    /\ \/ Readable(call.path) /\ Result(files[call.path].text)
       \/ Error
    /\ UNCHANGED <<files, registered>>

(* write_workspace_file: the length, the environment and what is at the    *)
(* path are examined; a temporary file is created beside it, written,      *)
(* synchronised and renamed to the path.  Each system call may fail; the   *)
(* temporary file is then removed.                                         *)
InspectWrite ==
    /\ Serving("WriteText", "received")
    /\ \/ call.text \notin Long /\ registered /\ files[call.path] # Directory /\ Goes("checked")
       \/ Error
    /\ UNCHANGED <<files, registered>>

Create ==
    /\ Serving("WriteText", "checked")
    /\ Goes("created") \/ Error
    /\ UNCHANGED <<files, registered>>

Write ==
    /\ Serving("WriteText", "created")
    /\ Goes("written") \/ Error
    /\ UNCHANGED <<files, registered>>

Sync ==
    /\ Serving("WriteText", "written")
    /\ Goes("synced") \/ Error
    /\ UNCHANGED <<files, registered>>

(* The name is given to what the temporary file holds.                     *)
Rename(stage, data) ==
    /\ Serving("WriteText", stage)
    /\ \/ /\ files[call.path] # Directory
          /\ files' = [files EXCEPT ![call.path] = Written(call.text, data)]
          /\ Result(call.text)
       \/ Error /\ UNCHANGED files
    /\ UNCHANGED registered

(* Mutant: the rename does not wait for the sync.                          *)
PublishUnsynced == Rename("written", "cached")

Publish == Rename("synced", "whole")

Serve ==
    \/ Define
    \/ InspectRead \/ Read
    \/ InspectWrite \/ Create \/ Write \/ Sync \/ Publish
-----------------------------------------------------------------------------
(* Jobs, Git and terminals.  A job that writes in place truncates the file *)
(* and fills it later; when the path was given to another file meanwhile,  *)
(* its bytes go to a file without a name.                                  *)
JobTruncates(p) ==
    /\ files[p] # Directory
    /\ files' = [files EXCEPT ![p] = ByJob(Half, "torn")]

JobFills(p, t) ==
    /\ files[p] = ByJob(Half, "torn")
    /\ files' = [files EXCEPT ![p] = ByJob(t, "whole")]

JobRemoves(p) ==
    /\ files[p] # None
    /\ files' = [files EXCEPT ![p] = None]

JobMakesDirectory(p) ==
    /\ files[p] = None
    /\ files' = [files EXCEPT ![p] = Directory]

JobChanges(p) ==
    /\ JobTruncates(p) \/ (\E t \in Texts : JobFills(p, t)) \/ JobRemoves(p) \/ JobMakesDirectory(p)
    /\ UNCHANGED <<registered, call>>

(* The service stops and the bus starts it again for the next call: its    *)
(* definitions are gone, and the caller gets an error, unless its answer   *)
(* was sent before.                                                        *)
WorkdStops ==
    /\ registered' = FALSE
    /\ \/ call = None /\ UNCHANGED call
       \/ call # None /\ Error
       \/ call # None /\ call.at = "answered" /\ UNCHANGED call
    /\ UNCHANGED files

(* Power is lost: what was only in the page cache may be incomplete.       *)
PowerLost ==
    /\ files' = [p \in Paths |->
         IF IsFile(p) /\ files[p].data = "cached" THEN [files[p] EXCEPT !.data = "torn"]
         ELSE files[p]]
    /\ registered' = FALSE
    /\ call' = None
=============================================================================
