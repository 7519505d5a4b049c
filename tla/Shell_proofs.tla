------------------------------ MODULE Shell_proofs ------------------------------
(***************************************************************************)
(* Theorems about Shell, for any paths, texts and number of snapshots.     *)
(***************************************************************************)
EXTENDS Shell, TLAPS

(* What the service published was synchronised before.                     *)
Synced == \A p \in Paths : IsFile(p) /\ files[p].by = "workd" => files[p].data = "whole"

(* What is held, the call that may publish it, and the file it is in.      *)
Editor ==
    /\ call # None => (call.ok => call.at = "answered")
    /\ call # None /\ call.kind = "WriteText" =>
        /\ call.text = content
        /\ call.ok => held # None /\ held.text = call.text
    /\ ~dirty /\ held # None => content = held.text
    /\ held # None /\ held.same =>
        IsFile(held.path) /\ files[held.path].text = held.text

(* Who announces is heard, and the last signal on its way is the last one  *)
(* announced, the signals in the connection being later than the posted    *)
(* ones.                                                                   *)
Dashboard ==
    /\ listener # "up" => announced = 0 /\ signals = <<>> /\ posted = <<>>
    /\ announced <= taken
    /\ signals # <<>> => signals[Len(signals)] = announced
    /\ signals = <<>> /\ posted # <<>> => posted[Len(posted)] = announced
    /\ signals = <<>> /\ posted = <<>> =>
        shown >= announced /\ (refresh = "served" => answer >= announced)

Inductive == TypeOK /\ Synced /\ Editor /\ Dashboard
-----------------------------------------------------------------------------
(***************************************************************************)
(* The files: what a step of the service or of a job makes of them.        *)
(***************************************************************************)

LEMMA CallFields ==
    ASSUME NEW c \in Calls
    PROVE  /\ c.kind \in {"Register", "ReadText", "WriteText"} /\ c.path \in Paths
           /\ c.text \in AnyText /\ c.at \in Stages /\ c.ok \in BOOLEAN
           /\ \A stage \in Stages : [c EXCEPT !.at = stage] \in Calls
           /\ \A text \in AnyText :
                [c EXCEPT !.at = "answered", !.ok = TRUE, !.text = text] \in Calls
           /\ [c EXCEPT !.at = "answered", !.ok = FALSE] \in Calls
           /\ c # None
  BY NoneAssumption DEF Calls, Stages

(* What becomes of a call that goes on, is answered or fails.              *)
LEMMA CallGoes ==
    ASSUME call \in Calls, NEW stage \in Stages, Goes(stage)
    PROVE  /\ call' \in Calls /\ call'.at = stage
           /\ call'.kind = call.kind /\ call'.path = call.path
           /\ call'.text = call.text /\ call'.ok = call.ok
  BY DEF Calls, Goes

LEMMA CallResult ==
    ASSUME call \in Calls, NEW text \in AnyText, Result(text)
    PROVE  /\ call' \in Calls /\ call'.at = "answered"
           /\ call'.kind = call.kind /\ call'.path = call.path
           /\ call'.text = text /\ call'.ok = TRUE
  BY DEF Calls, Result, Stages

LEMMA CallError ==
    ASSUME call \in Calls, Error
    PROVE  /\ call' \in Calls /\ call'.at = "answered"
           /\ call'.kind = call.kind /\ call'.path = call.path
           /\ call'.text = call.text /\ call'.ok = FALSE
  BY DEF Calls, Error, Stages

(* A step of the service publishes the text of a call, or leaves the files *)
(* alone; only an answer is good, and none is before.                      *)
LEMMA ServeFacts ==
    ASSUME FilesTypeOK, Serve
    PROVE  /\ call \in Calls /\ call' \in Calls /\ FilesTypeOK'
           /\ call.at # "answered"
           /\ call'.kind = call.kind /\ call'.path = call.path
           /\ call'.ok => call'.at = "answered" \/ call.ok
           /\ call.kind = "WriteText" => call'.text = call.text
           /\ \/ files' = files /\ (call'.ok => call.kind # "WriteText" \/ call.ok)
              \/ /\ call.kind = "WriteText" /\ call'.ok
                 /\ files' = [files EXCEPT ![call.path] = Written(call.text, "whole")]
  <1>1. call \in Calls
    BY DEF FilesTypeOK, Serve, Serving, Define, InspectRead, Read, InspectWrite, Create, Write,
           Sync, Publish, Rename
  <1>2. /\ call.path \in Paths /\ call.text \in AnyText /\ Stages # {}
        /\ \A s \in {"checked", "created", "written", "synced"} : s \in Stages
    BY <1>1, CallFields DEF Stages
  <1>3. CASE Define
    <2>1. Error \/ Result(call.text)
      BY <1>3 DEF Define
    <2>2. registered' \in BOOLEAN /\ files' = files /\ Serving("Register", "received")
      BY <1>3 DEF Define
    <2>3. QED
      BY <1>1, <1>2, <2>1, <2>2, CallError, CallResult DEF FilesTypeOK, Serving
  <1>4. CASE InspectRead
    <2>1. Error \/ Goes("checked")
      BY <1>4 DEF InspectRead
    <2>2. QED
      BY <1>1, <1>2, <1>4, <2>1, CallError, CallGoes DEF InspectRead, FilesTypeOK, Serving
  <1>5. CASE Read
    <2>1. Error \/ (IsFile(call.path) /\ Result(files[call.path].text))
      BY <1>5 DEF Read, Readable
    <2>2. IsFile(call.path) => files[call.path].text \in AnyText
      BY DEF IsFile, Regular
    <2>3. QED
      BY <1>1, <1>2, <1>5, <2>1, <2>2, CallError, CallResult DEF Read, FilesTypeOK, Serving
  <1>6. CASE InspectWrite \/ Create \/ Write \/ Sync
    <2>1. \/ Error
          \/ \E s \in {"checked", "created", "written", "synced"} : Goes(s)
      BY <1>6 DEF InspectWrite, Create, Write, Sync
    <2>2. UNCHANGED <<files, registered>> /\ call.at # "answered" /\ call.kind = "WriteText"
      BY <1>6 DEF InspectWrite, Create, Write, Sync, Serving
    <2>3. CASE Error
      BY <1>1, <2>2, <2>3, CallError DEF FilesTypeOK
    <2>4. ASSUME NEW s \in {"checked", "created", "written", "synced"}, Goes(s)
          PROVE  /\ call' \in Calls /\ call'.kind = call.kind /\ call'.path = call.path
                 /\ call'.text = call.text /\ call'.ok = call.ok
      BY <1>1, <1>2, <2>4, CallGoes
    <2>5. CASE \E s \in {"checked", "created", "written", "synced"} : Goes(s)
      BY <1>1, <2>2, <2>4, <2>5 DEF FilesTypeOK
    <2>6. QED
      BY <2>1, <2>3, <2>5
  <1>7. CASE Publish
    <2>1. /\ Serving("WriteText", "synced") /\ registered' = registered
          /\ \/ /\ files' = [files EXCEPT ![call.path] = Written(call.text, "whole")]
                /\ Result(call.text)
             \/ Error /\ UNCHANGED files
      BY <1>7 DEF Publish, Rename
    <2>2. Written(call.text, "whole") \in Regular
      BY <1>2 DEF Written, Regular
    <2>3. [files EXCEPT ![call.path] = Written(call.text, "whole")]
                \in [Paths -> Regular \cup {None, Directory}]
      BY <2>2 DEF FilesTypeOK
    <2>4. CASE Error /\ UNCHANGED files
      BY <1>1, <2>1, <2>4, CallError DEF FilesTypeOK, Serving
    <2>5. CASE /\ files' = [files EXCEPT ![call.path] = Written(call.text, "whole")]
               /\ Result(call.text)
      BY <1>1, <1>2, <2>1, <2>3, <2>5, CallResult DEF FilesTypeOK, Serving
    <2>6. QED
      BY <2>1, <2>4, <2>5
  <1>8. QED
    BY <1>3, <1>4, <1>5, <1>6, <1>7 DEF Serve

(* A job changes one path, and writes nothing in the service's name.       *)
LEMMA JobFacts ==
    ASSUME FilesTypeOK, NEW p \in Paths, JobChanges(p)
    PROVE  /\ FilesTypeOK' /\ UNCHANGED <<registered, call>>
           /\ \A q \in Paths : q # p => files'[q] = files[q]
           /\ files'[p] \in Regular => files'[p].by = "job"
  <1>1. PICK f \in {ByJob(Half, "torn"), None, Directory} \cup {ByJob(text, "whole") : text \in Texts} :
            files' = [files EXCEPT ![p] = f]
    BY DEF JobChanges, JobTruncates, JobFills, JobRemoves, JobMakesDirectory
  <1>2. f \in Regular \cup {None, Directory} /\ (f \in Regular => f.by = "job")
    BY <1>1, NoneAssumption DEF ByJob, Regular, AnyText
  <1>3. QED
    BY <1>1, <1>2 DEF FilesTypeOK, JobChanges
-----------------------------------------------------------------------------
(***************************************************************************)
(* The inductive invariant.                                                *)
(***************************************************************************)

LEMMA InductiveInit == Init => Inductive
  <1> SUFFICES ASSUME Init PROVE Inductive
    OBVIOUS
  <1> USE SnapshotAssumption
  <1>1. FilesTypeOK
    <2>1. {None} \cup {ByJob(text, "whole") : text \in Texts} \subseteq Regular \cup {None, Directory}
      BY DEF ByJob, Regular, AnyText
    <2>2. QED
      BY <2>1 DEF Init, FilesInit, FilesTypeOK
  <1>2. TypeOK
    <2>1. 1 \in 1 .. MaxSnapshot /\ <<>> \in Seq(1 .. MaxSnapshot) /\ {0} \subseteq 0 .. MaxSnapshot
      OBVIOUS
    <2>2. QED
      BY <1>1, <2>1 DEF Init, TypeOK, AnyText
  <1>3. Synced
    <2>1. \A p \in Paths : files[p] = None \/ files[p].data = "whole"
      BY DEF Init, FilesInit, ByJob
    <2>2. QED
      BY <2>1, NoneAssumption DEF Synced, IsFile
  <1>4. Editor
    BY DEF Init, FilesInit, Editor
  <1>5. Dashboard
    BY DEF Init, Dashboard
  <1>6. QED
    BY <1>2, <1>3, <1>4, <1>5 DEF Inductive

(* The dashboard's part of a step that is not about it.                    *)
LEMMA DashboardStays ==
    ASSUME Dashboard, UNCHANGED <<taken, dashboardVars>>
    PROVE  Dashboard'
  BY DEF Dashboard, dashboardVars

LEMMA FilesStay ==
    ASSUME Synced, Editor, FilesTypeOK, UNCHANGED <<filesVars, editorVars>>
    PROVE  Synced' /\ Editor' /\ FilesTypeOK'
  BY DEF Synced, Editor, FilesTypeOK, filesVars, editorVars, IsFile

LEMMA EditorInductive ==
    ASSUME Inductive,
           \/ \E p \in Paths : TypePath(p)
           \/ \E text \in Texts : TypeText(text)
           \/ \E kind \in {"Register", "ReadText", "WriteText"} : Press(kind)
           \/ Answered
    PROVE  Inductive'
  <1>1. TypeOK /\ FilesTypeOK /\ Synced /\ Editor /\ Dashboard
    BY DEF Inductive, TypeOK
  <1>2. Dashboard'
    BY <1>1, DashboardStays DEF TypePath, TypeText, Press, Answered
  <1>3. files' = files /\ registered' = registered
    BY DEF TypePath, TypeText, Press, Answered, filesVars
  <1>4. Synced'
    BY <1>1, <1>3 DEF Synced, IsFile
  <1>5. ASSUME NEW p \in Paths, TypePath(p) PROVE TypeOK' /\ Editor'
    <2>1. FilesTypeOK'
      BY <1>1, <1>5 DEF TypePath, filesVars, FilesTypeOK
    <2>2. QED
      BY <1>1, <1>5, <2>1 DEF TypePath, TypeOK, Editor, IsFile, filesVars, dashboardVars
  <1>6. ASSUME NEW text \in Texts, TypeText(text) PROVE TypeOK' /\ Editor'
    <2>1. FilesTypeOK'
      BY <1>1, <1>6 DEF TypeText, filesVars, FilesTypeOK
    <2>2. TypeOK'
      BY <1>1, <1>6, <2>1 DEF TypeText, TypeOK, AnyText, dashboardVars
    <2>3. Editor'
      BY <1>1, <1>6 DEF TypeText, Idle, Editor, IsFile, filesVars
    <2>4. QED
      BY <2>2, <2>3
  <1>7. ASSUME NEW kind \in {"Register", "ReadText", "WriteText"}, Press(kind)
        PROVE  TypeOK' /\ Editor'
    <2>1. /\ call' = [kind |-> kind, path |-> path, text |-> content, at |-> "received", ok |-> FALSE]
          /\ UNCHANGED <<editorVars, taken, dashboardVars>>
      BY <1>7 DEF Press, Request
    <2>2. call' \in Calls /\ call'.text = content /\ call'.ok = FALSE
      BY <1>1, <2>1 DEF Calls, Stages, TypeOK
    <2>3. TypeOK'
      BY <1>1, <1>3, <2>1, <2>2 DEF TypeOK, FilesTypeOK, editorVars, dashboardVars
    <2>4. Editor'
      BY <1>1, <1>3, <2>1, <2>2 DEF Editor, IsFile, editorVars
    <2>5. QED
      BY <2>3, <2>4
  <1>8. ASSUME Answered PROVE TypeOK' /\ Editor'
    <2>1. /\ call \in Calls /\ call' = None /\ UNCHANGED <<path, taken, dashboardVars>>
          /\ call.path \in Paths /\ call.text \in AnyText
      BY <1>1, <1>8, CallFields DEF Answered, FilesTypeOK
    <2> DEFINE loaded == call.ok /\ call.kind = "ReadText"
               new == [path |-> call.path, text |-> call.text,
                       same |-> IsFile(call.path) /\ files[call.path].text = call.text]
    <2>2. CASE loaded
      <3>1. content' = call.text /\ dirty' = FALSE /\ held' = new
        BY <1>8, <2>2 DEF Answered, Apply
      <3>2. /\ new \in Holding /\ new.path = call.path /\ new.text = call.text
            /\ new.same = (IsFile(call.path) /\ files[call.path].text = call.text)
        <4>1. (IsFile(call.path) /\ files[call.path].text = call.text) \in BOOLEAN
          OBVIOUS
        <4>2. QED
          BY <2>1, <4>1 DEF Holding
      <3> HIDE DEF new
      <3>3. TypeOK'
        BY <1>1, <1>3, <2>1, <3>1, <3>2 DEF TypeOK, FilesTypeOK, dashboardVars
      <3>4. Editor'
        BY <1>3, <2>1, <3>1, <3>2 DEF Editor, IsFile
      <3>5. QED
        BY <3>3, <3>4
    <2>3. CASE ~loaded
      <3>1. /\ content' = content /\ held' = held
            /\ dirty' = (dirty /\ ~ (call.ok /\ call.kind = "WriteText"))
        BY <1>8, <2>3 DEF Answered, Apply
      <3>2. TypeOK'
        BY <1>1, <1>3, <2>1, <3>1 DEF TypeOK, FilesTypeOK, dashboardVars
      <3>3. ~dirty' /\ held # None => content = held.text
        <4>1. CASE call.ok /\ call.kind = "WriteText"
          BY <1>1, <1>8, <4>1 DEF Editor, Answered
        <4>2. CASE ~(call.ok /\ call.kind = "WriteText")
          BY <1>1, <3>1, <4>2 DEF Editor
        <4>3. QED
          BY <4>1, <4>2
      <3>4. Editor'
        BY <1>1, <1>3, <2>1, <3>1, <3>3 DEF Editor, IsFile
      <3>5. QED
        BY <3>2, <3>4
    <2>4. QED
      BY <2>2, <2>3
  <1>9. TypeOK' /\ Editor'
    BY <1>5, <1>6, <1>7, <1>8
  <1>10. QED
    BY <1>2, <1>4, <1>9 DEF Inductive

(* A save is held when it is published; nothing else of the service's step *)
(* concerns the editor.                                                    *)
LEMMA ServeInductive ==
    ASSUME Inductive, ServeStep
    PROVE  Inductive'
  <1>1. TypeOK /\ FilesTypeOK /\ Synced /\ Editor /\ Dashboard
    BY DEF Inductive, TypeOK
  <1>2. /\ Serve /\ UNCHANGED <<path, content, dirty, taken, dashboardVars>>
        /\ held' = IF call.kind = "WriteText" /\ call'.ok
                   THEN [path |-> call.path, text |-> call.text, same |-> TRUE] ELSE held
    BY DEF ServeStep
  <1>3. Dashboard'
    BY <1>1, <1>2, DashboardStays
  <1>4. /\ call \in Calls /\ call' \in Calls /\ FilesTypeOK'
        /\ call.at # "answered"
        /\ call'.kind = call.kind /\ call'.path = call.path
        /\ call'.ok => call'.at = "answered" \/ call.ok
        /\ call.kind = "WriteText" => call'.text = call.text
        /\ \/ files' = files /\ (call'.ok => call.kind # "WriteText" \/ call.ok)
           \/ /\ call.kind = "WriteText" /\ call'.ok
              /\ files' = [files EXCEPT ![call.path] = Written(call.text, "whole")]
    BY <1>1, <1>2, ServeFacts
  <1>5. call # None /\ call' # None /\ ~call.ok /\ call.path \in Paths /\ call.text \in AnyText
    BY <1>1, <1>4, CallFields DEF Editor
  <1> DEFINE new == [path |-> call.path, text |-> call.text, same |-> TRUE]
  <1>6. new \in Holding /\ new.path = call.path /\ new.text = call.text /\ new # None
    <2>1. new \in Holding /\ new.path = call.path /\ new.text = call.text
      BY <1>5 DEF Holding
    <2>2. QED
      BY <2>1, HoldingAssumption
  <1>7. held' = IF call.kind = "WriteText" /\ call'.ok THEN new ELSE held
    BY <1>2
  <1> HIDE DEF new
  <1>8. TypeOK'
    BY <1>1, <1>2, <1>4, <1>6, <1>7 DEF TypeOK, dashboardVars
  <1>9. CASE files' = files /\ (call'.ok => call.kind # "WriteText" \/ call.ok)
    <2>1. held' = held /\ (call.kind = "WriteText" => ~call'.ok)
      BY <1>5, <1>7, <1>9
    <2>2. Synced'
      BY <1>1, <1>9 DEF Synced, IsFile
    <2>3. Editor'
      BY <1>1, <1>2, <1>4, <1>5, <1>9, <2>1 DEF Editor, IsFile
    <2>4. QED
      BY <1>3, <1>8, <2>2, <2>3 DEF Inductive
  <1>10. CASE /\ call.kind = "WriteText" /\ call'.ok
              /\ files' = [files EXCEPT ![call.path] = Written(call.text, "whole")]
    <2> DEFINE file == Written(call.text, "whole")
    <2>1. file \in Regular /\ file.text = call.text /\ file.data = "whole"
      BY <1>5 DEF Written, Regular
    <2>2. /\ files'[call.path] = file
          /\ \A q \in Paths : q # call.path => files'[q] = files[q]
      BY <1>1, <1>5, <1>10 DEF FilesTypeOK
    <2> HIDE DEF file
    <2>3. Synced'
      BY <1>1, <2>1, <2>2 DEF Synced, IsFile
    <2>4. IsFile(call.path)' /\ files'[call.path].text = call.text
      BY <1>4, <2>1, <2>2 DEF IsFile
    <2>5. call.text = content
      BY <1>1, <1>5, <1>10 DEF Editor
    <2>6. held' = new
      BY <1>7, <1>10
    <2>7. held' # None /\ held'.text = call.text /\ held'.path = call.path
      BY <1>6, <2>6
    <2>8. IsFile(held.path)' /\ files'[held'.path].text = held'.text
      BY <2>1, <2>2, <2>7 DEF IsFile
    <2>9. call'.at = "answered" /\ call'.text = call.text
      BY <1>4, <1>5, <1>10
    <2>10. Editor'
      BY <1>2, <2>5, <2>7, <2>8, <2>9 DEF Editor
    <2>11. QED
      BY <1>3, <1>8, <2>3, <2>10 DEF Inductive
  <1>11. QED
    BY <1>4, <1>9, <1>10

LEMMA OtherInductive ==
    ASSUME Inductive, OtherStep
    PROVE  Inductive'
  <1>1. TypeOK /\ FilesTypeOK /\ Synced /\ Editor /\ Dashboard
    BY DEF Inductive, TypeOK
  <1>2. UNCHANGED <<path, content, dirty, taken, dashboardVars>>
    BY DEF OtherStep
  <1>3. Dashboard'
    BY <1>1, <1>2, DashboardStays
  <1>4. ASSUME NEW p \in Paths, JobChanges(p),
               held' = IF held # None /\ held.path = p THEN [held EXCEPT !.same = FALSE] ELSE held
        PROVE  Inductive'
    <2>1. /\ FilesTypeOK' /\ UNCHANGED <<registered, call>>
          /\ \A q \in Paths : q # p => files'[q] = files[q]
          /\ files'[p] \in Regular => files'[p].by = "job"
      BY <1>1, <1>4, JobFacts
    <2>2. held # None => held \in Holding /\ held.path \in Paths /\ held.text \in AnyText
      BY <1>1 DEF TypeOK, Holding
    <2>3. Synced'
      BY <1>1, <2>1 DEF Synced, IsFile
    <2>4. CASE held # None /\ held.path = p
      <3>1. /\ held' \in Holding /\ held'.text = held.text /\ held'.same = FALSE
        BY <1>4, <2>2, <2>4 DEF Holding
      <3>2. held' # None
        BY <3>1, HoldingAssumption
      <3>3. TypeOK'
        BY <1>1, <1>2, <2>1, <3>1 DEF TypeOK, dashboardVars
      <3>4. Editor'
        BY <1>1, <1>2, <2>1, <2>4, <3>1, <3>2 DEF Editor
      <3>5. QED
        BY <1>3, <2>3, <3>3, <3>4 DEF Inductive
    <2>5. CASE ~(held # None /\ held.path = p)
      <3>1. held' = held
        BY <1>4, <2>5
      <3>2. TypeOK'
        BY <1>1, <1>2, <2>1, <3>1 DEF TypeOK, dashboardVars
      <3>3. Editor'
        BY <1>1, <1>2, <2>1, <2>2, <2>5, <3>1 DEF Editor, IsFile
      <3>4. QED
        BY <1>3, <2>3, <3>2, <3>3 DEF Inductive
    <2>6. QED
      BY <2>4, <2>5
  <1>5. ASSUME WorkdStops, UNCHANGED held PROVE Inductive'
    <2>1. /\ files' = files /\ registered' = FALSE
          /\ call' = call \/ (call # None /\ Error)
      BY <1>5 DEF WorkdStops
    <2>2. CASE call' = call
      <3>1. TypeOK' /\ Synced' /\ Editor'
        BY <1>1, <1>2, <1>5, <2>1, <2>2
           DEF TypeOK, FilesTypeOK, Synced, Editor, IsFile, dashboardVars
      <3>2. QED
        BY <1>3, <3>1 DEF Inductive
    <2>3. CASE call # None /\ Error
      <3>1. /\ call \in Calls /\ call' \in Calls /\ call'.kind = call.kind
            /\ call'.text = call.text /\ call'.ok = FALSE
        BY <1>1, <2>3, CallError DEF FilesTypeOK
      <3>2. TypeOK'
        BY <1>1, <1>2, <1>5, <2>1, <3>1 DEF TypeOK, FilesTypeOK, dashboardVars
      <3>3. Synced'
        BY <1>1, <2>1 DEF Synced, IsFile
      <3>4. Editor'
        BY <1>1, <1>2, <1>5, <2>1, <2>3, <3>1 DEF Editor, IsFile
      <3>5. QED
        BY <1>3, <3>2, <3>3, <3>4 DEF Inductive
    <2>4. QED
      BY <2>1, <2>2, <2>3
  <1>6. QED
    BY <1>4, <1>5 DEF OtherStep

LEMMA SessionInductive ==
    ASSUME Inductive, SessionStarts
    PROVE  Inductive'
  <1>1. TypeOK /\ FilesTypeOK /\ Synced
    BY DEF Inductive, TypeOK
  <1>2. /\ files' = [p \in Paths |->
                IF IsFile(p) /\ files[p].data = "cached" THEN [files[p] EXCEPT !.data = "torn"]
                ELSE files[p]]
        /\ registered' = FALSE /\ call' = None
    BY DEF SessionStarts, PowerLost
  <1>3. ASSUME NEW p \in Paths
        PROVE  /\ files'[p] \in Regular \cup {None, Directory}
               /\ files'[p] = files[p] \/
                    (files[p] \in Regular /\ files[p].data = "cached" /\ files'[p].by = files[p].by)
    BY <1>1, <1>2 DEF FilesTypeOK, IsFile, Regular
  <1>4. FilesTypeOK'
    BY <1>2, <1>3 DEF FilesTypeOK
  <1>5. Synced'
    <2>1. SUFFICES ASSUME NEW p \in Paths, IsFile(p)', files'[p].by = "workd"
                   PROVE  files'[p].data = "whole"
      BY DEF Synced
    <2>2. CASE files'[p] = files[p]
      BY <1>1, <2>1, <2>2 DEF Synced, IsFile
    <2>3. CASE files[p] \in Regular /\ files[p].data = "cached" /\ files'[p].by = files[p].by
      BY <1>1, <2>1, <2>3 DEF Synced, IsFile
    <2>4. QED
      BY <1>3, <2>2, <2>3
  <1>6. TypeOK'
    <2>1. <<>> \in Seq(1 .. MaxSnapshot) /\ 0 \in 0 .. MaxSnapshot
      BY SnapshotAssumption
    <2>2. QED
      BY <1>1, <1>4, <2>1 DEF SessionStarts, TypeOK, AnyText
  <1>7. Editor'
    BY <1>2 DEF SessionStarts, Editor
  <1>8. Dashboard'
    BY <1>1 DEF SessionStarts, Dashboard, TypeOK
  <1>9. QED
    BY <1>5, <1>6, <1>7, <1>8 DEF Inductive
-----------------------------------------------------------------------------
(***************************************************************************)
(* The dashboard.                                                          *)
(***************************************************************************)

LEMMA AppendFacts ==
    ASSUME NEW S, NEW s \in Seq(S), NEW x \in S
    PROVE  LET r == Append(s, x) IN
           r \in Seq(S) /\ r # <<>> /\ r[Len(r)] = x
  OBVIOUS

LEMMA TailFacts ==
    ASSUME NEW S, NEW s \in Seq(S), s # <<>>
    PROVE  /\ Head(s) \in S /\ Tail(s) \in Seq(S)
           /\ Tail(s) = <<>> => Head(s) = s[Len(s)]
           /\ Tail(s) # <<>> => Tail(s)[Len(Tail(s))] = s[Len(s)]
  <1>1. Len(s) \in Nat \ {0} /\ Head(s) = s[1] /\ Len(Tail(s)) = Len(s) - 1 /\ Tail(s) \in Seq(S)
        /\ Head(s) \in S /\ \A i \in 1 .. Len(s) - 1 : Tail(s)[i] = s[i + 1]
    OBVIOUS
  <1>2. ASSUME Tail(s) = <<>> PROVE Head(s) = s[Len(s)]
    <2>1. Len(<<>>) = 0
      OBVIOUS
    <2>2. Len(Tail(s)) = Len(<<>>)
      BY <1>2, Zenon
    <2>3. Len(s) - 1 = 0
      BY <1>1, <2>1, <2>2, Zenon
    <2>4. Len(s) \in Nat
      BY <1>1
    <2>5. Len(s) = 1
      BY <2>3, <2>4
    <2>6. QED
      BY <1>1, <2>5, Zenon
  <1>3. ASSUME Tail(s) # <<>> PROVE Tail(s)[Len(Tail(s))] = s[Len(s)]
    <2>1. Len(Tail(s)) # 0
      BY <1>1, <1>3
    <2>2. Len(s) - 1 \in 1 .. Len(s) - 1 /\ (Len(s) - 1) + 1 = Len(s)
      BY <1>1, <2>1
    <2>3. QED
      BY <1>1, <2>2
  <1>4. QED
    BY <1>1, <1>2, <1>3

(* A snapshot that is taken is announced to a listener, if there is one.   *)
LEMMA AnnounceFacts ==
    ASSUME TypeOK, Dashboard, Take, Announce(taken + 1), UNCHANGED <<listener, posted>>
    PROVE  /\ taken' = taken + 1 /\ taken' \in 1 .. MaxSnapshot
           /\ signals' \in Seq(1 .. MaxSnapshot) /\ announced' \in 0 .. MaxSnapshot
           /\ announced' <= taken'
           /\ listener = "up" => signals' # <<>>
           /\ signals' # <<>> => signals'[Len(signals')] = announced'
           /\ listener # "up" => announced' = 0 /\ signals' = <<>> /\ posted' = <<>>
  <1>1. taken' = taken + 1 /\ taken' \in 1 .. MaxSnapshot
    BY SnapshotAssumption DEF Take, TypeOK
  <1>2. CASE listener = "up"
    <2>1. signals' = Append(signals, taken') /\ announced' = taken'
      BY <1>1, <1>2 DEF Announce
    <2>2. signals' \in Seq(1 .. MaxSnapshot) /\ signals' # <<>> /\ signals'[Len(signals')] = taken'
      BY <1>1, <2>1, AppendFacts DEF TypeOK
    <2>3. QED
      BY <1>1, <1>2, <2>1, <2>2, SnapshotAssumption
  <1>3. CASE listener # "up"
    BY <1>1, <1>3 DEF Announce, TypeOK, Dashboard
  <1>4. QED
    BY <1>2, <1>3

LEMMA DashboardInductive ==
    ASSUME Inductive,
           \/ OtherRefreshes \/ ServiceRestarts
           \/ RefreshPressed \/ RefreshServed \/ ShowAnswer \/ RefreshFails
           \/ ListenerStarts \/ Post \/ ShowSignal
    PROVE  Inductive'
  <1>1. TypeOK /\ FilesTypeOK /\ Synced /\ Editor /\ Dashboard
    BY DEF Inductive, TypeOK
  <1>2. UNCHANGED <<filesVars, editorVars>>
    BY DEF OtherRefreshes, ServiceRestarts, RefreshPressed, RefreshServed, ShowAnswer, RefreshFails,
           ListenerStarts, Post, ShowSignal
  <1>3. Synced' /\ Editor' /\ FilesTypeOK'
    BY <1>1, <1>2, FilesStay
  <1>4. ASSUME taken' \in 1 .. MaxSnapshot, listener' \in {"starting", "up", "gone"},
               signals' \in Seq(1 .. MaxSnapshot), posted' \in Seq(1 .. MaxSnapshot),
               refresh' \in {"none", "called", "served"},
               {answer', shown', announced'} \subseteq 0 .. MaxSnapshot,
               Dashboard'
        PROVE  Inductive'
    <2>1. TypeOK'
      BY <1>1, <1>2, <1>3, <1>4 DEF TypeOK, editorVars
    <2>2. QED
      BY <1>3, <1>4, <2>1 DEF Inductive
  <1>5. /\ taken \in 1 .. MaxSnapshot /\ {answer, shown, announced} \subseteq 0 .. MaxSnapshot
        /\ taken \in Nat /\ MaxSnapshot \in Nat
        /\ answer \in Nat /\ shown \in Nat /\ announced \in Nat
    BY <1>1, SnapshotAssumption DEF TypeOK
  <1>6. CASE OtherRefreshes
    <2>1. /\ Take /\ Announce(taken + 1)
          /\ UNCHANGED <<listener, posted, refresh, answer, shown>>
      BY <1>6 DEF OtherRefreshes
    <2>2. /\ taken' = taken + 1 /\ taken' \in 1 .. MaxSnapshot
          /\ signals' \in Seq(1 .. MaxSnapshot) /\ announced' \in 0 .. MaxSnapshot
          /\ announced' <= taken'
          /\ listener = "up" => signals' # <<>>
          /\ signals' # <<>> => signals'[Len(signals')] = announced'
          /\ listener # "up" => announced' = 0 /\ signals' = <<>> /\ posted' = <<>>
      BY <1>1, <2>1, AnnounceFacts
    <2>3. Dashboard'
      BY <1>5, <2>1, <2>2 DEF Dashboard
    <2>4. QED
      BY <1>1, <1>4, <2>1, <2>2, <2>3 DEF TypeOK
  <1>7. CASE ServiceRestarts
    <2>1. taken' = taken + 1 /\ taken' \in 1 .. MaxSnapshot /\ UNCHANGED dashboardVars
      BY <1>5, <1>7 DEF ServiceRestarts, Take
    <2>2. Dashboard'
      BY <1>1, <1>5, <2>1 DEF Dashboard, dashboardVars
    <2>3. QED
      BY <1>1, <1>4, <2>1, <2>2 DEF TypeOK, dashboardVars
  <1>8. CASE RefreshPressed \/ ListenerStarts
    <2>1. Dashboard'
      BY <1>1, <1>5, <1>8 DEF RefreshPressed, ListenerStarts, Dashboard
    <2>2. QED
      BY <1>1, <1>4, <1>8, <2>1 DEF RefreshPressed, ListenerStarts, TypeOK
  <1>9. CASE RefreshServed
    <2>1. /\ Take /\ Announce(taken + 1) /\ refresh' = "served" /\ answer' = taken + 1
          /\ UNCHANGED <<listener, posted, shown>>
      BY <1>9 DEF RefreshServed
    <2>2. /\ taken' = taken + 1 /\ taken' \in 1 .. MaxSnapshot
          /\ signals' \in Seq(1 .. MaxSnapshot) /\ announced' \in 0 .. MaxSnapshot
          /\ announced' <= taken'
          /\ listener = "up" => signals' # <<>>
          /\ signals' # <<>> => signals'[Len(signals')] = announced'
          /\ listener # "up" => announced' = 0 /\ signals' = <<>> /\ posted' = <<>>
      BY <1>1, <2>1, AnnounceFacts
    <2>3. Dashboard'
      BY <1>5, <2>1, <2>2 DEF Dashboard
    <2>4. QED
      BY <1>1, <1>4, <1>5, <2>1, <2>2, <2>3 DEF TypeOK
  <1>10. CASE ShowAnswer
    <2>1. Dashboard'
      BY <1>1, <1>5, <1>10 DEF ShowAnswer, Dashboard
    <2>2. QED
      BY <1>1, <1>4, <1>5, <1>10, <2>1 DEF ShowAnswer, TypeOK
  <1>11. CASE RefreshFails
    <2>1. /\ refresh' = "none" /\ answer' = 0 /\ UNCHANGED <<listener, signals, posted, announced>>
          /\ \/ taken' = taken + 1 /\ taken < MaxSnapshot /\ shown' = taken + 1
             \/ UNCHANGED <<taken, shown>>
      BY <1>11 DEF RefreshFails
    <2>2. taken' \in 1 .. MaxSnapshot /\ shown' \in 0 .. MaxSnapshot /\ 0 \in 0 .. MaxSnapshot
      BY <1>5, <2>1
    <2>3. Dashboard'
      BY <1>1, <1>5, <2>1 DEF Dashboard
    <2>4. QED
      BY <1>1, <1>4, <2>1, <2>2, <2>3 DEF TypeOK
  <1>12. CASE Post
    <2>1. /\ signals # <<>> /\ posted' = Append(posted, Head(signals)) /\ signals' = Tail(signals)
          /\ UNCHANGED <<taken, listener, refresh, answer, shown, announced>>
      BY <1>12 DEF Post
    <2>2. /\ Head(signals) \in 1 .. MaxSnapshot /\ signals' \in Seq(1 .. MaxSnapshot)
          /\ signals' = <<>> => Head(signals) = signals[Len(signals)]
          /\ signals' # <<>> => signals'[Len(signals')] = signals[Len(signals)]
      BY <1>1, <2>1, TailFacts DEF TypeOK
    <2>3. /\ posted' \in Seq(1 .. MaxSnapshot) /\ posted' # <<>>
          /\ posted'[Len(posted')] = Head(signals)
      <3>1. posted \in Seq(1 .. MaxSnapshot)
        BY <1>1 DEF TypeOK
      <3> DEFINE r == Append(posted, Head(signals))
      <3>2. /\ r \in Seq(1 .. MaxSnapshot) /\ r # <<>> /\ r[Len(r)] = Head(signals)
        BY <2>2, <3>1, AppendFacts
      <3> HIDE DEF r
      <3>3. posted' = r
        BY <2>1 DEF r
      <3>4. QED
        BY <3>2, <3>3
    <2>4. Dashboard'
      BY <1>1, <2>1, <2>2, <2>3 DEF Dashboard
    <2>5. QED
      BY <1>1, <1>4, <2>1, <2>2, <2>3, <2>4 DEF TypeOK
  <1>13. CASE ShowSignal
    <2>1. /\ posted # <<>> /\ shown' = Head(posted) /\ posted' = Tail(posted) /\ refresh = "none"
          /\ UNCHANGED <<taken, listener, signals, refresh, answer, announced>>
      BY <1>13 DEF ShowSignal, Idle
    <2>2. /\ Head(posted) \in 1 .. MaxSnapshot /\ posted' \in Seq(1 .. MaxSnapshot)
          /\ posted' = <<>> => Head(posted) = posted[Len(posted)]
          /\ posted' # <<>> => posted'[Len(posted')] = posted[Len(posted)]
      BY <1>1, <2>1, TailFacts DEF TypeOK
    <2>3. Dashboard'
      BY <1>1, <1>5, <2>1, <2>2 DEF Dashboard
    <2>4. QED
      BY <1>1, <1>4, <1>5, <2>1, <2>2, <2>3 DEF TypeOK
  <1>14. QED
    BY <1>6, <1>7, <1>8, <1>9, <1>10, <1>11, <1>12, <1>13
-----------------------------------------------------------------------------
LEMMA InductiveNext == Inductive /\ [Next]_vars => Inductive'
  <1> SUFFICES ASSUME Inductive, [Next]_vars PROVE Inductive'
    OBVIOUS
  <1>1. ASSUME UNCHANGED vars PROVE Inductive'
    <2>1. TypeOK /\ FilesTypeOK /\ Synced /\ Editor /\ Dashboard
      BY DEF Inductive, TypeOK
    <2>2. /\ UNCHANGED <<filesVars, editorVars>> /\ UNCHANGED <<taken, dashboardVars>>
      BY <1>1 DEF vars
    <2>3. Synced' /\ Editor' /\ FilesTypeOK' /\ Dashboard'
      BY <2>1, <2>2, FilesStay, DashboardStays
    <2>4. TypeOK'
      BY <2>1, <2>2, <2>3 DEF TypeOK, editorVars, dashboardVars
    <2>5. QED
      BY <2>3, <2>4 DEF Inductive
  <1>2. QED
    BY <1>1, EditorInductive, ServeInductive, OtherInductive, DashboardInductive, SessionInductive
       DEF Next

LEMMA InductiveHolds == Spec => []Inductive
  BY InductiveInit, InductiveNext, PTL DEF Spec

(* A path that was saved to last holds the whole text, whatever stops the  *)
(* service or the machine, and whenever (write_workspace_file: sync_all    *)
(* before the rename).                                                     *)
THEOREM SavesHold == Spec => []SavesAreWhole
  <1>1. Inductive => SavesAreWhole
    BY DEF Inductive, Synced, SavesAreWhole
  <1>2. QED
    BY <1>1, InductiveHolds, PTL

(* A clean editor shows what was loaded or published last, and that is in  *)
(* the file unless somebody else touched it (handle_studio_action and      *)
(* write_workspace_file), however a save fails and the service restarts.   *)
THEOREM CleanHolds == Spec => []CleanMatchesDisk
  <1>1. Inductive => CleanMatchesDisk
    BY DEF Inductive, Editor, CleanMatchesDisk
  <1>2. QED
    BY <1>1, InductiveHolds, PTL

(* With nothing on its way the dashboard is not behind what was announced, *)
(* in whatever order answers and signals came (refresh_shell and           *)
(* spawn_resource_signal_listener).                                        *)
THEOREM DashboardHolds == Spec => []DashboardIsCurrent
  <1>1. Inductive => DashboardIsCurrent
    BY DEF Inductive, Dashboard, DashboardIsCurrent, Idle
  <1>2. QED
    BY <1>1, InductiveHolds, PTL
=============================================================================
