------------------------------ MODULE Compositor ------------------------------
(***************************************************************************)
(* The compositor (features/desktop/compositor): the windows of App with   *)
(* their workspaces, the two focuses, and the loop that draws them, in the *)
(* nested backend (main.rs) and in the native one (native.rs).  One thread *)
(* does everything: a turn of its loop handles what input, DRM and session *)
(* have to say, what the clients ask for, and draws.                       *)
(***************************************************************************)
EXTENDS Naturals, Sequences

CONSTANTS
    MaxWindow,        \* bound: windows that are ever mapped
    WORKSPACE_COUNT,
    MaxLocation,      \* bound: places of the pointer, on the diagonal of the stack
    Extent,           \* how many places a window covers
    StartsShell,      \* the compositor was told to start a shell
    None

ASSUME BoundAssumption ==
    /\ MaxWindow \in Nat \ {0} /\ WORKSPACE_COUNT \in Nat \ {0}
    /\ MaxLocation \in Nat /\ Extent \in Nat \ {0}
    /\ StartsShell \in BOOLEAN
    /\ None \notin Nat

Ids == 1..MaxWindow
Workspaces == 1..WORKSPACE_COUNT
Locations == 0..MaxLocation
Backends == {"nested", "drm"}

VARIABLES
    backend,           \* CompositorConfig.backend
    phase,             \* the part of the loop's turn: "events", "clients" or "ended"
    windows,           \* App.windows, the stack
    next_window_id, active_workspace, focused_window, render_requested,
    keyboard,          \* the seat's keyboard focus, which gets the keys
    location,          \* where the pointer is
    alive,             \* the windows whose client has not closed them
    content,           \* what a window's client committed: "none", "new" or "drawn"
    callback,          \* the windows that wait for a frame callback
    frame_queued,      \* NativeState.frame_queued
    pending,           \* the frame given to the device: "none", "flying" or "failed"
    device,            \* the DRM device: "active" or "paused"
    screen,            \* the windows of the last frame, at their places
    shell              \* the shell process: "none", "running", "exited" or "killed"

appVars == <<windows, next_window_id, active_workspace, focused_window, keyboard>>
clientVars == <<alive, content, callback>>
frameVars == <<frame_queued, pending, device, screen>>
vars == <<backend, phase, appVars, render_requested, location, clientVars, frameVars, shell>>

Window == [id : Ids, workspace : Workspaces]

(* What another session left on the screen.                                *)
Unknown == [id |-> 0, place |-> 0]
-----------------------------------------------------------------------------
(* The window list.                                                        *)

IdsOf(stack) == {stack[i].id : i \in DOMAIN stack}

(* Vec::retain and filter: what of a sequence is in a set, in its order.   *)
Kept(s, T) ==
    LET kept[n \in 0 .. Len(s)] ==
            IF n = 0 THEN <<>>
            ELSE IF s[n] \in T THEN Append(kept[n - 1], s[n]) ELSE kept[n - 1]
    IN  kept[Len(s)]

On(stack, ws) == Kept(stack, {w \in Window : w.workspace = ws})

Live(stack) == Kept(stack, {w \in Window : w.id \in alive})

Latest(stack) == IF stack = <<>> THEN None ELSE stack[Len(stack)].id

Pruned == Live(windows)

PrunedFocus == IF focused_window \in IdsOf(Pruned) THEN focused_window ELSE None

prune_windows == windows' = Pruned

VisibleWindows == On(Pruned, active_workspace)

(* The focused window, or the latest one, of a workspace.                  *)
SurfaceOf(stack, ws, focus) ==
    IF focus \in IdsOf(On(stack, ws)) THEN focus ELSE Latest(On(stack, ws))

FocusedSurface == SurfaceOf(Pruned, active_workspace, PrunedFocus)

(* Windows without a buffer are not drawn, but take their place.           *)
Drawn(stack) ==
    {[id |-> stack[i].id, place |-> i - 1] : i \in {j \in DOMAIN stack : content[stack[j].id] # "none"}}

(* The windows of the visible stack that cover a point.                    *)
Under(loc) == {w \in Drawn(VisibleWindows) : w.place <= loc /\ loc < w.place + Extent}

Topmost(hits) == (CHOOSE w \in hits : \A v \in hits : v.place <= w.place).id
-----------------------------------------------------------------------------
(* run_native draws the first frame before it enters its loop.             *)
Init ==
    /\ backend \in Backends
    /\ phase = "events"
    /\ windows = <<>> /\ next_window_id = 1 /\ active_workspace = 1
    /\ focused_window = None /\ keyboard = None
    /\ render_requested = FALSE
    /\ location = 0
    /\ alive = {} /\ content = [w \in Ids |-> "none"] /\ callback = {}
    /\ frame_queued = (backend = "drm")
    /\ pending = IF frame_queued THEN "flying" ELSE "none"
    /\ device = "active" /\ screen = {}
    /\ shell = IF StartsShell THEN "running" ELSE "none"
-----------------------------------------------------------------------------
(* Input.  The native backend asks for a frame after each input event, the *)
(* nested one draws all the time.  A suspended libinput has no events.     *)

(* Mutant: only what changes the windows asks for a frame.                 *)
InputWithoutFrame == render_requested

AfterInput == backend = "drm" \/ render_requested

Input ==
    /\ phase = "events" /\ device = "active"
    /\ UNCHANGED <<backend, phase, clientVars, frameVars, shell>>

(* Mutant: the focus of the former workspace is kept.                      *)
SwitchedFocusKept(ws) == focused_window

SwitchedFocus(ws) == Latest(On(windows, ws))

(* switch_workspace does not prune; focused_surface, which is asked for    *)
(* the window that gets the keys, does.                                    *)
SuperNumber(ws) ==
    /\ Input
    /\ active_workspace' = ws
    /\ prune_windows
    /\ LET focus == SwitchedFocus(ws)
           surface == SurfaceOf(Pruned, ws, focus)
       IN  /\ focused_window' = IF focus \in IdsOf(Pruned) THEN focus ELSE None
           /\ keyboard' = IF surface = None THEN keyboard ELSE surface
    /\ render_requested' = TRUE
    /\ UNCHANGED <<next_window_id, location>>

(* Mutant: the pointer only looks for what it points at.                   *)
MotionWithoutKeys(loc) ==
    /\ Input
    /\ location' = loc
    /\ prune_windows /\ focused_window' = PrunedFocus
    /\ render_requested' = AfterInput
    /\ UNCHANGED <<next_window_id, active_workspace, keyboard>>

(* dispatch_pointer_motion gives the keys to the focused window.           *)
PointerMotion(loc) ==
    /\ Input
    /\ location' = loc
    /\ prune_windows /\ focused_window' = PrunedFocus
    /\ keyboard' = IF FocusedSurface = None THEN keyboard ELSE FocusedSurface
    /\ render_requested' = AfterInput
    /\ UNCHANGED <<next_window_id, active_workspace>>

(* focus_window_at of a pressed button.                                    *)
ButtonPressed ==
    /\ Input
    /\ prune_windows
    /\ IF Under(location) = {}
       THEN focused_window' = PrunedFocus /\ UNCHANGED keyboard
       ELSE /\ focused_window' = Topmost(Under(location))
            /\ keyboard' = focused_window'
    /\ render_requested' = AfterInput
    /\ UNCHANGED <<next_window_id, active_workspace, location>>

(* Keys, released buttons and wheels are passed on.                        *)
OtherInput ==
    /\ Input
    /\ render_requested' = AfterInput
    /\ UNCHANGED <<appVars, location>>
-----------------------------------------------------------------------------
(* Clients.                                                                *)

Client ==
    /\ phase = "clients"
    /\ UNCHANGED <<backend, phase, location, frameVars, shell>>

(* new_toplevel and register_window.  The seat's focus stays where it is.  *)
NewToplevel ==
    /\ Client
    /\ next_window_id <= MaxWindow
    /\ windows' = Append(windows, [id |-> next_window_id, workspace |-> active_workspace])
    /\ next_window_id' = next_window_id + 1
    /\ focused_window' = next_window_id
    /\ alive' = alive \cup {next_window_id}
    /\ render_requested' = TRUE
    /\ UNCHANGED <<active_workspace, keyboard, content, callback>>

(* A commit, of a changed buffer or of nothing but a request for a frame   *)
(* callback.                                                               *)
Commit(w, damaged, asks) ==
    /\ Client
    /\ w \in alive
    /\ damaged \/ asks
    /\ content' = IF damaged THEN [content EXCEPT ![w] = "new"] ELSE content
    /\ callback' = IF asks THEN callback \cup {w} ELSE callback
    /\ render_requested' = TRUE
    /\ UNCHANGED <<appVars, alive>>

(* A client closes its window or goes away.  Nothing is told to App.       *)
CloseToplevel(w) ==
    /\ Client
    /\ w \in alive
    /\ alive' = alive \ {w}
    /\ callback' = callback \ {w}
    /\ UNCHANGED <<appVars, render_requested, content>>
-----------------------------------------------------------------------------
(* The DRM device and the session of the native backend.                   *)

Event ==
    /\ phase = "events" /\ backend = "drm"
    /\ UNCHANGED <<backend, phase, appVars, location, clientVars, screen, shell>>

(* frame_submitted may fail, which is only logged.                         *)
VBlank ==
    /\ Event
    /\ pending = "flying" /\ device = "active"
    /\ \/ pending' = "none" /\ frame_queued' = FALSE
       \/ pending' = "failed" /\ UNCHANGED frame_queued
    /\ UNCHANGED <<render_requested, device>>

(* Mutant: the frame that was queued is still waited for.                  *)
QueuedOverPause == frame_queued

QueuedAfterPause == FALSE

(* A frame in flight is lost.                                              *)
PauseSession ==
    /\ Event
    /\ device = "active"
    /\ device' = "paused"
    /\ pending' = "none"
    /\ frame_queued' = QueuedAfterPause
    /\ UNCHANGED render_requested

(* Reactivation may fail, which is only logged.                            *)
ActivateSession ==
    /\ phase = "events" /\ backend = "drm"
    /\ device = "paused"
    /\ device' \in {"active", "paused"}
    /\ screen' \in {screen, {Unknown}}
    /\ render_requested' = TRUE
    /\ UNCHANGED <<backend, phase, appVars, location, clientVars, frame_queued, pending, shell>>

(* The shell ends by itself.                                               *)
ShellExits ==
    /\ shell = "running"
    /\ shell' = "exited"
    /\ UNCHANGED <<backend, phase, appVars, render_requested, location, clientVars, frameVars>>
-----------------------------------------------------------------------------
(* The turn of the loop: input, clients and a frame if one is wanted in    *)
(* the native backend; input, a frame and clients in the nested one.       *)

(* Every way out of the loop drops App, with its clients, and ShellProcess, *)
(* which kills the shell.                                                  *)
End ==
    /\ phase' = "ended"
    /\ windows' = <<>> /\ focused_window' = None /\ keyboard' = None
    /\ alive' = {} /\ content' = [w \in Ids |-> "none"] /\ callback' = {}
    /\ shell' = IF shell = "running" THEN "killed" ELSE shell
    /\ UNCHANGED <<backend, next_window_id, active_workspace, render_requested, location,
                   frameVars>>

ShellGone ==
    /\ phase = IF backend = "drm" THEN "clients" ELSE "events"
    /\ shell = "exited"
    /\ End

(* The host's window of the nested backend is closed.                      *)
HostClosed == phase = "events" /\ backend = "nested" /\ End

(* Mutant: a callback is answered by the frame of the focused window.      *)
AnsweredFocused == callback \ {PrunedFocus}

(* Callbacks are sent to the toplevels of all workspaces.                  *)
Answered == {}

Draw ==
    /\ prune_windows /\ focused_window' = PrunedFocus
    /\ screen' = Drawn(VisibleWindows)
    /\ content' = [w \in Ids |-> IF w \in IdsOf(VisibleWindows) /\ content[w] = "new"
                                 THEN "drawn" ELSE content[w]]
    /\ UNCHANGED <<backend, next_window_id, active_workspace, keyboard, location,
                   alive, device, shell>>

DrawNested ==
    /\ backend = "nested" /\ phase = "events" /\ shell # "exited"
    /\ Draw
    /\ callback' = Answered
    /\ phase' = "clients"
    /\ UNCHANGED <<render_requested, frame_queued, pending>>

(* Windows that came, went or moved since the last frame, and those whose  *)
(* clients committed something new.                                        *)
Changed ==
    LET now == Drawn(VisibleWindows)
    IN  (screen \ now) \cup (now \ screen) \cup {w \in now : content[w.id] = "new"}

(* Smithay takes elements from front to back, so the first windows of the  *)
(* stack are in front; an opaque one may hide all that changed behind it.  *)
Covered(w, shown) == \E v \in shown : v.place < w.place

MayBeEmpty == \A w \in Changed : Covered(w, Drawn(VisibleWindows))

Wanted == ~frame_queued /\ render_requested

(* render_next_frame: an empty frame is neither queued nor announced.      *)
RenderNextFrame ==
    /\ backend = "drm" /\ phase = "clients" /\ shell # "exited"
    /\ Wanted /\ device = "active"
    /\ Draw
    /\ \/ /\ MayBeEmpty
          /\ UNCHANGED <<frame_queued, pending, callback>>
       \/ /\ Changed # {}
          /\ frame_queued' = TRUE /\ pending' = "flying" /\ callback' = Answered
    /\ render_requested' = FALSE
    /\ phase' = "events"

(* An error of the renderer ends the compositor; on a paused device there  *)
(* is nothing else.                                                        *)
RenderFails ==
    /\ shell # "exited"
    /\ \/ backend = "nested" /\ phase = "events"
       \/ backend = "drm" /\ phase = "clients" /\ Wanted
    /\ End

NextPhase(p) ==
    /\ phase' = p
    /\ UNCHANGED <<backend, appVars, render_requested, location, clientVars, frameVars, shell>>

EventsDone == phase = "events" /\ backend = "drm" /\ NextPhase("clients")

ClientsDone ==
    /\ phase = "clients"
    /\ backend = "drm" => ~Wanted /\ shell # "exited"
    /\ NextPhase("events")

Loop ==
    \/ EventsDone \/ ClientsDone
    \/ DrawNested \/ RenderNextFrame \/ RenderFails \/ ShellGone

Next ==
    \/ \E ws \in Workspaces : SuperNumber(ws)
    \/ \E loc \in Locations : PointerMotion(loc)
    \/ ButtonPressed \/ OtherInput
    \/ NewToplevel
    \/ \E w \in Ids, damaged, asks \in BOOLEAN : Commit(w, damaged, asks)
    \/ \E w \in Ids : CloseToplevel(w)
    \/ VBlank \/ PauseSession \/ ActivateSession
    \/ ShellExits \/ HostClosed
    \/ Loop

Spec == Init /\ [][Next]_vars

(* The thread runs, and an active device reports the frames it shows, in a *)
(* turn of the loop if it is active for one, hence strong fairness.        *)
(* Nothing is assumed of users, clients, session and shell.                *)
Fairness == WF_vars(Loop) /\ SF_vars(VBlank)

FairSpec == Spec /\ Fairness
-----------------------------------------------------------------------------
(* Properties.                                                             *)

TypeOK ==
    /\ backend \in Backends /\ phase \in {"events", "clients", "ended"}
    /\ windows \in Seq(Window) /\ next_window_id \in 1..MaxWindow + 1
    /\ active_workspace \in Workspaces
    /\ focused_window \in Ids \cup {None} /\ keyboard \in Ids \cup {None}
    /\ render_requested \in BOOLEAN /\ frame_queued \in BOOLEAN
    /\ location \in Locations
    /\ alive \in SUBSET Ids /\ callback \in SUBSET alive
    /\ content \in [Ids -> {"none", "new", "drawn"}]
    /\ device \in {"active", "paused"} /\ pending \in {"none", "flying", "failed"}
    /\ shell \in {"none", "running", "exited", "killed"}

(* Every type is as declared; the windows whose client still has them are  *)
(* on the list, in the order they came; and the window App calls focused   *)
(* is one of the workspace that is shown, however windows were closed and  *)
(* workspaces switched since it was clicked (switch_workspace takes it     *)
(* from a list with closed windows, prune_windows forgets it).             *)
Consistent ==
    /\ TypeOK
    /\ alive \subseteq IdsOf(windows)
    /\ \A i, j \in DOMAIN windows : i < j => windows[i].id < windows[j].id
    /\ focused_window # None =>
        focused_window \in IdsOf(On(windows, active_workspace))

(* While no frame is asked for, the native screen shows the visible stack  *)
(* and everything its clients committed; what is left of a closed window   *)
(* may stay, but is not drawn over by a stack that has forgotten it, as    *)
(* every handler that prunes has to ask for a frame.                       *)
ScreenCurrent ==
    backend = "drm" /\ ~render_requested /\ phase # "ended" =>
        /\ screen = Drawn(On(windows, active_workspace))
        /\ \A w \in IdsOf(VisibleWindows) : content[w] # "new"

KeysHidden ==
    keyboard \in alive /\ keyboard \notin IdsOf(On(windows, active_workspace))

(* Keys begin to reach a window that is not shown only when a workspace is *)
(* entered that has no open window, and a movement of the pointer ends it  *)
(* as soon as there is one.                                                *)
KeysFollowTheView ==
    [][/\ KeysHidden' => KeysHidden \/ VisibleWindows' = <<>>
       /\ location' # location => ~KeysHidden' \/ VisibleWindows' = <<>>]_vars

(* A frame could not be retired: frame_queued stays, and nothing is drawn  *)
(* before the session is paused.                                           *)
Stuck == pending = "failed"

(* A frame that was asked for is drawn, also when the session was paused   *)
(* while one was in flight, unless the compositor ends or a frame could    *)
(* not be retired (the VBlank handler of native.rs).                       *)
FramesGoOn == render_requested ~> (~render_requested \/ phase = "ended" \/ Stuck \/ backend = "nested")

InFront(w) ==
    LET now == Drawn(VisibleWindows)
    IN  \E v \in now : v.id = w /\ ~Covered(v, now)

(* A client that changed what the window in front shows and waits for the  *)
(* frame callback gets it, unless the window is closed or leaves the front *)
(* first.  (A change that other windows cover makes an empty frame.)       *)
ChangeAnswered ==
    \A w \in Ids :
        w \in callback /\ content[w] = "new" ~>
            \/ w \notin callback \/ ~InFront(w)
            \/ phase = "ended" \/ Stuck
=============================================================================
