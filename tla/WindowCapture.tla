---------------------------- MODULE WindowCapture ----------------------------
(***************************************************************************)
(* Recording a window on X11 (src/src/capture/xcomposite_vaapi.c,            *)
(* xcomposite_cuda.c, src/src/window_texture.c): one window, or the focused  *)
(* one.  The X server tells about windows by events, which are read at the   *)
(* beginning of each tick; the texture made of a window's pixmap has to be   *)
(* made again when the window has got another pixmap.                       *)
(*                                                                         *)
(* A request the program waits for is a step; what happens to the windows    *)
(* between two steps is left open.                                         *)
(***************************************************************************)
EXTENDS Naturals, Sequences

CONSTANTS
  Windows, None,  \* the windows, and Window None
  Target,         \* the window to record unless the focused one is followed
  Sizes,          \* sizes of windows, positive
  FirstSizes,     \* bound: those of the windows there are at the beginning
  Names,          \* names glGenTextures gives out, positive
  Variants,       \* captures considered: "vaapi", "cuda"
  FollowModes,    \* values of follow_focused considered
  MaxChanges      \* bound: changes on the screen

ASSUME WindowsAssumption == None \notin Windows /\ Target \in Windows
ASSUME NumbersAssumption ==
  /\ Sizes \subseteq Nat \ {0} /\ FirstSizes \subseteq Sizes
  /\ Names \subseteq Nat \ {0}
  /\ MaxChanges \in Nat
ASSUME NamesAssumption == \A a, b \in Names \cup {0} : Names \ {a, b} # {}
ASSUME ModesAssumption ==
  Variants \subseteq {"vaapi", "cuda"} /\ FollowModes \subseteq BOOLEAN

VARIABLES
  \* the X server
  alive, viewable, \* windows that exist, that are mapped
  size,            \* sizes of the windows
  focus,           \* _NET_ACTIVE_WINDOW
  selected,        \* windows whose events the program has selected
  rootSelected,    \* it has selected PropertyNotify of the root window
  redirects,       \* windows it has redirected
  events,          \* the events it has not read yet
  changes,         \* changes so far
  \* the program
  variant, follow_focused, \* fixed
  pc,
  window, window_size,
  window_resized,
  timeout,         \* a second has passed since window_resize_timer
  init_new_window,
  follow_focused_initialized,
  created_hw_frame,
  should_stop, stop_is_error,
  \* textures
  texWindow, texture_id, pixmap, redirected, \* struct WindowTexture
  live,            \* names of existing textures
  targets,         \* target_textures, target_texture_id
  converter,       \* the colour conversion is initialized (vaapi)
  \* history
  current,         \* the texture is made of the pixmap the window has now
  gaveUp,          \* the window was viewable when its texture was last tried and
                   \* could not be made, and has not changed since
  missed           \* the window was resized before its events were selected

screen == <<alive, viewable, size, focus, changes>>
server == <<selected, rootSelected, redirects, events>>
fixed  == <<variant, follow_focused>>
state  == <<window, window_size, window_resized, timeout, init_new_window,
            follow_focused_initialized, created_hw_frame, should_stop,
            stop_is_error>>
texture  == <<texWindow, texture_id, pixmap, redirected, current, gaveUp>>
gl       == <<live, targets, converter>>
vars == <<screen, server, fixed, pc, state, texture, gl, missed>>

Ended == {"stopped", "failed", "crashed"}
Stages == {"start", "select", "gpu", "tick", "focus", "texture", "resize",
           "frame", "loop"} \cup Ended

Anywhere == Windows \cup {None}

Events == [type : {"Destroy", "Expose", "Focus"}, window : Anywhere]
          \cup [type : {"Configure"}, window : Windows, size : Sizes]

\* The windows that matter
Watched == IF follow_focused THEN Windows ELSE {Target}

TypeOK ==
  /\ alive \subseteq Watched /\ viewable \subseteq alive
  /\ size \in [Watched -> Sizes]
  /\ focus \in Anywhere
  /\ selected \subseteq alive /\ rootSelected \in BOOLEAN
  /\ redirects \subseteq alive
  /\ events \in Seq(Events)
  /\ changes \in 0..MaxChanges
  /\ variant \in Variants /\ follow_focused \in FollowModes
  /\ pc \in Stages
  /\ window \in Anywhere /\ window_size \in Sizes \cup {0}
  /\ window_resized \in BOOLEAN /\ timeout \in BOOLEAN
  /\ init_new_window \in BOOLEAN /\ follow_focused_initialized \in BOOLEAN
  /\ created_hw_frame \in BOOLEAN
  /\ should_stop \in BOOLEAN /\ stop_is_error \in BOOLEAN
  /\ texWindow \in Anywhere /\ texture_id \in Names \cup {0}
  /\ pixmap \in BOOLEAN /\ redirected \in BOOLEAN
  /\ live \subseteq Names /\ targets \subseteq Names
  /\ converter \in BOOLEAN
  /\ pixmap => texture_id # 0
  /\ current \in BOOLEAN /\ gaveUp \in BOOLEAN /\ missed \in BOOLEAN

-----------------------------------------------------------------------------
(* The screen.  An event reaches the program if it has selected it.         *)

Notify(w, sent) == IF w \in selected THEN events \o sent ELSE events

Event(type, w) == [type |-> type, window |-> w]

\* The texture is no longer that of the window's pixmap.
Outdates(w) ==
  /\ current' = (current /\ w # texWindow)
  /\ gaveUp' = (gaveUp /\ w # texWindow)

Change ==
  /\ changes < MaxChanges
  /\ changes' = changes + 1
  /\ UNCHANGED <<fixed, pc, state, texWindow, texture_id, pixmap, redirected,
                 gl>>

\* A resized window may be exposed; it depends on its bit gravity.
Resize(w) ==
  /\ w \in alive
  /\ \E s \in Sizes \ {size[w]} :
       /\ size' = [size EXCEPT ![w] = s]
       /\ \E exposed \in IF w \in viewable
                         THEN {<<>>, <<Event("Expose", w)>>} ELSE {<<>>} :
            events' = Notify(w,
              <<[type |-> "Configure", window |-> w, size |-> s]>> \o exposed)
  /\ Outdates(w)
  /\ missed' = (missed \/ (pc = "select" /\ w = window))
  /\ Change
  /\ UNCHANGED <<alive, viewable, focus, selected, rootSelected, redirects>>

Unmap(w) ==
  /\ w \in viewable
  /\ viewable' = viewable \ {w}
  /\ Outdates(w)
  /\ Change
  /\ UNCHANGED <<alive, size, focus, server, missed>>

Map(w) ==
  /\ w \in alive \ viewable
  /\ viewable' = viewable \cup {w}
  /\ events' = Notify(w, <<Event("Expose", w)>>)
  /\ gaveUp' = (gaveUp /\ w # texWindow)
  /\ Change
  /\ UNCHANGED <<alive, size, focus, selected, rootSelected, redirects,
                 current, missed>>

Destroy(w) ==
  /\ w \in alive
  /\ alive' = alive \ {w} /\ viewable' = viewable \ {w}
  /\ selected' = selected \ {w} /\ redirects' = redirects \ {w}
  /\ events' = Notify(w, <<Event("Destroy", w)>>)
  /\ Outdates(w)
  /\ Change
  /\ UNCHANGED <<size, focus, rootSelected, missed>>

\* The window manager sets _NET_ACTIVE_WINDOW; without follow_focused nobody
\* looks at it.
Activate ==
  /\ follow_focused
  /\ \E w \in (alive \cup {None}) \ {focus} : focus' = w
  /\ events' = IF rootSelected THEN Append(events, Event("Focus", None))
                               ELSE events
  /\ Change
  /\ UNCHANGED <<alive, viewable, size, selected, rootSelected, redirects,
                 current, gaveUp, missed>>

Screen ==
  \/ \E w \in alive : Resize(w) \/ Unmap(w) \/ Map(w) \/ Destroy(w)
  \/ Activate

SecondPasses ==
  /\ ~timeout /\ pc \notin Ended
  /\ timeout' = TRUE
  /\ UNCHANGED <<screen, server, fixed, pc, window, window_size,
                 window_resized, init_new_window, follow_focused_initialized,
                 created_hw_frame, should_stop, stop_is_error, texture, gl,
                 missed>>

-----------------------------------------------------------------------------
(* window_texture.c *)

\* glGenTextures
NewName(used) == CHOOSE name \in Names \ used : TRUE

\* A texture is made only of a window that is viewable, and may not be then.
Outcome(made, w) ==
  /\ pixmap' = made /\ current' = made
  /\ made => w \in viewable
  /\ gaveUp' = (~made /\ w \in viewable)

\* The texture's name is made if there is none, and bound, which makes a
\* texture of a name that has been deleted.  Without a pixmap or a name nothing
\* is touched (results 2 and 3); without an image, or if it cannot be bound, the
\* texture is deleted but its name kept (4 and 5).
window_texture_on_resize(id) ==
  LET name == IF id = 0 THEN NewName(live) ELSE id
  IN \/ /\ Outcome(TRUE, texWindow)
        /\ texture_id' = name /\ live' = live \cup {name}
     \/ /\ Outcome(FALSE, texWindow)
        /\ texture_id' = id /\ live' \in {live, live \ {name}}

\* window_texture_deinit, if there was a texture, and up to the call of
\* window_texture_on_resize.  The X server has the Composite extension.
Redirect(w) ==
  LET left == IF redirected THEN redirects \ {texWindow} ELSE redirects
  IN /\ redirects' = left \cup ({w} \cap alive)
     /\ redirected' = TRUE
     /\ texWindow' = w

\* mutation: the pixmap is kept before it is known whether it can be used
InitKeepsPixmap(w) ==
  LET others == live \ {texture_id}
  IN /\ Redirect(w)
     /\ pixmap' = TRUE /\ current' = FALSE /\ gaveUp' = (w \in viewable)
     /\ texture_id' = 0 /\ live' = others

\* window_texture_deinit, if there was a texture, and window_texture_init
window_texture_init(w) ==
  LET others == live \ {texture_id}
  IN /\ Redirect(w)
     /\ \/ /\ Outcome(TRUE, w)
           /\ texture_id' = NewName(others)
           /\ live' = others \cup {NewName(others)}
        \/ Outcome(FALSE, w) /\ texture_id' = 0 /\ live' = others

-----------------------------------------------------------------------------
(* start *)

SizeOf(w) == IF w \in alive THEN size[w] ELSE 0

\* The window whose attributes, events and texture start uses: xcomposite_vaapi
\* takes params.window, which is None when the focused window is followed.
StartWindow(w) == IF follow_focused /\ variant = "vaapi" THEN None ELSE w

\* The attributes; anything the program needs of the server or of EGL may be
\* missing.  The attributes of None leave attr as it was, which xcomposite_vaapi
\* has not initialized.
StartAttributes ==
  /\ pc = "start"
  /\ window' = IF follow_focused THEN focus ELSE Target
  /\ LET w == StartWindow(window')
     IN /\ window_size' \in IF w = None /\ variant = "vaapi"
                              THEN Sizes \cup {0} ELSE {SizeOf(w)}
        /\ \/ pc' = "select" /\ (w \in alive \/ follow_focused)
           \/ pc' = "failed"
  /\ UNCHANGED <<screen, server, fixed, window_resized, timeout,
                 init_new_window, follow_focused_initialized,
                 created_hw_frame, should_stop, stop_is_error, texture, gl,
                 missed>>

\* mutation: that there is no texture is left to tick, for one window as well
StartWithoutTexture ==
  /\ pc = "select"
  /\ rootSelected' = follow_focused
  /\ selected' = {StartWindow(window)} \cap alive
  /\ window_texture_init(StartWindow(window))
  /\ pc' = "gpu"
  /\ UNCHANGED <<screen, events, fixed, state, targets, converter, missed>>

\* The events are selected and the texture made.
StartTexture ==
  /\ pc = "select"
  /\ rootSelected' = follow_focused
  /\ selected' = {StartWindow(window)} \cap alive
  /\ window_texture_init(StartWindow(window))
  /\ pc' = IF pixmap' \/ follow_focused THEN "gpu" ELSE "failed"
  /\ UNCHANGED <<screen, events, fixed, state, targets, converter, missed>>

\* stop
Clean ==
  /\ live' = (live \ {texture_id}) \ targets
  /\ targets' = {} /\ converter' = FALSE
  /\ redirects' = IF redirected THEN redirects \ {texWindow} ELSE redirects
  /\ redirected' = FALSE /\ texture_id' = 0 /\ pixmap' = FALSE
  /\ current' = FALSE /\ gaveUp' = FALSE
  /\ UNCHANGED texWindow

Failed ==
  /\ Clean
  /\ pc' = "failed"
  /\ UNCHANGED timeout

\* The encoder's contexts; xcomposite_cuda makes the texture it copies to here
\* and loads CUDA.
StartGpu ==
  /\ pc = "gpu"
  /\ \/ /\ pc' = "tick" /\ timeout' = FALSE
        /\ IF variant = "cuda"
             THEN targets' = {NewName(live)} /\ live' = live \cup targets'
             ELSE UNCHANGED <<targets, live>>
        /\ UNCHANGED <<redirects, texture, converter>>
     \/ Failed
  /\ UNCHANGED <<screen, selected, rootSelected, events, fixed, window,
                 window_size, window_resized, init_new_window,
                 follow_focused_initialized, created_hw_frame, should_stop,
                 stop_is_error, missed>>

-----------------------------------------------------------------------------
(* tick *)

\* mutation: the end of a focused window ends the recording as well
OnAnyDestroy(e) ==
  /\ e.type = "Destroy"
  /\ IF e.window = window
       THEN should_stop' = TRUE /\ stop_is_error' = FALSE
       ELSE UNCHANGED <<should_stop, stop_is_error>>
  /\ UNCHANGED <<timeout, window_resized, window_size, init_new_window>>

OnDestroy(e) ==
  /\ e.type = "Destroy"
  /\ IF ~follow_focused /\ e.window = window
       THEN should_stop' = TRUE /\ stop_is_error' = FALSE
       ELSE UNCHANGED <<should_stop, stop_is_error>>
  /\ UNCHANGED <<timeout, window_resized, window_size, init_new_window>>

OnExpose(e) ==
  /\ e.type = "Expose"
  /\ IF e.window = window
       THEN timeout' = FALSE /\ window_resized' = TRUE
       ELSE UNCHANGED <<timeout, window_resized>>
  /\ UNCHANGED <<should_stop, stop_is_error, window_size, init_new_window>>

OnConfigure(e) ==
  /\ e.type = "Configure"
  /\ IF e.window = window /\ e.size # window_size
       THEN window_size' = e.size /\ timeout' = FALSE /\ window_resized' = TRUE
       ELSE UNCHANGED <<timeout, window_resized, window_size>>
  /\ UNCHANGED <<should_stop, stop_is_error, init_new_window>>

OnProperty(e) ==
  /\ e.type = "Focus"
  /\ init_new_window' = follow_focused
  /\ UNCHANGED <<should_stop, stop_is_error, timeout, window_resized,
                 window_size>>

\* One round of the loop that reads the events
HandleEvent ==
  /\ pc = "tick" /\ events # <<>>
  /\ LET e == Head(events)
     IN OnDestroy(e) \/ OnExpose(e) \/ OnConfigure(e) \/ OnProperty(e)
  /\ events' = Tail(events)
  /\ UNCHANGED <<screen, selected, rootSelected, redirects, fixed, pc, window,
                 follow_focused_initialized, created_hw_frame, texture, gl,
                 missed>>

\* mutation: the first tick does not look at the focus unless it has changed
EventsReadFirstTickToo ==
  /\ pc = "tick" /\ events = <<>>
  /\ pc' = IF init_new_window THEN "focus" ELSE "resize"
  /\ UNCHANGED <<screen, server, fixed, state, texture, gl, missed>>

\* No event is left.
EventsRead ==
  /\ pc = "tick" /\ events = <<>>
  /\ pc' = IF follow_focused /\ (init_new_window \/ ~follow_focused_initialized)
             THEN "focus" ELSE "resize"
  /\ UNCHANGED <<screen, server, fixed, state, texture, gl, missed>>

\* The focused window; if it is another one its events are selected and its
\* attributes read.
ReadFocus ==
  /\ pc = "focus"
  /\ init_new_window' = FALSE
  /\ IF focus # window \/ ~follow_focused_initialized
       THEN /\ follow_focused_initialized' = TRUE
            /\ window' = focus
            /\ selected' = (selected \ {window}) \cup ({focus} \cap alive)
            /\ window_size' = SizeOf(focus)
            /\ window_resized' = TRUE
            /\ pc' = "texture"
       ELSE /\ pc' = "resize"
            /\ UNCHANGED <<follow_focused_initialized, window, selected,
                           window_size, window_resized>>
  /\ UNCHANGED <<screen, rootSelected, redirects, events, fixed, timeout,
                 created_hw_frame, should_stop, stop_is_error, texture, gl,
                 missed>>

\* Whether the texture can be made does not matter here.
MakeTexture ==
  /\ pc = "texture"
  /\ window_texture_init(window)
  /\ pc' = "resize"
  /\ UNCHANGED <<screen, selected, rootSelected, events, fixed, state, targets,
                 converter, missed>>

\* mutation: the first frame is set up although there is no texture
ResizeGoesOn ==
  /\ pc = "resize"
  /\ IF ~created_hw_frame \/ (window_resized /\ timeout)
       THEN /\ window_resized' = FALSE
            /\ window_texture_on_resize(texture_id)
            /\ pc' = IF created_hw_frame THEN "loop" ELSE "frame"
       ELSE /\ pc' = "loop"
            /\ UNCHANGED <<window_resized, pixmap, current, gaveUp, texture_id, live>>
  /\ UNCHANGED <<screen, server, fixed, window, window_size, timeout,
                 init_new_window, follow_focused_initialized,
                 created_hw_frame, should_stop, stop_is_error, texWindow,
                 redirected, targets, converter, missed>>

\* A resized or exposed window gets a new texture when it has been left alone for
\* a second.  A failure is not noted: the texture is tried again in the next tick
\* until the first one is made, then after the next event.
ResizeTexture ==
  /\ pc = "resize"
  /\ IF ~created_hw_frame \/ (window_resized /\ timeout)
       THEN /\ window_resized' = FALSE
            /\ window_texture_on_resize(texture_id)
            /\ pc' = IF pixmap' /\ ~created_hw_frame THEN "frame" ELSE "loop"
       ELSE /\ pc' = "loop"
            /\ UNCHANGED <<window_resized, pixmap, current, gaveUp, texture_id, live>>
  /\ UNCHANGED <<screen, server, fixed, window, window_size, timeout,
                 init_new_window, follow_focused_initialized,
                 created_hw_frame, should_stop, stop_is_error, texWindow,
                 redirected, targets, converter, missed>>

\* The planes of the encoder's surface as textures: two names, and an image each
TargetTextures ==
  \/ UNCHANGED <<targets, live>>
  \/ /\ variant = "vaapi"
     /\ LET y == NewName(live)
        IN targets' = {y, NewName(live \cup {y})}
     /\ live' = live \cup targets'

\* The encoder's frame, made once.  Any part of it may fail.
CreateFrame ==
  /\ pc = "frame"
  /\ created_hw_frame' = TRUE
  /\ TargetTextures
  /\ \/ /\ variant = "vaapi" => targets' # {}
        /\ converter' = (variant = "vaapi")
        /\ UNCHANGED <<should_stop, stop_is_error>>
     \/ should_stop' = TRUE /\ stop_is_error' = TRUE /\ UNCHANGED converter
  /\ pc' = "loop"
  /\ UNCHANGED <<screen, server, fixed, window, window_size, window_resized,
                 timeout, init_new_window, follow_focused_initialized,
                 texture, missed>>

-----------------------------------------------------------------------------
(* The loop of main around tick *)

\* gsr_capture_capture, if a frame is due.  xcomposite_vaapi draws with the colour
\* conversion; one that is not initialized has no egl to call.
Capture ==
  /\ pc = "loop" /\ ~should_stop
  /\ \/ pc' = IF variant = "vaapi" /\ ~converter THEN "crashed" ELSE "tick"
     \/ pc' = "tick"
  /\ UNCHANGED <<screen, server, fixed, state, texture, gl, missed>>

\* The loop is left because of should_stop, or by SIGINT; the capture is destroyed.
Stop ==
  /\ pc = "loop"
  /\ Clean
  /\ pc' = "stopped"
  /\ UNCHANGED <<screen, selected, rootSelected, events, fixed, state, missed>>

-----------------------------------------------------------------------------
Init ==
  /\ variant \in Variants /\ follow_focused \in FollowModes
  /\ alive \in SUBSET Watched /\ viewable \in SUBSET alive
  /\ size \in [Watched -> FirstSizes]
  /\ focus \in alive \cup {None} /\ (~follow_focused => focus = None)
  /\ selected = {} /\ rootSelected = FALSE /\ redirects = {}
  /\ events = <<>> /\ changes = 0
  /\ pc = "start"
  /\ window = None /\ window_size = 0
  /\ window_resized = FALSE /\ timeout = TRUE
  /\ init_new_window = FALSE /\ follow_focused_initialized = FALSE
  /\ created_hw_frame = FALSE
  /\ should_stop = FALSE /\ stop_is_error = FALSE
  /\ texWindow = None /\ texture_id = 0 /\ pixmap = FALSE
  /\ redirected = FALSE
  /\ live = {} /\ targets = {} /\ converter = FALSE
  /\ current = FALSE /\ gaveUp = FALSE /\ missed = FALSE

Tick == HandleEvent \/ EventsRead \/ ReadFocus \/ MakeTexture
        \/ ResizeTexture \/ CreateFrame

Program == StartAttributes \/ StartTexture \/ StartGpu \/ Tick \/ Capture \/ Stop

Next == Screen \/ SecondPasses \/ Program

Spec == Init /\ [][Next]_vars

\* The main thread does not block here, and time passes; the screen may stay as
\* it is.
FairSpec == Spec /\ WF_vars(Program) /\ WF_vars(SecondPasses)

-----------------------------------------------------------------------------
(* Properties *)

\* The textures the encoder reads from exist as long as the capture does and are
\* not the window's, although a failed window_texture_on_resize keeps the name of
\* a texture it has deleted; no other texture is left behind, and after stop
\* neither a texture nor a pixmap nor a redirection.
EncoderKeepsItsTextures ==
  /\ targets \subseteq live /\ texture_id \notin targets
  /\ live \subseteq targets \cup {texture_id}
  /\ pixmap => texture_id \in live
  /\ pc = "stopped" => live = {} /\ redirects = {} /\ ~pixmap

\* A recording ends by itself, without an error, only if its window is gone, and
\* never while it follows the focus.  xcomposite_vaapi is made to draw before it
\* can, and crashes, by a window without a pixmap at the beginning; once there
\* has been a texture nothing that happens to windows does that.
EndsForAReason ==
  /\ should_stop /\ ~stop_is_error => ~follow_focused /\ Target \notin alive
  /\ pc = "crashed" => variant = "vaapi" /\ ~created_hw_frame

FollowsWindow ==
  \/ current \/ texWindow \notin viewable
  \/ gaveUp \/ (missed /\ ~follow_focused)
FollowsFocus  == follow_focused => texWindow = focus /\ window = focus

\* When the screen no longer changes, the texture is that of the pixmap of the
\* window to record - the focused one, if that is followed - provided it has one
\* and the one try that follows its last change did not fail: a failed try is
\* repeated only when the window changes again, and then it always is.
\* Left out is a window that is resized after start has read its size and before
\* it has selected the events: resized back, it is not seen to change.
CatchesUp == <>[](pc \in Ended \/ (FollowsWindow /\ FollowsFocus))

\* A recording of one window ends when the window does.
DeathStops ==
  (pc \notin Ended /\ ~follow_focused /\ Target \notin alive) ~> (pc \in Ended)
=============================================================================
