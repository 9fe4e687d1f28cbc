------------------------- MODULE WindowCaptureProofs -------------------------
(***************************************************************************)
(* What holds of WindowCapture for every set of windows, sizes and names.    *)
(***************************************************************************)
EXTENDS WindowCapture, SequenceTheorems, TLAPS

-----------------------------------------------------------------------------
(* The inductive invariant *)

\* The textures.  A name is never given out twice because whoever asks for one
\* knows that the window's texture, if it has a name, exists: a texture that
\* was deleted by a failed window_texture_on_resize has none made beside it.
TexturesInv ==
  /\ targets \subseteq live /\ texture_id \notin targets
  /\ live \subseteq targets \cup {texture_id}
  /\ pixmap => texture_id \in live
  /\ \E a, b \in Names : targets \subseteq {a, b}
  /\ variant = "vaapi" /\ ~created_hw_frame => targets = {}
  /\ pc \in {"start", "select", "gpu"} => targets = {}
  /\ pc = "frame" => pixmap /\ ~created_hw_frame
  /\ pc = "gpu" => texture_id = 0 \/ pixmap

\* At most the window of the texture is redirected.
RedirectInv ==
  /\ redirects \subseteq (IF redirected THEN {texWindow} ELSE {})
  /\ pc = "stopped" => live = {} /\ redirects = {} /\ ~pixmap

\* Only the end of a window makes a Destroy event, and only a frame that could not
\* be made leaves the colour conversion without its textures.
StopInv ==
  /\ EndsForAReason
  /\ \A i \in DOMAIN events :
       events[i].type = "Destroy" => events[i].window \in Windows \ alive
  /\ ~follow_focused => window \in {None, Target}
  /\ pc = "focus" => follow_focused
  /\ pc \in Ended \/ should_stop \/ ~created_hw_frame \/ variant = "cuda"
     \/ converter

Inv == TypeOK /\ TexturesInv /\ RedirectInv /\ StopInv

\* The parts of TypeOK
ServerTypes ==
  /\ alive \subseteq Watched /\ viewable \subseteq alive
  /\ size \in [Watched -> Sizes]
  /\ focus \in Anywhere
  /\ selected \subseteq alive /\ rootSelected \in BOOLEAN
  /\ redirects \subseteq alive
  /\ events \in Seq(Events)
  /\ changes \in 0..MaxChanges
  /\ missed \in BOOLEAN

StateTypes ==
  /\ variant \in Variants /\ follow_focused \in FollowModes
  /\ pc \in Stages
  /\ window \in Anywhere /\ window_size \in Sizes \cup {0}
  /\ window_resized \in BOOLEAN /\ timeout \in BOOLEAN
  /\ init_new_window \in BOOLEAN /\ follow_focused_initialized \in BOOLEAN
  /\ created_hw_frame \in BOOLEAN
  /\ should_stop \in BOOLEAN /\ stop_is_error \in BOOLEAN

TextureTypes ==
  /\ texWindow \in Anywhere /\ texture_id \in Names \cup {0}
  /\ pixmap \in BOOLEAN /\ redirected \in BOOLEAN
  /\ live \subseteq Names /\ targets \subseteq Names
  /\ converter \in BOOLEAN
  /\ pixmap => texture_id # 0
  /\ current \in BOOLEAN /\ gaveUp \in BOOLEAN

LEMMA TypeParts == TypeOK <=> ServerTypes /\ StateTypes /\ TextureTypes
  BY DEF TypeOK, ServerTypes, StateTypes, TextureTypes

-----------------------------------------------------------------------------
(* Names and textures *)

LEMMA TwoNamesLeaveOne ==
  ASSUME NEW a, NEW b
  PROVE  Names \ {a, b} # {}
  BY NamesAssumption

LEMMA NewNameIsNew ==
  ASSUME NEW used, NEW a, NEW b, used \subseteq {a, b}
  PROVE  NewName(used) \in Names \ used
  <1>1. Names \ used # {}
    BY TwoNamesLeaveOne
  <1> QED
    BY <1>1 DEF NewName

\* What window_texture_init leaves of the texture, whatever it finds.
TextureLeft ==
  /\ texWindow' \in Anywhere /\ texture_id' \in Names \cup {0}
  /\ pixmap' \in BOOLEAN /\ redirected' \in BOOLEAN
  /\ current' \in BOOLEAN /\ gaveUp' \in BOOLEAN
  /\ live' \subseteq Names
  /\ targets \subseteq live' /\ texture_id' \notin targets
  /\ live' \subseteq targets \cup {texture_id'}
  /\ pixmap' => texture_id' \in live' /\ texture_id' # 0

LEMMA OutcomeTypes ==
  ASSUME NEW made \in BOOLEAN, NEW w, Outcome(made, w)
  PROVE  /\ pixmap' = made /\ current' = made
         /\ current' \in BOOLEAN /\ gaveUp' \in BOOLEAN
  <1>1. (~made /\ w \in viewable) \in BOOLEAN
    OBVIOUS
  <1> QED
    BY <1>1, Zenon DEF Outcome

LEMMA InitLeavesTexture ==
  ASSUME Inv, NEW w \in Anywhere, window_texture_init(w)
  PROVE  /\ TextureLeft
         /\ redirects' \subseteq alive /\ redirects' \subseteq {texWindow'}
         /\ redirected' = TRUE
         /\ texture_id' = 0 \/ pixmap'
  <1> DEFINE others == live \ {texture_id}
  <1>1. PICK a \in Names, b \in Names : targets \subseteq {a, b}
    BY DEF Inv, TexturesInv
  <1>2. others \subseteq targets /\ targets \subseteq others
    BY DEF Inv, TexturesInv
  <1>3. NewName(others) \in Names \ others
    BY <1>1, <1>2, NewNameIsNew
  <1>4. 0 \notin Names
    BY NumbersAssumption
  <1>5. /\ redirects' = (IF redirected THEN redirects \ {texWindow} ELSE redirects)
                          \cup ({w} \cap alive)
        /\ redirected' = TRUE /\ texWindow' = w
    BY Zenon DEF window_texture_init, Redirect
  <1>6. \/ /\ Outcome(TRUE, w) /\ texture_id' = NewName(others)
           /\ live' = others \cup {NewName(others)}
        \/ Outcome(FALSE, w) /\ texture_id' = 0 /\ live' = others
    BY Zenon DEF window_texture_init
  <1>7. live \subseteq Names /\ targets \subseteq Names
    BY DEF Inv, TypeOK
  <1>8. TextureLeft /\ (texture_id' = 0 \/ pixmap')
    <2>1. CASE /\ Outcome(TRUE, w) /\ texture_id' = NewName(others)
               /\ live' = others \cup {NewName(others)}
      <3>1. pixmap' = TRUE /\ current' \in BOOLEAN /\ gaveUp' \in BOOLEAN
        BY <2>1, OutcomeTypes
      <3> QED
        BY <1>2, <1>3, <1>4, <1>5, <1>7, <2>1, <3>1 DEF TextureLeft
    <2>2. CASE Outcome(FALSE, w) /\ texture_id' = 0 /\ live' = others
      <3>1. pixmap' = FALSE /\ current' \in BOOLEAN /\ gaveUp' \in BOOLEAN
        BY <2>2, OutcomeTypes
      <3> QED
        BY <1>2, <1>4, <1>5, <1>7, <2>2, <3>1 DEF TextureLeft
    <2> QED
      BY <1>6, <2>1, <2>2
  <1>9. redirects' \subseteq alive /\ redirects' \subseteq {texWindow'}
    BY <1>5 DEF Inv, TypeOK, RedirectInv
  <1> QED
    BY <1>5, <1>8, <1>9

LEMMA ResizeLeavesTexture ==
  ASSUME Inv, window_texture_on_resize(texture_id),
         UNCHANGED <<texWindow, redirected>>
  PROVE  TextureLeft
  <1> DEFINE name == IF texture_id = 0 THEN NewName(live) ELSE texture_id
  <1>1. PICK a \in Names, b \in Names : targets \subseteq {a, b}
    BY DEF Inv, TexturesInv
  <1>2. 0 \notin Names
    BY NumbersAssumption
  <1>3. live \subseteq Names /\ targets \subseteq Names
        /\ texture_id \in Names \cup {0}
    BY DEF Inv, TypeOK
  <1>4. name \in Names /\ name \notin targets /\ (texture_id # 0 => name = texture_id)
    <2>1. CASE texture_id = 0
      <3>1. live \subseteq {a, b} /\ targets \subseteq live
        BY <1>1, <1>2, <1>3, <2>1 DEF Inv, TexturesInv
      <3>2. NewName(live) \in Names \ live
        BY <3>1, NewNameIsNew
      <3> QED
        BY <2>1, <3>1, <3>2
    <2>2. CASE texture_id # 0
      BY <1>3, <2>2 DEF Inv, TexturesInv
    <2> QED
      BY <2>1, <2>2
  <1>5. \/ /\ Outcome(TRUE, texWindow) /\ texture_id' = name
           /\ live' = live \cup {name}
        \/ /\ Outcome(FALSE, texWindow) /\ texture_id' = texture_id
           /\ live' \in {live, live \ {name}}
    BY Zenon DEF window_texture_on_resize
  <1>6. targets \subseteq live /\ live \subseteq targets \cup {texture_id}
        /\ texture_id \notin targets
    BY DEF Inv, TexturesInv
  <1>7. texWindow' \in Anywhere /\ redirected' \in BOOLEAN
    BY DEF Inv, TypeOK
  <1> HIDE DEF name
  <1>8. CASE /\ Outcome(TRUE, texWindow) /\ texture_id' = name
             /\ live' = live \cup {name}
    <2>1. pixmap' = TRUE /\ current' \in BOOLEAN /\ gaveUp' \in BOOLEAN
      BY <1>8, OutcomeTypes
    <2> QED
      BY <1>2, <1>3, <1>4, <1>6, <1>7, <1>8, <2>1 DEF TextureLeft
  <1>9. CASE /\ Outcome(FALSE, texWindow) /\ texture_id' = texture_id
             /\ live' \in {live, live \ {name}}
    <2>1. pixmap' = FALSE /\ current' \in BOOLEAN /\ gaveUp' \in BOOLEAN
      BY <1>9, OutcomeTypes
    <2> QED
      BY <1>3, <1>4, <1>6, <1>7, <1>9, <2>1 DEF TextureLeft
  <1> QED
    BY <1>5, <1>8, <1>9

LEMMA CleanLeavesNothing ==
  ASSUME Inv, Clean
  PROVE  /\ live' = {} /\ targets' = {} /\ redirects' = {}
         /\ texture_id' = 0 /\ pixmap' = FALSE
         /\ current' = FALSE /\ gaveUp' = FALSE
         /\ redirected' = FALSE /\ converter' = FALSE
         /\ texWindow' \in Anywhere
  BY DEF Clean, Inv, TypeOK, TexturesInv, RedirectInv

-----------------------------------------------------------------------------
(* The screen *)

LEMMA EventsGrow ==
  ASSUME events \in Seq(Events), NEW w \in Windows, NEW sent \in Seq(Events),
         StopInv, alive' \subseteq alive,
         \A i \in DOMAIN sent :
           sent[i].type = "Destroy" => sent[i].window \in Windows \ alive',
         events' = Notify(w, sent)
  PROVE  /\ events' \in Seq(Events)
         /\ \A i \in DOMAIN events' :
              events'[i].type = "Destroy" => events'[i].window \in Windows \ alive'
  <1>1. CASE w \notin selected
    BY <1>1 DEF Notify, StopInv
  <1>2. CASE w \in selected
    <2>1. events' = events \o sent
      BY <1>2 DEF Notify
    <2>2. events' \in Seq(Events)
      BY <2>1
    <2>3. ASSUME NEW i \in DOMAIN events', events'[i].type = "Destroy"
          PROVE  events'[i].window \in Windows \ alive'
      <3>1. CASE i \in DOMAIN events
        BY <2>1, <2>3, <3>1 DEF StopInv
      <3>2. CASE i \notin DOMAIN events
        <4>1. i - Len(events) \in DOMAIN sent /\ events'[i] = sent[i - Len(events)]
          BY <2>1, <3>2
        <4> QED
          BY <2>3, <4>1
      <3> QED
        BY <3>1, <3>2
    <2> QED
      BY <2>2, <2>3
  <1> QED
    BY <1>1, <1>2

LEMMA EventsAreEvents ==
  /\ \A t \in {"Destroy", "Expose", "Focus"}, w \in Anywhere : Event(t, w) \in Events
  /\ \A w \in Windows, n \in Sizes :
       [type |-> "Configure", window |-> w, size |-> n] \in Events
  BY DEF Event, Events

LEMMA OneOrTwo ==
  ASSUME NEW S, NEW c \in S, NEW e \in S
  PROVE  /\ <<c>> \in Seq(S) /\ \A i \in DOMAIN <<c>> : <<c>>[i] = c
         /\ <<c>> \o <<>> \in Seq(S)
         /\ \A i \in DOMAIN (<<c>> \o <<>>) : (<<c>> \o <<>>)[i] = c
         /\ <<c>> \o <<e>> \in Seq(S)
         /\ \A i \in DOMAIN (<<c>> \o <<e>>) : (<<c>> \o <<e>>)[i] \in {c, e}
  <1>1. <<c>> \in Seq(S) /\ \A i \in DOMAIN <<c>> : <<c>>[i] = c
    OBVIOUS
  <1>2. <<c>> \o <<>> = <<c>>
    OBVIOUS
  <1>3. <<c>> \o <<e>> \in Seq(S)
        /\ \A i \in DOMAIN (<<c>> \o <<e>>) : (<<c>> \o <<e>>)[i] \in {c, e}
    <2>1. <<e>> \in Seq(S) /\ Len(<<c>>) = 1 /\ Len(<<e>>) = 1
          /\ <<c>>[1] = c /\ <<e>>[1] = e
      OBVIOUS
    <2> QED
      BY <1>1, <2>1, ConcatProperties
  <1> QED
    BY <1>1, <1>2, <1>3

LEMMA WatchedAreWindows == Watched \subseteq Windows
  BY WindowsAssumption DEF Watched

\* What a change on the screen leaves of the invariant.
LEMMA ChangeKeeps ==
  ASSUME Inv, Change, UNCHANGED rootSelected,
         events' \in Seq(Events),
         \A i \in DOMAIN events' :
           events'[i].type = "Destroy" => events'[i].window \in Windows \ alive',
         alive' \subseteq alive, viewable' \subseteq alive',
         size' \in [Watched -> Sizes], focus' \in Anywhere,
         selected' = selected \cap alive', redirects' = redirects \cap alive',
         current' \in BOOLEAN, gaveUp' \in BOOLEAN, missed' \in BOOLEAN
  PROVE  Inv'
  <1>1. changes' \in 0..MaxChanges
    BY NumbersAssumption DEF Change, Inv, TypeOK
  <1>2. TypeOK'
    BY <1>1 DEF Inv, TypeOK, Change, fixed, state, gl, Watched
  <1>3. TexturesInv'
    BY DEF Inv, TexturesInv, Change, fixed, state, gl
  <1>4. RedirectInv'
    BY DEF Inv, RedirectInv, Change, gl
  <1>5. StopInv'
    BY DEF Inv, StopInv, EndsForAReason, Change, fixed, state, gl
  <1> QED
    BY <1>2, <1>3, <1>4, <1>5 DEF Inv

LEMMA OutdatesType ==
  ASSUME Inv, NEW w, Outdates(w)
  PROVE  current' \in BOOLEAN /\ gaveUp' \in BOOLEAN
  BY DEF Outdates, Inv, TypeOK

LEMMA ScreenKeepsInv ==
  ASSUME Inv, Screen
  PROVE  Inv'
  <1> USE DEF Inv, TypeOK
  <1>0. alive \subseteq Windows
    BY WatchedAreWindows
  <1>1. ASSUME NEW w \in alive, Resize(w)
        PROVE  Inv'
    <2>1. PICK n \in Sizes : size' = [size EXCEPT ![w] = n]
          /\ \E exposed \in IF w \in viewable THEN {<<>>, <<Event("Expose", w)>>}
                                             ELSE {<<>>} :
               events' = Notify(w, <<[type |-> "Configure", window |-> w,
                                      size |-> n]>> \o exposed)
      BY <1>1 DEF Resize
    <2>2. PICK exposed \in {<<>>, <<Event("Expose", w)>>} :
            events' = Notify(w, <<[type |-> "Configure", window |-> w,
                                   size |-> n]>> \o exposed)
      BY <2>1
    <2> DEFINE c == [type |-> "Configure", window |-> w, size |-> n]
               sent == <<c>> \o exposed
    <2>3. c \in Events /\ Event("Expose", w) \in Events /\ w \in Windows
      BY <1>0, EventsAreEvents DEF Anywhere
    <2>4. sent \in Seq(Events) /\ \A i \in DOMAIN sent :
            sent[i] \in {c, Event("Expose", w)}
      <3> HIDE DEF c
      <3>1. exposed = <<>> \/ exposed = <<Event("Expose", w)>>
        OBVIOUS
      <3> QED
        BY <2>3, <3>1, OneOrTwo
    <2>5. c.type # "Destroy" /\ Event("Expose", w).type # "Destroy"
      BY DEF Event
    <2>6. alive' = alive /\ events' = Notify(w, sent)
      BY <1>1, <2>2 DEF Resize
    <2> HIDE DEF sent, c
    <2>7. /\ events' \in Seq(Events)
          /\ \A i \in DOMAIN events' :
               events'[i].type = "Destroy" => events'[i].window \in Windows \ alive'
      <3>1. \A i \in DOMAIN sent :
              sent[i].type = "Destroy" => sent[i].window \in Windows \ alive'
        BY <2>4, <2>5
      <3> QED
        BY <2>3, <2>4, <2>6, <3>1, EventsGrow
    <2>8. current' \in BOOLEAN /\ gaveUp' \in BOOLEAN /\ missed' \in BOOLEAN
      <3>1. missed' = (missed \/ (pc = "select" /\ w = window))
        BY <1>1 DEF Resize
      <3>2. missed' \in BOOLEAN
        BY <3>1
      <3> QED
        BY <1>1, <3>2, OutdatesType DEF Resize
    <2>9. size' \in [Watched -> Sizes]
      BY <2>1
    <2>10. Change /\ UNCHANGED <<alive, viewable, focus, selected, rootSelected,
                                  redirects>>
      BY <1>1 DEF Resize
    <2> QED
      BY <2>7, <2>8, <2>9, <2>10, ChangeKeeps
  <1>2. ASSUME NEW w \in alive, Unmap(w)
        PROVE  Inv'
    <2>1. current' \in BOOLEAN /\ gaveUp' \in BOOLEAN
      BY <1>2, OutdatesType DEF Unmap
    <2> QED
      BY <1>2, <2>1, ChangeKeeps DEF Unmap, server, StopInv
  <1>3. ASSUME NEW w \in alive, Map(w)
        PROVE  Inv'
    <2>1. Event("Expose", w) \in Events /\ w \in Windows
      BY <1>0, EventsAreEvents DEF Anywhere
    <2>2. Event("Expose", w).type # "Destroy"
      BY DEF Event
    <2>3. /\ events' \in Seq(Events)
          /\ \A i \in DOMAIN events' :
               events'[i].type = "Destroy" => events'[i].window \in Windows \ alive'
      <3>1. alive' = alive /\ events' = Notify(w, <<Event("Expose", w)>>)
        BY <1>3 DEF Map
      <3> DEFINE e == Event("Expose", w)
                 sent == <<e>>
      <3>2. sent \in Seq(Events) /\ \A i \in DOMAIN sent : sent[i] = e
        BY <2>1, OneOrTwo
      <3>3. alive' \subseteq alive /\ \A i \in DOMAIN sent :
              sent[i].type = "Destroy" => sent[i].window \in Windows \ alive'
        BY <2>1, <2>2, <3>1, <3>2
      <3> HIDE DEF sent
      <3>4. events' = Notify(w, sent)
        BY <3>1 DEF sent
      <3>5. StopInv
        OBVIOUS
      <3> QED
        BY <2>1, <3>2, <3>3, <3>4, <3>5, EventsGrow
    <2>4. gaveUp' \in BOOLEAN
      <3>1. gaveUp' = (gaveUp /\ w # texWindow)
        BY <1>3, Zenon DEF Map
      <3>2. (gaveUp /\ w # texWindow) \in BOOLEAN
        OBVIOUS
      <3> QED
        BY <3>1, <3>2
    <2> QED
      BY <1>3, <2>3, <2>4, ChangeKeeps DEF Map
  <1>4. ASSUME NEW w \in alive, Destroy(w)
        PROVE  Inv'
    <2>1. Event("Destroy", w) \in Events /\ w \in Windows
      BY <1>0, EventsAreEvents DEF Anywhere
    <2>2. Event("Destroy", w).window = w
      BY DEF Event
    <2>3. /\ events' \in Seq(Events)
          /\ \A i \in DOMAIN events' :
               events'[i].type = "Destroy" => events'[i].window \in Windows \ alive'
      <3>1. alive' = alive \ {w} /\ events' = Notify(w, <<Event("Destroy", w)>>)
        BY <1>4 DEF Destroy
      <3> DEFINE e == Event("Destroy", w)
                 sent == <<e>>
      <3>2. sent \in Seq(Events) /\ \A i \in DOMAIN sent : sent[i] = e
        BY <2>1, OneOrTwo
      <3>3. alive' \subseteq alive /\ \A i \in DOMAIN sent :
              sent[i].type = "Destroy" => sent[i].window \in Windows \ alive'
        BY <2>1, <2>2, <3>1, <3>2
      <3> HIDE DEF sent
      <3>4. events' = Notify(w, sent)
        BY <3>1 DEF sent
      <3>5. StopInv
        OBVIOUS
      <3> QED
        BY <2>1, <3>2, <3>3, <3>4, <3>5, EventsGrow
    <2>4. current' \in BOOLEAN /\ gaveUp' \in BOOLEAN
      BY <1>4, OutdatesType DEF Destroy
    <2> QED
      BY <1>4, <2>3, <2>4, ChangeKeeps DEF Destroy
  <1>5. CASE Activate
    <2>1. Event("Focus", None) \in Events
      BY EventsAreEvents DEF Anywhere
    <2>2. Event("Focus", None).type # "Destroy"
      BY DEF Event
    <2>3. /\ events' \in Seq(Events)
          /\ \A i \in DOMAIN events' :
               events'[i].type = "Destroy" => events'[i].window \in Windows \ alive'
      <3>1. alive' = alive /\ (events' = events
                                \/ events' = Append(events, Event("Focus", None)))
        BY <1>5 DEF Activate
      <3>2. CASE events' = events
        BY <3>1, <3>2 DEF StopInv
      <3>3. CASE events' = Append(events, Event("Focus", None))
        BY <2>1, <2>2, <3>1, <3>3 DEF StopInv
      <3> QED
        BY <3>1, <3>2, <3>3
    <2>4. focus' \in Anywhere
      BY <1>0, <1>5 DEF Activate, Anywhere
    <2> QED
      BY <1>5, <2>3, <2>4, ChangeKeeps DEF Activate
  <1> QED
    BY <1>1, <1>2, <1>3, <1>4, <1>5 DEF Screen

-----------------------------------------------------------------------------
(* The program *)

LEMMA ProgramTypes ==
  ASSUME Inv
  PROVE  /\ \A w : SizeOf(w) \in Sizes \cup {0}
         /\ \A w \in Anywhere : StartWindow(w) \in Anywhere
         /\ Target \in Anywhere /\ None \in Anywhere
  BY WindowsAssumption DEF Inv, TypeOK, SizeOf, StartWindow, Anywhere

LEMMA StartKeepsInv ==
  ASSUME Inv, StartAttributes \/ StartTexture \/ StartGpu
  PROVE  Inv'
  <1>1. CASE StartAttributes
    <2>1. window' \in Anywhere /\ window_size' \in Sizes \cup {0}
          /\ (~follow_focused => window' \in {None, Target})
      BY <1>1, ProgramTypes DEF StartAttributes, Inv, TypeOK
    <2>2. pc' \in {"select", "failed"} /\ pc = "start"
      BY <1>1 DEF StartAttributes
    <2>3. UNCHANGED <<alive, viewable, size, focus, changes, selected, rootSelected,
                     redirects, events, variant, follow_focused, window_resized,
                     timeout, init_new_window, follow_focused_initialized,
                     created_hw_frame, should_stop, stop_is_error, texWindow,
                     texture_id, pixmap, redirected, current, gaveUp, live,
                     targets, converter, missed>>
      BY <1>1 DEF StartAttributes, screen, server, fixed, texture, gl
    <2>4. TypeOK'
      BY <2>1, <2>2, <2>3 DEF Inv, TypeOK, Watched, Stages, Ended
    <2>5. TexturesInv' /\ RedirectInv'
      BY <2>2, <2>3 DEF Inv, TexturesInv, RedirectInv
    <2>6. StopInv'
      BY <2>1, <2>2, <2>3 DEF Inv, StopInv, EndsForAReason, Ended
    <2> QED
      BY <2>4, <2>5, <2>6 DEF Inv
  <1>2. CASE StartTexture
    <2>1. StartWindow(window) \in Anywhere
      BY ProgramTypes DEF Inv, TypeOK
    <2>2. /\ TextureLeft /\ redirects' \subseteq alive
          /\ redirects' \subseteq {texWindow'} /\ redirected' = TRUE
          /\ (texture_id' = 0 \/ pixmap')
      BY <1>2, <2>1, InitLeavesTexture DEF StartTexture
    <2>3. /\ pc = "select" /\ pc' \in {"gpu", "failed"}
          /\ rootSelected' = follow_focused
          /\ selected' = {StartWindow(window)} \cap alive
      BY <1>2 DEF StartTexture
    <2>4. UNCHANGED <<alive, viewable, size, focus, changes, events, variant,
                     follow_focused, window, window_size, window_resized, timeout,
                     init_new_window, follow_focused_initialized,
                     created_hw_frame, should_stop, stop_is_error, targets,
                     converter, missed>>
      BY <1>2 DEF StartTexture, screen, fixed, state
    <2>5. TypeOK'
      <3>1. ServerTypes'
        BY <2>2, <2>3, <2>4, TypeParts, ModesAssumption
        DEF Inv, ServerTypes, StateTypes, Watched
      <3>2. StateTypes'
        BY <2>3, <2>4, TypeParts DEF Inv, StateTypes, Stages, Ended
      <3>3. TextureTypes'
        BY <2>2, <2>4, TypeParts DEF Inv, TextureTypes, TextureLeft
      <3> QED
        BY <3>1, <3>2, <3>3, TypeParts, PTL
    <2>6. TexturesInv' /\ RedirectInv'
      BY <2>2, <2>3, <2>4 DEF Inv, TexturesInv, RedirectInv, TextureLeft
    <2>7. StopInv'
      BY <2>3, <2>4 DEF Inv, StopInv, EndsForAReason, Ended
    <2> QED
      BY <2>5, <2>6, <2>7 DEF Inv
  <1>3. CASE StartGpu
    <2>1. pc = "gpu" /\ targets = {}
      BY <1>3 DEF StartGpu, Inv, TexturesInv
    <2>2. UNCHANGED <<alive, viewable, size, focus, changes, selected, rootSelected,
                     events, variant, follow_focused, window, window_size,
                     window_resized, init_new_window,
                     follow_focused_initialized, created_hw_frame, should_stop,
                     stop_is_error, missed>>
      BY <1>3 DEF StartGpu, screen, fixed
    <2>3. CASE Failed
      <3>1. pc' = "failed" /\ timeout' = timeout
        BY <2>3 DEF Failed
      <3>2. TypeOK'
        <4>1. ServerTypes'
          BY <2>2, <2>3, CleanLeavesNothing, TypeParts
          DEF Failed, Inv, ServerTypes, Watched
        <4>2. StateTypes'
          BY <2>2, <3>1, TypeParts DEF Inv, StateTypes, Stages, Ended
        <4>3. TextureTypes'
          BY <2>3, CleanLeavesNothing DEF Failed, TextureTypes
        <4> QED
          BY <4>1, <4>2, <4>3, TypeParts, PTL
      <3>3. TexturesInv' /\ RedirectInv'
        BY <2>2, <2>3, <3>1, CleanLeavesNothing
        DEF Failed, Inv, TexturesInv, RedirectInv
      <3>4. StopInv'
        BY <2>2, <3>1 DEF Inv, StopInv, EndsForAReason, Ended
      <3> QED
        BY <3>2, <3>3, <3>4 DEF Inv
    <2>4. CASE ~Failed
      <3>1. /\ pc' = "tick" /\ timeout' = FALSE
            /\ UNCHANGED <<redirects, texWindow, texture_id, pixmap, redirected,
                           current, gaveUp, converter>>
            /\ \/ variant = "cuda" /\ targets' = {NewName(live)}
                  /\ live' = live \cup targets'
               \/ UNCHANGED <<targets, live>>
        BY <1>3, <2>4 DEF StartGpu, texture
      <3>2. NewName(live) \in Names \ live /\ NewName(live) # texture_id
        <4>1. live \subseteq {texture_id, texture_id}
          BY <2>1 DEF Inv, TexturesInv
        <4>2. NewName(live) \in Names \ live
          BY <4>1, NewNameIsNew
        <4>3. texture_id = 0 \/ texture_id \in live
          BY <2>1 DEF Inv, TexturesInv
        <4> QED
          BY <4>2, <4>3, NumbersAssumption
      <3>3. TypeOK'
        <4>1. ServerTypes'
          BY <2>2, <3>1, TypeParts DEF Inv, ServerTypes, Watched
        <4>2. StateTypes'
          BY <2>2, <3>1, TypeParts DEF Inv, StateTypes, Stages, Ended
        <4>3. TextureTypes'
          BY <3>1, <3>2, TypeParts DEF Inv, TextureTypes
        <4> QED
          BY <4>1, <4>2, <4>3, TypeParts, PTL
      <3>4. TexturesInv'
        <4>1. \E a, b \in Names : targets' \subseteq {a, b}
          BY <3>1, <3>2 DEF Inv, TexturesInv
        <4> QED
          BY <2>1, <2>2, <3>1, <3>2, <4>1 DEF Inv, TexturesInv, TypeOK
      <3>5. RedirectInv' /\ StopInv'
        BY <2>1, <2>2, <3>1 DEF Inv, RedirectInv, StopInv, EndsForAReason, Ended
      <3> QED
        BY <3>3, <3>4, <3>5 DEF Inv
    <2> QED
      BY <2>3, <2>4
  <1> QED
    BY <1>1, <1>2, <1>3

\* A step that leaves the textures alone
LEMMA QuietStep ==
  ASSUME Inv, UNCHANGED <<alive, changes, redirects, variant, created_hw_frame,
                          texture, gl>>,
         pc \notin {"start", "select", "gpu"}, pc' \notin {"start", "select", "gpu"},
         pc' # "stopped", pc' = "frame" => pc = "frame"
  PROVE  TexturesInv' /\ RedirectInv' /\ TextureTypes'
  <1>1. TextureTypes
    BY TypeParts DEF Inv
  <1> QED
    BY <1>1 DEF Inv, TexturesInv, RedirectInv, TextureTypes, texture, gl

LEMMA EventsKeepInv ==
  ASSUME Inv, HandleEvent
  PROVE  Inv'
  <1> DEFINE e == Head(events)
  <1>0. events \in Seq(Events) /\ events # <<>> /\ pc = "tick" /\ pc' = pc
        /\ events' = Tail(events)
    BY DEF HandleEvent, Inv, TypeOK
  <1>1. /\ e \in Events /\ 1 \in DOMAIN events /\ e = events[1]
        /\ events' \in Seq(Events)
        /\ \A i \in DOMAIN events' : i + 1 \in DOMAIN events
                                     /\ events'[i] = events[i + 1]
    BY <1>0, HeadTailProperties
  <1>2. OnDestroy(e) \/ OnExpose(e) \/ OnConfigure(e) \/ OnProperty(e)
    BY DEF HandleEvent
  <1>3. UNCHANGED <<alive, viewable, size, focus, changes, selected, rootSelected,
                   redirects, variant, follow_focused, window,
                   follow_focused_initialized, created_hw_frame, texture, gl,
                   missed>>
    BY DEF HandleEvent, screen, fixed
  <1>4. /\ timeout' \in BOOLEAN /\ window_resized' \in BOOLEAN
        /\ init_new_window' \in BOOLEAN /\ window_size' \in Sizes \cup {0}
        /\ should_stop' \in BOOLEAN /\ stop_is_error' \in BOOLEAN
    <2>1. CASE OnDestroy(e)
      BY <2>1 DEF OnDestroy, Inv, TypeOK
    <2>2. CASE OnExpose(e)
      BY <2>2 DEF OnExpose, Inv, TypeOK
    <2>3. CASE OnConfigure(e)
      <3>1. e.size \in Sizes
        BY <1>1, <2>3 DEF OnConfigure, Events
      <3> QED
        BY <2>3, <3>1 DEF OnConfigure, Inv, TypeOK
    <2>4. CASE OnProperty(e)
      BY <2>4, ModesAssumption DEF OnProperty, Inv, TypeOK
    <2> QED
      BY <1>2, <2>1, <2>2, <2>3, <2>4
  <1>5. \/ UNCHANGED <<should_stop, stop_is_error>>
        \/ /\ should_stop' = TRUE /\ stop_is_error' = FALSE
           /\ ~follow_focused /\ e.type = "Destroy" /\ e.window = window
    BY <1>2 DEF OnDestroy, OnExpose, OnConfigure, OnProperty
  <1>6. ServerTypes'
    BY <1>1, <1>3, TypeParts DEF Inv, ServerTypes, Watched
  <1>7. StateTypes'
    BY <1>0, <1>3, <1>4, TypeParts DEF Inv, StateTypes
  <1>8. TexturesInv' /\ RedirectInv' /\ TextureTypes'
    BY <1>0, <1>3, QuietStep
  <1>9. StopInv'
    <2>1. EndsForAReason'
      <3>1. CASE UNCHANGED <<should_stop, stop_is_error>>
        BY <1>0, <1>3, <3>1 DEF Inv, StopInv, EndsForAReason
      <3>2. CASE ~follow_focused /\ e.type = "Destroy" /\ e.window = window
        BY <1>0, <1>1, <1>3, <3>2, WindowsAssumption
        DEF Inv, StopInv, EndsForAReason
      <3> QED
        BY <1>5, <3>1, <3>2
    <2>2. \A i \in DOMAIN events' :
            events'[i].type = "Destroy" => events'[i].window \in Windows \ alive'
      BY <1>1, <1>3 DEF Inv, StopInv
    <2>3. /\ ~follow_focused' => window' \in {None, Target}
          /\ pc' = "focus" => follow_focused'
          /\ pc' \in Ended \/ should_stop' \/ ~created_hw_frame'
             \/ variant' = "cuda" \/ converter'
      BY <1>0, <1>3, <1>5 DEF Inv, StopInv, gl
    <2> QED
      BY <2>1, <2>2, <2>3 DEF StopInv
  <1>10. TypeOK'
    BY <1>6, <1>7, <1>8, TypeParts, PTL
  <1> QED
    BY <1>8, <1>9, <1>10 DEF Inv

LEMMA FocusKeepsInv ==
  ASSUME Inv, EventsRead \/ ReadFocus
  PROVE  Inv'
  <1>1. CASE EventsRead
    <2>1. /\ pc = "tick" /\ pc' \in {"focus", "resize"}
          /\ pc' = "focus" => follow_focused
      BY <1>1 DEF EventsRead
    <2>2. UNCHANGED <<screen, server, fixed, state, texture, gl, missed>>
      BY <1>1 DEF EventsRead
    <2>3. ServerTypes' /\ StateTypes'
      BY <2>1, <2>2, TypeParts
      DEF Inv, ServerTypes, StateTypes, Watched, Stages, screen, server, fixed,
          state
    <2>4. TexturesInv' /\ RedirectInv' /\ TextureTypes'
      BY <2>1, <2>2, QuietStep DEF screen, server, fixed, state
    <2>5. StopInv'
      BY <2>1, <2>2
      DEF Inv, StopInv, EndsForAReason, Ended, screen, server, fixed, state, gl
    <2>6. TypeOK'
      BY <2>3, <2>4, TypeParts, PTL
    <2> QED
      BY <2>4, <2>5, <2>6 DEF Inv
  <1>2. CASE ReadFocus
    <2>1. /\ pc = "focus" /\ pc' \in {"texture", "resize"}
          /\ follow_focused
      BY <1>2 DEF ReadFocus, Inv, StopInv
    <2>2. UNCHANGED <<alive, viewable, size, focus, changes, rootSelected,
                     redirects, events, variant, follow_focused, timeout,
                     created_hw_frame, should_stop, stop_is_error, texture, gl,
                     missed>>
      BY <1>2 DEF ReadFocus, screen, fixed
    <2>3. /\ selected' \subseteq alive
          /\ window' \in Anywhere /\ window_size' \in Sizes \cup {0}
          /\ window_resized' \in BOOLEAN /\ init_new_window' \in BOOLEAN
          /\ follow_focused_initialized' \in BOOLEAN
      BY <1>2, ProgramTypes DEF ReadFocus, Inv, TypeOK
    <2>4. ServerTypes' /\ StateTypes'
      BY <2>1, <2>2, <2>3, TypeParts
      DEF Inv, ServerTypes, StateTypes, Watched, Stages
    <2>5. TexturesInv' /\ RedirectInv' /\ TextureTypes'
      BY <2>1, <2>2, QuietStep
    <2>6. StopInv'
      BY <2>1, <2>2 DEF Inv, StopInv, EndsForAReason, Ended, gl
    <2>7. TypeOK'
      BY <2>4, <2>5, TypeParts, PTL
    <2> QED
      BY <2>5, <2>6, <2>7 DEF Inv
  <1> QED
    BY <1>1, <1>2

LEMMA TextureKeepsInv ==
  ASSUME Inv, MakeTexture \/ ResizeTexture
  PROVE  Inv'
  <1>1. CASE MakeTexture
    <2>1. pc = "texture" /\ pc' = "resize" /\ window_texture_init(window)
          /\ window \in Anywhere
      BY <1>1 DEF MakeTexture, Inv, TypeOK
    <2>2. UNCHANGED <<alive, viewable, size, focus, changes, selected, rootSelected,
                     events, fixed, state, targets, converter, missed>>
      BY <1>1 DEF MakeTexture, screen
    <2>3. /\ TextureLeft /\ redirects' \subseteq alive
          /\ redirects' \subseteq {texWindow'} /\ redirected' = TRUE
      BY <2>1, InitLeavesTexture
    <2>4. ServerTypes' /\ StateTypes'
      BY <2>1, <2>2, <2>3, TypeParts
      DEF Inv, ServerTypes, StateTypes, Watched, Stages, fixed, state
    <2>5. TextureTypes'
      BY <2>2, <2>3, TypeParts DEF Inv, TextureTypes, TextureLeft
    <2>6. TexturesInv' /\ RedirectInv'
      BY <2>1, <2>2, <2>3
      DEF Inv, TexturesInv, RedirectInv, TextureLeft, fixed, state
    <2>7. StopInv'
      BY <2>1, <2>2 DEF Inv, StopInv, EndsForAReason, Ended, fixed, state
    <2>8. TypeOK'
      BY <2>4, <2>5, TypeParts, PTL
    <2> QED
      BY <2>6, <2>7, <2>8 DEF Inv
  <1>2. CASE ResizeTexture
    <2>1. UNCHANGED <<screen, server, fixed, window, window_size, timeout,
                     init_new_window, follow_focused_initialized,
                     created_hw_frame, should_stop, stop_is_error, texWindow,
                     redirected, targets, converter, missed>>
          /\ pc = "resize" /\ pc' \in {"frame", "loop"}
          /\ window_resized' \in BOOLEAN
      BY <1>2 DEF ResizeTexture, Inv, TypeOK
    <2>2. TextureLeft /\ (pc' = "frame" => pixmap' /\ ~created_hw_frame)
      <3>1. CASE ~created_hw_frame \/ (window_resized /\ timeout)
        <4>1. window_texture_on_resize(texture_id)
              /\ pc' = IF pixmap' /\ ~created_hw_frame THEN "frame" ELSE "loop"
          BY <1>2, <3>1 DEF ResizeTexture
        <4>2. TextureLeft
          BY <2>1, <4>1, ResizeLeavesTexture
        <4> QED
          BY <4>1, <4>2
      <3>2. CASE ~(~created_hw_frame \/ (window_resized /\ timeout))
        <4>1. UNCHANGED <<pixmap, current, gaveUp, texture_id, live>> /\ pc' = "loop"
          BY <1>2, <3>2 DEF ResizeTexture
        <4> QED
          BY <2>1, <4>1 DEF Inv, TypeOK, TexturesInv, TextureLeft
      <3> QED
        BY <3>1, <3>2
    <2>3. ServerTypes' /\ StateTypes'
      BY <2>1, TypeParts
      DEF Inv, ServerTypes, StateTypes, Watched, Stages, screen, server, fixed
    <2>4. TextureTypes'
      BY <2>1, <2>2, TypeParts DEF Inv, TextureTypes, TextureLeft
    <2>5. TexturesInv' /\ RedirectInv'
      BY <2>1, <2>2
      DEF Inv, TexturesInv, RedirectInv, TextureLeft, fixed, server
    <2>6. StopInv'
      BY <2>1 DEF Inv, StopInv, EndsForAReason, Ended, fixed, screen, server
    <2>7. TypeOK'
      BY <2>3, <2>4, TypeParts, PTL
    <2> QED
      BY <2>5, <2>6, <2>7 DEF Inv
  <1> QED
    BY <1>1, <1>2

LEMMA FrameKeepsInv ==
  ASSUME Inv, CreateFrame
  PROVE  Inv'
  <1>1. /\ pc = "frame" /\ pc' = "loop" /\ created_hw_frame' = TRUE
        /\ TargetTextures
        /\ pixmap /\ ~created_hw_frame
    BY DEF CreateFrame, Inv, TexturesInv
  <1>2. UNCHANGED <<screen, server, fixed, window, window_size, window_resized,
                   timeout, init_new_window, follow_focused_initialized,
                   texture, missed>>
    BY DEF CreateFrame
  <1>3. /\ \/ UNCHANGED <<should_stop, stop_is_error>>
           \/ should_stop' = TRUE /\ stop_is_error' = TRUE
        /\ \/ converter' = (variant = "vaapi")
           \/ should_stop' = TRUE /\ UNCHANGED converter
    BY DEF CreateFrame
  <1>10. should_stop' \in BOOLEAN /\ stop_is_error' \in BOOLEAN
    BY <1>3 DEF Inv, TypeOK
  <1>11. converter' \in BOOLEAN
    <2>1. (variant = "vaapi") \in BOOLEAN
      OBVIOUS
    <2>2. converter \in BOOLEAN
      BY DEF Inv, TypeOK
    <2> QED
      BY <1>3, <2>1, <2>2, Zenon
  <1>12. should_stop' \/ variant # "vaapi" \/ converter'
    BY <1>3
  <1>4. /\ targets' \subseteq live' /\ texture_id \notin targets'
        /\ live' \subseteq targets' \cup {texture_id}
        /\ texture_id \in live'
        /\ live' \subseteq Names
        /\ \E a, b \in Names : targets' \subseteq {a, b}
    <2>1. CASE UNCHANGED <<targets, live>>
      BY <1>1, <2>1 DEF Inv, TexturesInv, TypeOK
    <2>2. CASE ~UNCHANGED <<targets, live>>
      <3> DEFINE y == NewName(live)
                 z == NewName(live \cup {y})
      <3>1. variant = "vaapi" /\ targets' = {y, z} /\ live' = live \cup targets'
        BY <1>1, <2>2 DEF TargetTextures
      <3>2. targets = {} /\ live = {texture_id}
        BY <1>1, <3>1 DEF Inv, TexturesInv
      <3>3. y \in Names \ live
        BY <3>2, NewNameIsNew
      <3>4. z \in Names \ (live \cup {y})
        <4>1. live \cup {y} \subseteq {texture_id, y}
          BY <3>2
        <4> QED
          BY <4>1, NewNameIsNew
      <3>5. live \subseteq Names
        BY DEF Inv, TypeOK
      <3> QED
        BY <3>1, <3>2, <3>3, <3>4, <3>5
    <2> QED
      BY <2>1, <2>2
  <1>5. ServerTypes' /\ StateTypes'
    BY <1>1, <1>2, <1>10, <1>11, TypeParts
    DEF Inv, ServerTypes, StateTypes, Watched, Stages, Ended, screen, server, fixed
  <1>6. TextureTypes'
    <2>1. TextureTypes
      BY TypeParts DEF Inv
    <2> QED
      BY <1>2, <1>4, <1>11, <2>1 DEF TextureTypes, texture
  <1>7. TexturesInv' /\ RedirectInv'
    BY <1>1, <1>2, <1>4 DEF Inv, TexturesInv, RedirectInv, texture, fixed, server
  <1>8. StopInv'
    <2>1. EndsForAReason'
      BY <1>1, <1>2, <1>3 DEF Inv, StopInv, EndsForAReason, fixed, screen
    <2>2. variant \in {"vaapi", "cuda"}
      BY ModesAssumption DEF Inv, TypeOK
    <2> QED
      BY <1>1, <1>2, <1>12, <2>1, <2>2 DEF Inv, StopInv, fixed, screen, server
  <1>9. TypeOK'
    BY <1>5, <1>6, TypeParts, PTL
  <1> QED
    BY <1>7, <1>8, <1>9 DEF Inv

LEMMA LoopKeepsInv ==
  ASSUME Inv, Capture \/ Stop \/ SecondPasses
  PROVE  Inv'
  <1>1. CASE Capture
    <2>1. /\ pc = "loop" /\ pc' \in {"tick", "crashed"} /\ ~should_stop
          /\ pc' = "crashed" => variant = "vaapi" /\ ~converter
      BY <1>1 DEF Capture
    <2>2. UNCHANGED <<screen, server, fixed, state, texture, gl, missed>>
      BY <1>1 DEF Capture
    <2>3. ServerTypes' /\ StateTypes'
      BY <2>1, <2>2, TypeParts
      DEF Inv, ServerTypes, StateTypes, Watched, Stages, Ended, screen, server,
          fixed, state
    <2>4. TexturesInv' /\ RedirectInv' /\ TextureTypes'
      BY <2>1, <2>2, QuietStep DEF screen, server, fixed, state
    <2>5. StopInv'
      BY <2>1, <2>2
      DEF Inv, StopInv, EndsForAReason, Ended, screen, server, fixed, state, gl
    <2>6. TypeOK'
      BY <2>3, <2>4, TypeParts, PTL
    <2> QED
      BY <2>4, <2>5, <2>6 DEF Inv
  <1>2. CASE Stop
    <2>1. /\ pc = "loop" /\ pc' = "stopped"
          /\ UNCHANGED <<screen, selected, rootSelected, events, fixed, state,
                         missed>>
      BY <1>2 DEF Stop
    <2>2. /\ live' = {} /\ targets' = {} /\ redirects' = {}
          /\ texture_id' = 0 /\ pixmap' = FALSE
          /\ current' = FALSE /\ gaveUp' = FALSE
          /\ redirected' = FALSE /\ converter' = FALSE
          /\ texWindow' \in Anywhere
      BY <1>2, CleanLeavesNothing DEF Stop
    <2>3. ServerTypes' /\ StateTypes'
      BY <2>1, <2>2, TypeParts
      DEF Inv, ServerTypes, StateTypes, Watched, Stages, Ended, screen, fixed, state
    <2>4. TextureTypes'
      BY <2>2 DEF TextureTypes
    <2>5. TexturesInv' /\ RedirectInv'
      BY <2>1, <2>2 DEF Inv, TexturesInv, RedirectInv, fixed, state
    <2>6. StopInv'
      BY <2>1 DEF Inv, StopInv, EndsForAReason, Ended, screen, fixed, state
    <2>7. TypeOK'
      BY <2>3, <2>4, TypeParts, PTL
    <2> QED
      BY <2>5, <2>6, <2>7 DEF Inv
  <1>3. CASE SecondPasses
    <2>1. timeout' = TRUE
          /\ UNCHANGED <<screen, server, fixed, pc, window, window_size,
                         window_resized, init_new_window,
                         follow_focused_initialized, created_hw_frame,
                         should_stop, stop_is_error, texture, gl, missed>>
      BY <1>3 DEF SecondPasses
    <2>2. TypeOK'
      BY <2>1 DEF Inv, TypeOK, Watched, screen, server, fixed, texture, gl
    <2>3. TexturesInv' /\ RedirectInv'
      BY <2>1 DEF Inv, TexturesInv, RedirectInv, server, fixed, texture, gl
    <2>4. StopInv'
      BY <2>1 DEF Inv, StopInv, EndsForAReason, screen, server, fixed, gl
    <2> QED
      BY <2>2, <2>3, <2>4 DEF Inv
  <1> QED
    BY <1>1, <1>2, <1>3

-----------------------------------------------------------------------------
(* The invariant and the theorems *)

LEMMA InitIsInv == Init => Inv
  <1> SUFFICES ASSUME Init PROVE Inv
    OBVIOUS
  <1>1. ServerTypes
    <2>1. size \in [Watched -> Sizes]
      BY NumbersAssumption DEF Init
    <2>2. alive \subseteq Watched /\ viewable \subseteq alive /\ focus \in Anywhere
      BY WatchedAreWindows DEF Init, Anywhere
    <2>3. changes \in 0..MaxChanges /\ events \in Seq(Events)
      BY NumbersAssumption DEF Init
    <2> QED
      BY <2>1, <2>2, <2>3 DEF Init, ServerTypes
  <1>2. StateTypes
    BY DEF Init, StateTypes, Stages, Anywhere
  <1>3. TextureTypes
    BY DEF Init, TextureTypes, Anywhere
  <1>4. \E a, b \in Names : targets \subseteq {a, b}
    BY NamesAssumption DEF Init
  <1>5. TexturesInv /\ RedirectInv /\ StopInv
    BY <1>4, NumbersAssumption
    DEF Init, TexturesInv, RedirectInv, StopInv, EndsForAReason
  <1> QED
    BY <1>1, <1>2, <1>3, <1>5, TypeParts DEF Inv

LEMMA StutterKeepsInv ==
  ASSUME Inv, UNCHANGED vars
  PROVE  Inv'
  <1>1. UNCHANGED <<screen, server, fixed, pc, state, texture, gl, missed>>
    BY DEF vars
  <1>2. TypeOK'
    BY <1>1 DEF Inv, TypeOK, Watched, screen, server, fixed, state, texture, gl
  <1>3. TexturesInv' /\ RedirectInv'
    BY <1>1 DEF Inv, TexturesInv, RedirectInv, server, fixed, state, texture, gl
  <1>4. StopInv'
    BY <1>1 DEF Inv, StopInv, EndsForAReason, screen, server, fixed, state, gl
  <1> QED
    BY <1>2, <1>3, <1>4 DEF Inv

LEMMA NextKeepsInv == Inv /\ [Next]_vars => Inv'
  <1> SUFFICES ASSUME Inv, [Next]_vars PROVE Inv'
    OBVIOUS
  <1>1. CASE Screen
    BY <1>1, ScreenKeepsInv
  <1>2. CASE StartAttributes \/ StartTexture \/ StartGpu
    BY <1>2, StartKeepsInv
  <1>3. CASE HandleEvent
    BY <1>3, EventsKeepInv
  <1>4. CASE EventsRead \/ ReadFocus
    BY <1>4, FocusKeepsInv
  <1>5. CASE MakeTexture \/ ResizeTexture
    BY <1>5, TextureKeepsInv
  <1>6. CASE CreateFrame
    BY <1>6, FrameKeepsInv
  <1>7. CASE Capture \/ Stop \/ SecondPasses
    BY <1>7, LoopKeepsInv
  <1>8. CASE UNCHANGED vars
    BY <1>8, StutterKeepsInv
  <1> QED
    BY <1>1, <1>2, <1>3, <1>4, <1>5, <1>6, <1>7, <1>8 DEF Next, Program, Tick

\* The variables keep their types.
THEOREM WindowTypeCorrect == Spec => []TypeOK
  <1>1. Inv => TypeOK
    BY DEF Inv
  <1> QED
    BY <1>1, InitIsInv, NextKeepsInv, PTL DEF Spec

\* However windows come, go and change their sizes, and whichever step of the
\* capture fails, the encoder's textures stay, no texture is lost, and stop
\* leaves nothing.
THEOREM TexturesAreKept == Spec => []EncoderKeepsItsTextures
  <1>1. Inv => EncoderKeepsItsTextures
    BY DEF Inv, TexturesInv, RedirectInv, EncoderKeepsItsTextures
  <1> QED
    BY <1>1, InitIsInv, NextKeepsInv, PTL DEF Spec

\* A recording ends by itself only with its window, or with an error, and the
\* colour conversion is not used before it is there once a frame was made.
THEOREM EndHasAReason == Spec => []EndsForAReason
  <1>1. Inv => EndsForAReason
    BY DEF Inv, StopInv
  <1> QED
    BY <1>1, InitIsInv, NextKeepsInv, PTL DEF Spec
=============================================================================
