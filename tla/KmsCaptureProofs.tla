-------------------------- MODULE KmsCaptureProofs ---------------------------
(***************************************************************************)
(* Proofs about KmsCapture, for any screen, any list of planes and any limit *)
(* of descriptors: type correctness, that no descriptor of a framebuffer is  *)
(* leaked or closed twice, that the capture closes nobody else's, and that   *)
(* what is drawn is the target's.                                           *)
(***************************************************************************)
EXTENDS KmsCapture, TLAPS, WellFoundedInduction

(* The surface is the only descriptor of its kind, and it is there as long as *)
(* the server's numbers have not been closed in the client.                  *)
SurfaceIsPrime ==
  /\ \A d \in Slots : table[d] = "surface" => d = prime
  /\ ~closedOurs /\ prime # 0 => table[prime] = "surface"
  /\ hwFrame = "none" => prime = 0

(* The server holds the framebuffers of the response it fills. *)
ExportedAreFound ==
  /\ exported = {found[k].fd : k \in 1..Len(found)}
  /\ next = 0 => found = <<>>

Inv == TypeOK /\ NothingLeaks /\ SurfaceIsPrime /\ ExportedAreFound

-----------------------------------------------------------------------------
(* The choice of planes. *)

LEMMA LeastOf ==
  ASSUME NEW s, s \subseteq Nat, s # {}
  PROVE  \E k \in s : \A j \in s : k <= j
  <1>1. PICK k \in s : \A j \in s : <<j, k>> \notin OpToRel(<, Nat)
    BY NatLessThanWellFounded, WFMin
  <1>2. ASSUME NEW j \in s PROVE k <= j
    <2>1. <<j, k>> \notin {ss \in Nat \X Nat : ss[1] < ss[2]}
      BY <1>1 DEF OpToRel
    <2>2. <<j, k>> \in Nat \X Nat
      OBVIOUS
    <2>3. ~(<<j, k>>[1] < <<j, k>>[2])
      BY <2>1, <2>2
    <2> QED BY <2>3
  <1> QED BY <1>2

(* First gives a member of the set, or 0. *)
LEMMA FirstOfSet ==
  ASSUME NEW n \in Nat, NEW s, s \subseteq 1..n
  PROVE  First(s) \in 0..n /\ (s # {} => First(s) \in s)
  <1>1. CASE s = {}
    BY <1>1 DEF First
  <1>2. CASE s # {}
    <2>1. s \subseteq Nat
      OBVIOUS
    <2>2. \E k \in s : \A j \in s : k <= j
      BY <1>2, <2>1, LeastOf
    <2>3. First(s) \in s
      BY <1>2, <2>2 DEF First
    <2>4. \A k \in s : k \in 0..n
      OBVIOUS
    <2> QED BY <2>3, <2>4
  <1> QED BY <1>1, <1>2

LEMMA ChosenType ==
  ASSUME NEW r \in Seq(Entry), Len(r) <= MaxPlanes
  PROVE  Chosen(r) \in Image
  <1> USE KmsCaptureAssumption
  <1>1. CASE r = <<>>
    BY <1>1 DEF Chosen, NoImage, Image
  <1>2. CASE r # <<>>
    <2>1. Len(r) \in Nat /\ 1 <= Len(r)
      BY <1>2
    <2>2. ByConnector(r, Target) \in 0..Len(r)
      BY <2>1, FirstOfSet DEF ByConnector, Screens
    <2>3. Largest(r) \in 0..Len(r)
      <3>1. CASE Screens(r) = {}
        BY <2>1, <3>1 DEF Largest
      <3>2. CASE Screens(r) # {}
        BY <2>1, <3>2, FirstOfSet DEF Largest, Screens
      <3> QED BY <3>1, <3>2
    <2>4. First(Cursors(r)) \in 0..Len(r)
      BY <2>1, FirstOfSet DEF Cursors
    <2>5. \A k, b : CursorFor(r, k, b) \in 0..Len(r)
      BY <2>1, <2>4 DEF CursorFor
    <2>6. \A k \in 0..Len(r) : k \in 0..MaxPlanes
      BY <2>1
    <2>7. Chosen(r) \in [plane : 0..Len(r), combined : BOOLEAN,
                         cursor : 0..Len(r)]
      BY <1>2, <2>1, <2>2, <2>3, <2>5 DEF Chosen
    <2> QED BY <2>6, <2>7 DEF Image
  <1> QED BY <1>1, <1>2

-----------------------------------------------------------------------------
LEMMA InitInv == Init => Inv
  <1> SUFFICES ASSUME Init PROVE Inv
    OBVIOUS
  <1> USE KmsCaptureAssumption
  <1>1. TypeOK
    <2>1. shown \subseteq PlaneIds
      BY DEF Init, Pictures
    <2>2. NoImage \in Image
      BY DEF NoImage, Image
    <2>3. prime \in 0..Limit /\ frames \in 0..MaxFrames /\ next \in 0..(Len(Planes) + 1)
      BY DEF Init
    <2>4. table \in [Slots -> {"free", "other", "surface", "buffer"}]
      BY DEF Init
    <2>5. /\ crtcOf \in [Connectors -> Crtcs \cup {None}]
          /\ c2crtc \in [Connectors -> Crtcs \cup {None}]
      BY DEF Init
    <2>6. found \in Seq(Entry) /\ response \in Seq(Entry)
      BY DEF Init
    <2>7. wire \in [sent : BOOLEAN, fds : Seq(Entry)] /\ Len(wire.fds) <= MaxPlanes
      BY DEF Init
    <2>8. Len(found) <= MaxPlanes /\ Len(response) <= MaxPlanes
      BY DEF Init
    <2>9. /\ known \in BOOLEAN /\ closedOurs \in BOOLEAN /\ image \in Image
          /\ exported \subseteq Nat
      BY <2>2 DEF Init
    <2>10. /\ modesets \in 0..MaxModesets
           /\ change \in {"none", "moved", "unplugged"}
           /\ hwFrame \in {"none", "ok", "failed"}
           /\ client \in {"off", "starting", "listed", "failed", "ready",
                           "waiting", "captured", "stopped"}
      BY DEF Init
    <2> QED BY <2>1, <2>3, <2>4, <2>5, <2>6, <2>7, <2>8, <2>9, <2>10 DEF TypeOK
  <1>2. NothingLeaks
    BY DEF Init, NothingLeaks, FdsOf
  <1>3. SurfaceIsPrime
    BY DEF Init, SurfaceIsPrime
  <1>4. ExportedAreFound
    BY DEF Init, ExportedAreFound
  <1> QED BY <1>1, <1>2, <1>3, <1>4 DEF Inv

-----------------------------------------------------------------------------
(* The screen changes. *)

LEMMA ScreenKeepsInv == Inv /\ (CursorMoves \/ Modeset) => Inv'
  <1> SUFFICES ASSUME Inv, CursorMoves \/ Modeset PROVE Inv'
    OBVIOUS
  <1> USE KmsCaptureAssumption
  <1>1. UNCHANGED <<serverVars, wire, clientVars, table, closedOurs>>
    BY DEF CursorMoves, Modeset
  <1>2. shown' \subseteq PlaneIds
    BY DEF CursorMoves, Modeset, Pictures
  <1>3. /\ crtcOf' \in [Connectors -> Crtcs \cup {None}]
        /\ change' \in {"none", "moved", "unplugged"} /\ modesets' \in 0..MaxModesets
    BY DEF CursorMoves, Modeset, Inv, TypeOK
  <1>4. TypeOK'
    BY <1>1, <1>2, <1>3 DEF Inv, TypeOK, serverVars, clientVars
  <1>5. NothingLeaks' /\ SurfaceIsPrime' /\ ExportedAreFound'
    BY <1>1 DEF Inv, NothingLeaks, SurfaceIsPrime, ExportedAreFound, FdsOf,
                serverVars, clientVars
  <1> QED BY <1>4, <1>5 DEF Inv

-----------------------------------------------------------------------------
(* The server fills its response. *)

LEMMA ElementOfSeq ==
  \A S, q, i : q \in Seq(S) /\ i \in 1..Len(q) => q[i] \in S
  OBVIOUS

LEMMA FindsPlaneKeepsInv == Inv /\ ServerFindsPlane => Inv'
  <1> SUFFICES ASSUME Inv, ServerFindsPlane PROVE Inv'
    OBVIOUS
  <1> USE KmsCaptureAssumption
  <1> DEFINE e == [fd |-> NewFd, connector |-> ConnectorOf(Planes[next].crtc),
                   cursor |-> Planes[next].cursor, size |-> Planes[next].size,
                   of |-> Shows(next)]
  <1>1. /\ found' = Append(found, e) /\ exported' = exported \cup {NewFd}
        /\ next' = next + 1 /\ next \in PlaneIds /\ Len(found) < MaxPlanes
        /\ UNCHANGED <<screen, c2crtc, wire, clientVars, table, closedOurs>>
    BY DEF ServerFindsPlane, MorePlanes
  <1>2. found \in Seq(Entry) /\ Len(found) \in Nat
    BY DEF Inv, TypeOK
  <1>3. NewFd \in Nat
    BY <1>2 DEF NewFd
  <1>4. Planes[next] \in [crtc : Crtcs, cursor : BOOLEAN, size : Nat]
    <2>1. next \in 1..Len(Planes)
      BY <1>1 DEF PlaneIds
    <2> HIDE DEF e
    <2> QED BY <2>1, ElementOfSeq
  <1>5. e \in Entry
    <2>1. ConnectorOf(Planes[next].crtc) \in Connectors \cup {None}
      BY DEF ConnectorOf
    <2>2. Shows(next) \in Connectors \cup {None}
      BY DEF Shows
    <2> QED BY <1>3, <1>4, <2>1, <2>2 DEF Entry
  <1> HIDE DEF e
  <1>6. /\ found' \in Seq(Entry) /\ Len(found') = Len(found) + 1
        /\ Len(found') <= MaxPlanes
    BY <1>1, <1>2, <1>5
  <1>7. TypeOK'
    <2>1. next' \in 0..(Len(Planes) + 1) /\ exported' \subseteq Nat
      BY <1>1, <1>3 DEF PlaneIds, Inv, TypeOK
    <2> QED BY <1>1, <1>6, <2>1 DEF Inv, TypeOK, screen, clientVars
  <1>8. ExportedAreFound'
    <2>1. e.fd = NewFd
      BY DEF e
    <2>2. \A k \in 1..Len(found) : found'[k] = found[k]
      BY <1>1, <1>2
    <2>3. found'[Len(found) + 1] = e
      BY <1>1, <1>2
    <2>4. 1..Len(found') = 1..Len(found) \cup {Len(found) + 1}
      BY <1>2, <1>6
    <2>5. {found'[k].fd : k \in 1..Len(found')}
            = {found[k].fd : k \in 1..Len(found)} \cup {NewFd}
      <3>1. {found'[k].fd : k \in 1..Len(found')}
              = {found'[k].fd : k \in 1..Len(found)}
                  \cup {found'[Len(found) + 1].fd}
        BY <2>4, Zenon
      <3>2. {found'[k].fd : k \in 1..Len(found)}
              = {found[k].fd : k \in 1..Len(found)}
        BY <2>2, Zenon
      <3> QED BY <2>1, <2>3, <3>1, <3>2, Zenon
    <2>6. next' # 0
      BY <1>1 DEF PlaneIds
    <2> QED BY <1>1, <2>5, <2>6 DEF Inv, ExportedAreFound
  <1>9. NothingLeaks' /\ SurfaceIsPrime'
    <2>1. next' # 0
      BY <1>1 DEF PlaneIds
    <2> QED BY <1>1, <2>1 DEF Inv, NothingLeaks, SurfaceIsPrime, FdsOf, clientVars
  <1> QED BY <1>7, <1>8, <1>9 DEF Inv

LEMMA SkipsPlaneKeepsInv == Inv /\ ServerSkipsPlane => Inv'
  <1> SUFFICES ASSUME Inv, ServerSkipsPlane PROVE Inv'
    OBVIOUS
  <1> USE KmsCaptureAssumption
  <1>1. /\ next' = next + 1 /\ next \in PlaneIds
        /\ UNCHANGED <<screen, c2crtc, found, exported, wire, clientVars, table,
                       closedOurs>>
    BY DEF ServerSkipsPlane, MorePlanes
  <1>2. next' \in 0..(Len(Planes) + 1) /\ next' # 0
    <2>1. Len(Planes) \in Nat
      OBVIOUS
    <2> QED BY <1>1, <2>1 DEF PlaneIds
  <1>3. TypeOK'
    BY <1>1, <1>2 DEF Inv, TypeOK, screen, clientVars
  <1>4. NothingLeaks' /\ SurfaceIsPrime' /\ ExportedAreFound'
    BY <1>1, <1>2 DEF Inv, NothingLeaks, SurfaceIsPrime, ExportedAreFound, FdsOf,
                      clientVars
  <1> QED BY <1>3, <1>4 DEF Inv

(* Everything exported for the response is closed once it has been sent. *)
LEMMA RespondsKeepsInv == Inv /\ ServerResponds => Inv'
  <1> SUFFICES ASSUME Inv, ServerResponds PROVE Inv'
    OBVIOUS
  <1> USE KmsCaptureAssumption
  <1>1. /\ wire' = [sent |-> TRUE, fds |-> found]
        /\ found' = <<>> /\ next' = 0
        /\ UNCHANGED <<screen, c2crtc, clientVars, table, closedOurs>>
    BY DEF ServerResponds
  <1>2. exported' = {}
    BY DEF ServerResponds, Inv, ExportedAreFound
  <1>3. TypeOK'
    <2>1. wire' \in [sent : BOOLEAN, fds : Seq(Entry)] /\ Len(wire'.fds) <= MaxPlanes
      BY <1>1 DEF Inv, TypeOK
    <2>2. next' \in 0..(Len(Planes) + 1) /\ Len(found') <= MaxPlanes
      BY <1>1
    <2> QED BY <1>1, <1>2, <2>1, <2>2 DEF Inv, TypeOK, screen, clientVars
  <1>4. NothingLeaks' /\ SurfaceIsPrime' /\ ExportedAreFound'
    BY <1>1, <1>2 DEF Inv, NothingLeaks, SurfaceIsPrime, ExportedAreFound, FdsOf,
                      clientVars
  <1> QED BY <1>3, <1>4 DEF Inv

-----------------------------------------------------------------------------
(* The table of the client's descriptors. *)

LEMMA ClosedSlots ==
  ASSUME TypeOK, NEW s
  PROVE  /\ Closed(s) \in [Slots -> {"free", "other", "surface", "buffer"}]
         /\ \A d \in Slots : Closed(s)[d] = IF d \in s THEN "free" ELSE table[d]
  BY DEF TypeOK, Closed

LEMMA OthersKeepInv == Inv /\ (OtherOpens \/ OtherCloses) => Inv'
  <1> SUFFICES ASSUME Inv, OtherOpens \/ OtherCloses PROVE Inv'
    OBVIOUS
  <1>1. UNCHANGED <<screen, serverVars, wire, clientVars, closedOurs>>
    BY DEF OtherOpens, OtherCloses
  <1>2. PICK d \in Slots : /\ table[d] \in {"free", "other"}
                           /\ \/ table' = [table EXCEPT ![d] = "other"]
                              \/ table' = Closed({d})
    BY DEF OtherOpens, OtherCloses, Lowest, Free
  <1>3. /\ table' \in [Slots -> {"free", "other", "surface", "buffer"}]
        /\ table'[d] \in {"free", "other"}
        /\ \A c \in Slots : c # d => table'[c] = table[c]
    BY <1>2, ClosedSlots DEF Inv, TypeOK
  <1>4. TypeOK'
    BY <1>1, <1>3 DEF Inv, TypeOK, screen, serverVars, clientVars
  <1>5. NothingLeaks'
    <2>1. {c \in Slots : table'[c] = "buffer"} = {c \in Slots : table[c] = "buffer"}
      BY <1>2, <1>3
    <2>2. client \in {"stopped", "failed"} =>
            \A c \in Slots : table'[c] \in {"free", "other"}
      BY <1>3 DEF Inv, NothingLeaks
    <2> QED BY <1>1, <2>1, <2>2 DEF Inv, NothingLeaks, FdsOf, serverVars, clientVars
  <1>6. SurfaceIsPrime'
    <2>1. prime # 0 => prime \in Slots
      BY KmsCaptureAssumption DEF Inv, TypeOK, Slots
    <2>2. ~closedOurs /\ prime # 0 => table'[prime] = "surface"
      BY <1>2, <1>3, <2>1 DEF Inv, SurfaceIsPrime
    <2> QED BY <1>1, <1>2, <1>3, <2>2 DEF Inv, SurfaceIsPrime, clientVars
  <1>7. ExportedAreFound'
    BY <1>1 DEF Inv, ExportedAreFound, serverVars
  <1> QED BY <1>4, <1>5, <1>6, <1>7 DEF Inv

-----------------------------------------------------------------------------
(* The capture starts, stops and exports its surface. *)

LEMMA StartKeepsInv ==
  Inv /\ (StartServer \/ ListConnectors) => Inv'
  <1> SUFFICES ASSUME Inv, StartServer \/ ListConnectors PROVE Inv'
    OBVIOUS
  <1>1. /\ UNCHANGED <<crtcOf, shown, modesets, next, found, exported, wire,
                       hwFrame, prime, response, image, frames, table, closedOurs>>
        /\ client \in {"off", "starting"} /\ client' \in {"starting", "listed"}
    BY DEF StartServer, ListConnectors, screen, serverVars
  <1>2. /\ known' \in BOOLEAN /\ change' \in {"none", "moved", "unplugged"}
        /\ c2crtc' \in [Connectors -> Crtcs \cup {None}]
    BY DEF StartServer, ListConnectors, screen, serverVars, Inv, TypeOK
  <1>3. TypeOK'
    BY <1>1, <1>2 DEF Inv, TypeOK
  <1>4. NothingLeaks' /\ SurfaceIsPrime' /\ ExportedAreFound'
    BY <1>1 DEF Inv, NothingLeaks, SurfaceIsPrime, ExportedAreFound, FdsOf
  <1> QED BY <1>3, <1>4 DEF Inv

(* Closing the surface and the framebuffers of the response leaves nothing. *)
LEMMA StopKeepsInv ==
  Inv /\ (StopTo("stopped") \/ StopTo("failed")) => Inv'
  <1> SUFFICES ASSUME Inv, StopTo("stopped") \/ StopTo("failed") PROVE Inv'
    OBVIOUS
  <1> USE KmsCaptureAssumption
  <1>1. /\ client' \in {"stopped", "failed"}
        /\ table' = Closed({prime} \cup FdsOf(response))
        /\ prime' = 0 /\ response' = <<>>
        /\ UNCHANGED <<screen, serverVars, wire, known, hwFrame, image, frames,
                       closedOurs>>
    BY DEF StopTo
  <1>2. /\ table' \in [Slots -> {"free", "other", "surface", "buffer"}]
        /\ \A d \in Slots : table'[d] =
             IF d \in {prime} \cup FdsOf(response) THEN "free" ELSE table[d]
    BY <1>1, ClosedSlots DEF Inv
  <1>3. \A d \in Slots : table'[d] \in {"free", "other"}
    <2>1. \A d \in Slots : table[d] = "buffer" => d \in FdsOf(response)
      BY DEF Inv, NothingLeaks
    <2>2. \A d \in Slots : table[d] = "surface" => d = prime
      BY DEF Inv, SurfaceIsPrime
    <2>3. \A d \in Slots : table[d] \in {"free", "other", "surface", "buffer"}
      BY DEF Inv, TypeOK
    <2> QED BY <1>2, <2>1, <2>2, <2>3
  <1>4. TypeOK'
    <2>1. /\ prime' \in 0..Limit
          /\ response' \in Seq(Entry) /\ Len(response') <= MaxPlanes
      BY <1>1
    <2> QED BY <1>1, <1>2, <2>1 DEF Inv, TypeOK, screen, serverVars
  <1>5. NothingLeaks'
    <2>1. FdsOf(response') = {}
      BY <1>1 DEF FdsOf
    <2>2. {d \in Slots : table'[d] = "buffer"} = {}
      BY <1>3
    <2>3. \A j, k \in 1..Len(response') : j = k
      BY <1>1
    <2>4. next' = 0 => exported' = {}
      BY <1>1 DEF Inv, NothingLeaks, serverVars
    <2> QED BY <1>1, <1>3, <2>1, <2>2, <2>3, <2>4 DEF NothingLeaks
  <1>6. SurfaceIsPrime'
    BY <1>1, <1>3 DEF SurfaceIsPrime
  <1>7. ExportedAreFound'
    BY <1>1 DEF Inv, ExportedAreFound, serverVars
  <1> QED BY <1>4, <1>5, <1>6, <1>7 DEF Inv

LEMMA FindMonitorKeepsInv == Inv /\ FindMonitor => Inv'
  <1> SUFFICES ASSUME Inv, FindMonitor PROVE Inv'
    OBVIOUS
  <1>1. CASE StopTo("failed")
    BY <1>1, StopKeepsInv
  <1>2. CASE ~StopTo("failed")
    <2>1. /\ client = "listed" /\ client' = "ready"
          /\ UNCHANGED <<screen, serverVars, wire, known, hwFrame, prime,
                         response, image, frames, table, closedOurs>>
      BY <1>2 DEF FindMonitor
    <2>2. TypeOK'
      BY <2>1 DEF Inv, TypeOK, screen, serverVars
    <2>3. NothingLeaks' /\ SurfaceIsPrime' /\ ExportedAreFound'
      BY <2>1 DEF Inv, NothingLeaks, SurfaceIsPrime, ExportedAreFound, FdsOf,
                  serverVars
    <2> QED BY <2>2, <2>3 DEF Inv
  <1> QED BY <1>1, <1>2

LEMMA TickKeepsInv == Inv /\ (Tick \/ TickFails) => Inv'
  <1> SUFFICES ASSUME Inv, Tick \/ TickFails PROVE Inv'
    OBVIOUS
  <1> USE KmsCaptureAssumption
  <1>1. /\ client = "ready" /\ prime = 0 /\ hwFrame' \in {"ok", "failed"}
        /\ UNCHANGED <<screen, serverVars, wire, client, known, response, image,
                       frames, closedOurs>>
    BY DEF Tick, TickFails, Inv, SurfaceIsPrime
  <1>2. CASE UNCHANGED <<prime, table>>
    <2>1. TypeOK'
      BY <1>1, <1>2 DEF Inv, TypeOK, screen, serverVars
    <2>2. NothingLeaks' /\ SurfaceIsPrime' /\ ExportedAreFound'
      BY <1>1, <1>2 DEF Inv, NothingLeaks, SurfaceIsPrime, ExportedAreFound,
                        FdsOf, serverVars
    <2> QED BY <2>1, <2>2 DEF Inv
  <1>3. CASE SurfaceExported
    <2>1. PICK d \in Slots : /\ table[d] = "free" /\ prime' = d
                             /\ table' = [table EXCEPT ![d] = "surface"]
      BY <1>3 DEF SurfaceExported, Lowest, Free
    <2>2. /\ table' \in [Slots -> {"free", "other", "surface", "buffer"}]
          /\ table'[d] = "surface"
          /\ \A c \in Slots : c # d => table'[c] = table[c]
      BY <2>1 DEF Inv, TypeOK
    <2>3. TypeOK'
      <3>1. prime' \in 0..Limit
        BY <2>1 DEF Slots
      <3> QED BY <1>1, <2>2, <3>1 DEF Inv, TypeOK, screen, serverVars
    <2>4. NothingLeaks'
      <3>1. {c \in Slots : table'[c] = "buffer"}
              = {c \in Slots : table[c] = "buffer"}
        BY <2>1, <2>2
      <3> QED BY <1>1, <3>1 DEF Inv, NothingLeaks, FdsOf, serverVars
    <2>5. SurfaceIsPrime'
      <3>1. 0 \notin Slots
        BY DEF Slots
      <3>2. \A c \in Slots : table[c] # "surface"
        BY <1>1, <3>1 DEF Inv, SurfaceIsPrime
      <3> QED BY <1>1, <2>1, <2>2, <3>2 DEF SurfaceIsPrime
    <2>6. ExportedAreFound'
      BY <1>1 DEF Inv, ExportedAreFound, serverVars
    <2> QED BY <2>3, <2>4, <2>5, <2>6 DEF Inv
  <1> QED BY <1>2, <1>3 DEF Tick, TickFails

-----------------------------------------------------------------------------
(* Frames. *)

(* The framebuffers of the response are closed, and the response emptied. *)
LEMMA EmptiedKeepsInv ==
  ASSUME Inv, table' = Closed(FdsOf(response)), response' = <<>>,
         client' \in {"ready", "waiting"}, hwFrame' = hwFrame,
         UNCHANGED <<prime, exported, found, closedOurs>>, next' \in {1, next}
  PROVE  /\ table' \in [Slots -> {"free", "other", "surface", "buffer"}]
         /\ NothingLeaks' /\ SurfaceIsPrime' /\ ExportedAreFound'
  <1>1. /\ table' \in [Slots -> {"free", "other", "surface", "buffer"}]
        /\ \A d \in Slots : table'[d] =
             IF d \in FdsOf(response) THEN "free" ELSE table[d]
    BY ClosedSlots DEF Inv
  <1>2. NothingLeaks'
    <2>1. FdsOf(response') = {}
      BY DEF FdsOf
    <2>2. {d \in Slots : table'[d] = "buffer"} = {}
      BY <1>1 DEF Inv, NothingLeaks
    <2> QED BY <2>1, <2>2 DEF Inv, NothingLeaks
  <1>3. SurfaceIsPrime'
    <2>1. prime # 0 => prime \in Slots
      BY KmsCaptureAssumption DEF Inv, TypeOK, Slots
    <2>2. \A d \in Slots : d \in FdsOf(response) => table[d] = "buffer"
      BY DEF Inv, NothingLeaks
    <2> QED BY <1>1, <2>1, <2>2 DEF Inv, SurfaceIsPrime
  <1>4. ExportedAreFound'
    BY DEF Inv, ExportedAreFound
  <1> QED BY <1>1, <1>2, <1>3, <1>4

LEMMA FrameKeepsInv == Inv /\ (CaptureBegins \/ CaptureEnds) => Inv'
  <1> SUFFICES ASSUME Inv, CaptureBegins \/ CaptureEnds PROVE Inv'
    OBVIOUS
  <1> USE KmsCaptureAssumption
  <1>1. /\ table' = Closed(FdsOf(response)) /\ response' = <<>>
        /\ client' \in {"ready", "waiting"} /\ next' \in {1, next}
        /\ UNCHANGED <<screen, c2crtc, found, exported, wire, known, hwFrame,
                       prime, closedOurs>>
    BY DEF CaptureBegins, CaptureEnds, serverVars
  <1>2. /\ table' \in [Slots -> {"free", "other", "surface", "buffer"}]
        /\ NothingLeaks' /\ SurfaceIsPrime' /\ ExportedAreFound'
    BY <1>1, EmptiedKeepsInv
  <1>3. TypeOK'
    <2>1. image' \in Image
      <3>1. NoImage \in Image
        BY DEF NoImage, Image
      <3> QED BY <3>1 DEF CaptureBegins, CaptureEnds, Inv, TypeOK
    <2>2. frames' \in 0..MaxFrames
      BY DEF CaptureBegins, CaptureEnds, Inv, TypeOK
    <2>3. next' \in 0..(Len(Planes) + 1)
      BY <1>1 DEF Inv, TypeOK
    <2>4. response' \in Seq(Entry) /\ Len(response') <= MaxPlanes
      BY <1>1
    <2> QED BY <1>1, <1>2, <2>1, <2>2, <2>3, <2>4 DEF Inv, TypeOK, screen
  <1> QED BY <1>2, <1>3 DEF Inv

LEMMA EntryWithFd ==
  \A e \in Entry, v \in Nat :
    [e EXCEPT !.fd = v] \in Entry /\ [e EXCEPT !.fd = v].fd = v
  BY DEF Entry

(* The response that is kept: as many entries as were sent, their descriptors *)
(* those installed, all different, or 0.                                    *)
LEMMA ReceivedResponse ==
  ASSUME TypeOK, NEW n \in 0..Len(wire.fds), NEW f \in [1..n -> Free],
         Install(n, f)
  PROVE  /\ Received(n, f) \in Seq(Entry)
         /\ Len(Received(n, f)) = Len(wire.fds)
         /\ \A k \in 1..Len(wire.fds) :
              Received(n, f)[k].fd = IF k <= n THEN f[k] ELSE 0
         /\ FdsOf(Received(n, f)) = {f[k] : k \in 1..n}
         /\ \A j, k \in 1..n : f[j] = f[k] => j = k
  <1> DEFINE L == Len(wire.fds)
             r == Received(n, f)
  <1>1. wire.fds \in Seq(Entry) /\ L \in Nat /\ n \in Nat /\ n <= L
    BY DEF TypeOK
  <1>2. \A k \in 1..n : f[k] \in Slots /\ f[k] \in Nat \ {0}
    BY DEF Free, Slots
  <1>3. \A k \in 1..L : wire.fds[k] \in Entry
    BY <1>1, ElementOfSeq
  <1>4. \A k \in 1..L : (IF k <= n THEN f[k] ELSE 0) \in Nat
    BY <1>1, <1>2
  <1>5. r = [k \in 1..L |-> [wire.fds[k] EXCEPT !.fd = IF k <= n THEN f[k] ELSE 0]]
    BY DEF Received
  <1>6. \A k \in 1..L : /\ r[k] \in Entry
                        /\ r[k].fd = IF k <= n THEN f[k] ELSE 0
    <2> TAKE k \in 1..L
    <2> DEFINE v == IF k <= n THEN f[k] ELSE 0
    <2>1. r[k] = [wire.fds[k] EXCEPT !.fd = v]
      BY <1>5
    <2>2. wire.fds[k] \in Entry /\ v \in Nat
      BY <1>3, <1>4
    <2> HIDE DEF v
    <2>3. r[k] \in Entry /\ r[k].fd = v
      BY <2>1, <2>2, EntryWithFd
    <2> QED BY <2>3 DEF v
  <1>7. r \in Seq(Entry) /\ Len(r) = L
    <2>1. r \in [1..L -> Entry]
      BY <1>5, <1>6
    <2> HIDE DEF L, r
    <2> QED BY <1>1, <2>1
  <1>8. FdsOf(r) = {f[k] : k \in 1..n}
    <2>1. ASSUME NEW d \in FdsOf(r) PROVE d \in {f[k] : k \in 1..n}
      <3>1. PICK k \in 1..L : d = r[k].fd /\ d # 0
        BY <1>7 DEF FdsOf
      <3>2. k \in 1..n /\ d = f[k]
        BY <1>1, <1>6, <3>1
      <3> QED BY <3>2
    <2>2. ASSUME NEW k \in 1..n PROVE f[k] \in FdsOf(r)
      <3>1. k \in 1..L /\ r[k].fd = f[k] /\ f[k] # 0
        BY <1>1, <1>2, <1>6
      <3> QED BY <1>7, <3>1 DEF FdsOf
    <2> QED BY <2>1, <2>2
  <1>9. \A j, k \in 1..n : f[j] = f[k] => j = k
    <2>1. \A j, k \in 1..n : j < k => f[j] < f[k]
      BY DEF Install
    <2> QED BY <1>1, <1>2, <2>1
  <1> QED BY <1>6, <1>7, <1>8, <1>9

LEMMA ReceivesKeepsInv == Inv /\ CaptureReceives => Inv'
  <1> SUFFICES ASSUME Inv, CaptureReceives PROVE Inv'
    OBVIOUS
  <1> USE KmsCaptureAssumption
  <1>1. /\ client = "waiting" /\ client' = "captured"
        /\ image' = Chosen(response') /\ wire' = [sent |-> FALSE, fds |-> <<>>]
        /\ UNCHANGED <<screen, serverVars, known, hwFrame, prime, frames>>
    BY DEF CaptureReceives
  <1>2. PICK n \in 0..Len(wire.fds) : \E f \in [1..n -> Free] :
          /\ Install(n, f) /\ response' = Received(n, f)
          /\ table' = TablesAfter(n, f)
          /\ closedOurs' = (closedOurs \/ (n = 0 /\ wire.fds # <<>>))
    BY DEF CaptureReceives
  <1>3. PICK f \in [1..n -> Free] :
          /\ Install(n, f) /\ response' = Received(n, f)
          /\ table' = TablesAfter(n, f)
          /\ closedOurs' = (closedOurs \/ (n = 0 /\ wire.fds # <<>>))
    BY <1>2
  <1>4. /\ response' \in Seq(Entry) /\ Len(response') = Len(wire.fds)
        /\ \A k \in 1..Len(wire.fds) :
             response'[k].fd = IF k <= n THEN f[k] ELSE 0
        /\ FdsOf(response') = {f[k] : k \in 1..n}
        /\ \A j, k \in 1..n : f[j] = f[k] => j = k
    BY <1>3, ReceivedResponse DEF Inv
  <1>5. Len(wire.fds) \in Nat /\ Len(wire.fds) <= MaxPlanes
    BY DEF Inv, TypeOK
  <1>6. \A d \in Slots : table[d] # "buffer"
    BY <1>1 DEF Inv, NothingLeaks, FdsOf
  <1>7. \A k \in 1..n : f[k] \in Slots /\ table[f[k]] = "free"
    BY DEF Free
  <1>8. /\ table' \in [Slots -> {"free", "other", "surface", "buffer"}]
        /\ \A d \in Slots : table'[d] = "buffer" <=> d \in {f[k] : k \in 1..n}
        /\ \A d \in Slots : table[d] = "surface" /\ ~closedOurs' => table'[d] = "surface"
        /\ \A d \in Slots : table'[d] = "surface" => table[d] = "surface"
    <2>1. CASE n = 0
      <3>1. table' = Closed(FdsOf(wire.fds)) /\ {f[k] : k \in 1..n} = {}
        BY <1>3, <2>1 DEF TablesAfter
      <3>2. /\ table' \in [Slots -> {"free", "other", "surface", "buffer"}]
            /\ \A d \in Slots : table'[d] =
                 IF d \in FdsOf(wire.fds) THEN "free" ELSE table[d]
        BY <3>1, ClosedSlots DEF Inv
      <3>3. ~closedOurs' => FdsOf(wire.fds) = {}
        <4>1. wire.fds = <<>> => FdsOf(wire.fds) = {}
          BY DEF FdsOf
        <4> QED BY <1>3, <2>1, <4>1
      <3> QED BY <1>6, <3>1, <3>2, <3>3
    <2>2. CASE n # 0
      <3>1. table' = [d \in Slots |->
                        IF d \in {f[k] : k \in 1..n} THEN "buffer" ELSE table[d]]
        BY <1>3, <2>2 DEF TablesAfter
      <3> QED BY <1>6, <1>7, <3>1 DEF Inv, TypeOK
    <2> QED BY <2>1, <2>2
  <1>9. TypeOK'
    <2>1. image' \in Image
      BY <1>1, <1>4, <1>5, ChosenType
    <2>2. /\ wire' \in [sent : BOOLEAN, fds : Seq(Entry)]
          /\ Len(wire'.fds) <= MaxPlanes
      BY <1>1
    <2>3. closedOurs' \in BOOLEAN
      BY <1>3 DEF Inv, TypeOK
    <2> QED BY <1>1, <1>4, <1>5, <1>8, <2>1, <2>2, <2>3
            DEF Inv, TypeOK, screen, serverVars
  <1>10. NothingLeaks'
    <2>1. {d \in Slots : table'[d] = "buffer"} = FdsOf(response')
      BY <1>4, <1>7, <1>8
    <2>2. \A j, k \in 1..Len(response') :
            response'[j].fd = response'[k].fd /\ response'[j].fd # 0 => j = k
      BY <1>4, <1>5
    <2>3. next' = 0 => exported' = {}
      BY <1>1 DEF Inv, NothingLeaks, serverVars
    <2> QED BY <1>1, <2>1, <2>2, <2>3 DEF NothingLeaks
  <1>11. SurfaceIsPrime'
    <2>1. prime # 0 => prime \in Slots
      BY DEF Inv, TypeOK, Slots
    <2>2. ~closedOurs' => ~closedOurs
      BY <1>3
    <2> QED BY <1>1, <1>8, <2>1, <2>2 DEF Inv, SurfaceIsPrime
  <1>12. ExportedAreFound'
    BY <1>1 DEF Inv, ExportedAreFound, serverVars
  <1> QED BY <1>9, <1>10, <1>11, <1>12 DEF Inv

-----------------------------------------------------------------------------
LEMMA NextKeepsInv == Inv /\ [Next]_vars => Inv'
  <1> SUFFICES ASSUME Inv, [Next]_vars PROVE Inv'
    OBVIOUS
  <1>1. CASE CursorMoves \/ Modeset
    BY <1>1, ScreenKeepsInv
  <1>2. CASE ServerFindsPlane
    BY <1>2, FindsPlaneKeepsInv
  <1>3. CASE ServerSkipsPlane
    BY <1>3, SkipsPlaneKeepsInv
  <1>4. CASE ServerResponds
    BY <1>4, RespondsKeepsInv
  <1>5. CASE OtherOpens \/ OtherCloses
    BY <1>5, OthersKeepInv
  <1>6. CASE StartServer \/ ListConnectors
    BY <1>6, StartKeepsInv
  <1>7. CASE FindMonitor
    BY <1>7, FindMonitorKeepsInv
  <1>8. CASE Tick \/ TickFails
    BY <1>8, TickKeepsInv
  <1>9. CASE CaptureBegins \/ CaptureEnds
    BY <1>9, FrameKeepsInv
  <1>10. CASE CaptureReceives
    BY <1>10, ReceivesKeepsInv
  <1>11. CASE Stop
    BY <1>11, StopKeepsInv DEF Stop
  <1>12. CASE UNCHANGED vars
    <2>1. TypeOK'
      BY <1>12 DEF Inv, TypeOK, vars, screen, serverVars, clientVars
    <2>2. NothingLeaks' /\ SurfaceIsPrime' /\ ExportedAreFound'
      BY <1>12 DEF Inv, NothingLeaks, SurfaceIsPrime, ExportedAreFound, FdsOf,
                   vars, screen, serverVars, clientVars
    <2> QED BY <2>1, <2>2 DEF Inv
  <1> QED
    BY <1>1, <1>2, <1>3, <1>4, <1>5, <1>6, <1>7, <1>8, <1>9, <1>10, <1>11, <1>12
       DEF Next

LEMMA InvHolds == Spec => []Inv
  BY InitInv, NextKeepsInv, PTL DEF Spec

(* Every variable of the capture and the server keeps its type; a response    *)
(* has at most GSR_KMS_MAX_PLANES entries, and the planes chosen are among   *)
(* them.                                                                    *)
THEOREM KmsFramesTypeCorrect == Spec => []TypeOK
  <1>1. Inv => TypeOK
    BY DEF Inv
  <1> QED BY InvHolds, <1>1, PTL

(* No path through start, capture, capture_end and stop leaves a framebuffer  *)
(* or the encoder's surface open, and none is in a response twice.           *)
THEOREM NoDescriptorLeaks == Spec => []NothingLeaks
  <1>1. Inv => NothingLeaks
    BY DEF Inv
  <1> QED BY InvHolds, <1>1, PTL

(* As long as recv_msg_from_server has not run out of descriptors, the       *)
(* capture closes no other thread's.                                        *)
THEOREM OthersDescriptorsAreKept == Spec => OthersKeepTheirs
  <1> DEFINE Kept == client' # client /\ ~closedOurs' =>
                       \A d \in Slots : table[d] = "other" => table'[d] = "other"
  <1>1. Inv /\ [Next]_vars => [Kept]_vars
    <2> SUFFICES ASSUME Inv, Next, client' # client, ~closedOurs',
                        NEW d \in Slots, table[d] = "other"
                 PROVE  table'[d] = "other"
      BY DEF Kept
    <2>1. CASE table' = table
      BY <2>1
    <2>2. CASE CaptureBegins \/ CaptureEnds
      <3>1. table' = Closed(FdsOf(response))
        BY <2>2 DEF CaptureBegins, CaptureEnds
      <3>2. d \notin FdsOf(response)
        BY DEF Inv, NothingLeaks
      <3> QED BY <3>1, <3>2, ClosedSlots DEF Inv
    <2>3. CASE StopTo("stopped") \/ StopTo("failed")
      <3>1. /\ table' = Closed({prime} \cup FdsOf(response))
            /\ closedOurs' = closedOurs
        BY <2>3 DEF StopTo
      <3>2. d \notin FdsOf(response)
        BY DEF Inv, NothingLeaks
      <3>3. d # prime
        <4>1. 0 \notin Slots
          BY KmsCaptureAssumption DEF Slots
        <4> QED BY <3>1, <4>1 DEF Inv, SurfaceIsPrime
      <3> QED BY <3>1, <3>2, <3>3, ClosedSlots DEF Inv
    <2>4. CASE CaptureReceives
      <3>1. PICK n \in 0..Len(wire.fds) : \E f \in [1..n -> Free] :
              /\ table' = TablesAfter(n, f)
              /\ closedOurs' = (closedOurs \/ (n = 0 /\ wire.fds # <<>>))
        BY <2>4 DEF CaptureReceives
      <3>2. PICK f \in [1..n -> Free] :
              /\ table' = TablesAfter(n, f)
              /\ closedOurs' = (closedOurs \/ (n = 0 /\ wire.fds # <<>>))
        BY <3>1
      <3>3. CASE n = 0
        <4>1. wire.fds = <<>>
          BY <3>2, <3>3
        <4>2. FdsOf(wire.fds) = {}
          BY <4>1 DEF FdsOf
        <4>3. table' = Closed(FdsOf(wire.fds))
          BY <3>2, <3>3 DEF TablesAfter
        <4> QED BY <4>2, <4>3, ClosedSlots DEF Inv
      <3>4. CASE n # 0
        <4>1. d \notin {f[k] : k \in 1..n}
          BY DEF Free
        <4>2. table' = [c \in Slots |->
                          IF c \in {f[k] : k \in 1..n} THEN "buffer" ELSE table[c]]
          BY <3>2, <3>4 DEF TablesAfter
        <4> QED BY <4>1, <4>2
      <3> QED BY <3>3, <3>4
    <2>5. CASE CursorMoves \/ Modeset \/ ServerFindsPlane \/ ServerSkipsPlane
                 \/ ServerResponds \/ OtherOpens \/ OtherCloses \/ Tick \/ TickFails
      <3>1. client' = client
        BY <2>5 DEF CursorMoves, Modeset, ServerFindsPlane, ServerSkipsPlane,
                    ServerResponds, OtherOpens, OtherCloses, Tick, TickFails,
                    clientVars
      <3> QED BY <3>1
    <2>6. CASE StartServer \/ ListConnectors \/ FindMonitor
      <3>1. table' = table \/ StopTo("failed")
        BY <2>6 DEF StartServer, ListConnectors, FindMonitor
      <3> QED BY <3>1, <2>1, <2>3
    <2>7. CASE Stop
      BY <2>3, <2>7 DEF Stop
    <2> QED BY <2>2, <2>4, <2>5, <2>6, <2>7 DEF Next
  <1>2. Spec => [][Kept]_vars
    BY InvHolds, <1>1, PTL DEF Spec
  <1> QED BY <1>2 DEF OthersKeepTheirs

-----------------------------------------------------------------------------
(* What is drawn. *)

(* Every entry of a response is labelled with the connector it shows. *)
Labelled(r) == \A k \in 1..Len(r) : r[k].connector = r[k].of

(* While the monitors stay as they are the server's map of them is right, the *)
(* target is among those the capture has listed, and the responses, on their *)
(* way and kept, are labelled rightly.                                      *)
MapIsCurrent == change = "none" /\ client # "off" => c2crtc = crtcOf

TargetIsKnown ==
  change = "none" =>
    /\ client = "listed" => known = (crtcOf[Target] # None)
    /\ client \in {"ready", "waiting", "captured"} => known

LabelsAreRight ==
  change = "none" => Labelled(found) /\ Labelled(wire.fds) /\ Labelled(response)

(* Nothing is asked for before the server has been started. *)
OffIsIdle == client = "off" => next = 0 /\ wire.fds = <<>>

ImageIsChosen == client = "captured" => image = Chosen(response)

DrawnInv ==
  Inv /\ MapIsCurrent /\ TargetIsKnown /\ LabelsAreRight /\ OffIsIdle /\ ImageIsChosen

LEMMA LabelledEmpty == Labelled(<<>>)
  BY DEF Labelled

LEMMA LabelledAppend ==
  ASSUME NEW r \in Seq(Entry), NEW e, Labelled(r), e.connector = e.of
  PROVE  Labelled(Append(r, e))
  <1>1. Len(r) \in Nat /\ Len(Append(r, e)) = Len(r) + 1
    OBVIOUS
  <1>2. \A k \in 1..Len(r) : Append(r, e)[k] = r[k]
    OBVIOUS
  <1>3. Append(r, e)[Len(r) + 1] = e
    OBVIOUS
  <1>4. ASSUME NEW k \in 1..(Len(r) + 1)
        PROVE  Append(r, e)[k].connector = Append(r, e)[k].of
    <2>1. k \in 1..Len(r) \/ k = Len(r) + 1
      BY <1>1
    <2> QED BY <1>2, <1>3, <2>1 DEF Labelled
  <1> QED BY <1>1, <1>4 DEF Labelled

(* recvmsg replaces the descriptors and nothing else. *)
LEMMA LabelledReceived ==
  ASSUME TypeOK, NEW n, NEW f, Labelled(wire.fds)
  PROVE  Labelled(Received(n, f))
  <1> DEFINE L == Len(wire.fds)
  <1>1. L \in Nat /\ \A k \in 1..L : wire.fds[k] \in Entry
    BY ElementOfSeq DEF TypeOK
  <1>2. Len(Received(n, f)) = L
    BY <1>1 DEF Received
  <1>3. ASSUME NEW k \in 1..L
        PROVE  Received(n, f)[k].connector = Received(n, f)[k].of
    <2> DEFINE v == IF k <= n THEN f[k] ELSE 0
    <2>1. Received(n, f)[k] = [wire.fds[k] EXCEPT !.fd = v]
      BY DEF Received
    <2>2. wire.fds[k] \in Entry /\ wire.fds[k].connector = wire.fds[k].of
      BY <1>1 DEF Labelled
    <2> HIDE DEF v
    <2> QED BY <2>1, <2>2 DEF Entry
  <1> QED BY <1>2, <1>3 DEF Labelled

LEMMA InitDrawn == Init => DrawnInv
  <1> SUFFICES ASSUME Init PROVE DrawnInv
    OBVIOUS
  <1>1. /\ client = "off" /\ next = 0
        /\ found = <<>> /\ response = <<>> /\ wire.fds = <<>>
    BY DEF Init
  <1> QED
    BY <1>1, InitInv, LabelledEmpty
       DEF DrawnInv, MapIsCurrent, TargetIsKnown, LabelsAreRight, OffIsIdle,
           ImageIsChosen

LEMMA ScreenKeepsDrawn == DrawnInv /\ (CursorMoves \/ Modeset) => DrawnInv'
  <1> SUFFICES ASSUME DrawnInv, CursorMoves \/ Modeset PROVE DrawnInv'
    OBVIOUS
  <1>1. Inv'
    BY ScreenKeepsInv DEF DrawnInv
  <1>2. /\ UNCHANGED <<serverVars, wire, clientVars>>
        /\ change' # "none" \/ UNCHANGED <<crtcOf, change>>
    BY DEF CursorMoves, Modeset
  <1>3. OffIsIdle' /\ ImageIsChosen'
    BY <1>2 DEF DrawnInv, OffIsIdle, ImageIsChosen, Chosen, ByConnector, serverVars,
                clientVars
  <1>4. MapIsCurrent' /\ TargetIsKnown' /\ LabelsAreRight'
    BY <1>2 DEF DrawnInv, MapIsCurrent, TargetIsKnown, LabelsAreRight, serverVars,
                clientVars
  <1> QED BY <1>1, <1>3, <1>4 DEF DrawnInv

(* The entry is labelled from the server's map, and as long as that is right *)
(* the label is the connector the plane shows.                              *)
LEMMA ServerKeepsDrawn ==
  DrawnInv /\ (ServerFindsPlane \/ ServerSkipsPlane \/ ServerResponds) => DrawnInv'
  <1> SUFFICES ASSUME DrawnInv,
                      ServerFindsPlane \/ ServerSkipsPlane \/ ServerResponds
               PROVE  DrawnInv'
    OBVIOUS
  <1>1. Inv'
    BY FindsPlaneKeepsInv, SkipsPlaneKeepsInv, RespondsKeepsInv DEF DrawnInv
  <1>2. next # 0 /\ UNCHANGED <<screen, c2crtc, clientVars>>
    BY DEF ServerFindsPlane, ServerSkipsPlane, ServerResponds, MorePlanes, PlaneIds
  <1>3. client # "off"
    BY <1>2 DEF DrawnInv, OffIsIdle
  <1>4. MapIsCurrent' /\ TargetIsKnown' /\ OffIsIdle' /\ ImageIsChosen'
    BY <1>2, <1>3 DEF DrawnInv, MapIsCurrent, TargetIsKnown, OffIsIdle,
                      ImageIsChosen, Chosen, ByConnector, screen, clientVars
  <1>5. LabelsAreRight'
    <2> SUFFICES ASSUME change = "none"
                 PROVE  Labelled(found') /\ Labelled(wire'.fds)
      BY <1>2 DEF DrawnInv, LabelsAreRight, screen, clientVars
    <2>1. Labelled(found) /\ Labelled(wire.fds)
      BY DEF DrawnInv, LabelsAreRight
    <2>2. CASE ServerFindsPlane
      <3> DEFINE e == [fd |-> NewFd, connector |-> ConnectorOf(Planes[next].crtc),
                       cursor |-> Planes[next].cursor, size |-> Planes[next].size,
                       of |-> Shows(next)]
      <3>1. found' = Append(found, e) /\ wire' = wire
        BY <2>2 DEF ServerFindsPlane
      <3>2. c2crtc = crtcOf
        BY <1>3 DEF DrawnInv, MapIsCurrent
      <3>3. e.connector = e.of
        BY <3>2 DEF ConnectorOf, Shows
      <3>4. found \in Seq(Entry)
        BY DEF DrawnInv, Inv, TypeOK
      <3> HIDE DEF e
      <3> QED BY <2>1, <3>1, <3>3, <3>4, LabelledAppend
    <2>3. CASE ServerSkipsPlane
      BY <2>1, <2>3 DEF ServerSkipsPlane
    <2>4. CASE ServerResponds
      BY <2>1, <2>4, LabelledEmpty DEF ServerResponds
    <2> QED BY <2>2, <2>3, <2>4
  <1> QED BY <1>1, <1>4, <1>5 DEF DrawnInv

LEMMA StartKeepsDrawn == DrawnInv /\ StartServer => DrawnInv'
  <1> SUFFICES ASSUME DrawnInv, StartServer PROVE DrawnInv'
    OBVIOUS
  <1>1. Inv'
    BY StartKeepsInv DEF DrawnInv
  <1>2. /\ client = "off" /\ client' = "starting" /\ c2crtc' = crtcOf
        /\ UNCHANGED <<crtcOf, found, wire, response>>
    BY DEF StartServer
  <1>3. found = <<>> /\ wire.fds = <<>> /\ response = <<>>
    BY <1>2 DEF DrawnInv, OffIsIdle, Inv, ExportedAreFound, NothingLeaks
  <1>4. LabelsAreRight'
    BY <1>2, <1>3, LabelledEmpty DEF LabelsAreRight
  <1>5. MapIsCurrent' /\ TargetIsKnown' /\ OffIsIdle' /\ ImageIsChosen'
    BY <1>2 DEF MapIsCurrent, TargetIsKnown, OffIsIdle, ImageIsChosen
  <1> QED BY <1>1, <1>4, <1>5 DEF DrawnInv

(* The steps of the client that do not receive a response: what they keep of *)
(* it is at most what was there.                                            *)
LEMMA ClientKeepsDrawn ==
  ASSUME DrawnInv, client # "off", client' # "off", client' # "captured",
         UNCHANGED <<screen, c2crtc, found, wire>>,
         response' \in {response, <<>>},
         \/ known' = known /\ client' \in {client, "failed", "stopped"}
         \/ known' = known /\ client' \in {"ready", "waiting"}
              /\ client \in {"ready", "waiting", "captured"}
         \/ known' = (crtcOf[Target] # None) /\ client' = "listed"
         \/ known' = known /\ client = "listed" /\ crtcOf[Target] # None
  PROVE  MapIsCurrent' /\ TargetIsKnown' /\ LabelsAreRight' /\ OffIsIdle'
           /\ ImageIsChosen'
  <1>1. MapIsCurrent' /\ OffIsIdle' /\ ImageIsChosen'
    BY DEF DrawnInv, MapIsCurrent, OffIsIdle, ImageIsChosen, screen
  <1>2. TargetIsKnown'
    BY DEF DrawnInv, TargetIsKnown, screen
  <1>3. LabelsAreRight'
    BY LabelledEmpty DEF DrawnInv, LabelsAreRight, screen
  <1> QED BY <1>1, <1>2, <1>3

(* The choice is made of the response that has just been received. *)
LEMMA ReceivesKeepsDrawn == DrawnInv /\ CaptureReceives => DrawnInv'
  <1> SUFFICES ASSUME DrawnInv, CaptureReceives PROVE DrawnInv'
    OBVIOUS
  <1>1. Inv'
    BY ReceivesKeepsInv DEF DrawnInv
  <1>2. /\ client = "waiting" /\ client' = "captured"
        /\ image' = Chosen(response') /\ wire' = [sent |-> FALSE, fds |-> <<>>]
        /\ UNCHANGED <<screen, serverVars, known>>
    BY DEF CaptureReceives
  <1>3. ImageIsChosen'
    <2>1. Chosen(response)' = Chosen(response')
      BY <1>2 DEF Chosen, ByConnector
    <2> QED BY <1>2, <2>1 DEF ImageIsChosen
  <1>4. LabelsAreRight'
    <2> SUFFICES ASSUME change = "none" PROVE Labelled(response')
      BY <1>2, LabelledEmpty DEF DrawnInv, LabelsAreRight, screen, serverVars
    <2>1. PICK n \in 0..Len(wire.fds) :
            \E f \in [1..n -> Free] : response' = Received(n, f)
      BY DEF CaptureReceives
    <2>2. Labelled(wire.fds)
      BY DEF DrawnInv, LabelsAreRight
    <2> QED BY <2>1, <2>2, LabelledReceived DEF DrawnInv, Inv
  <1>5. MapIsCurrent' /\ TargetIsKnown' /\ OffIsIdle'
    BY <1>2 DEF DrawnInv, MapIsCurrent, TargetIsKnown, OffIsIdle, screen, serverVars
  <1> QED BY <1>1, <1>3, <1>4, <1>5 DEF DrawnInv

LEMMA NextKeepsDrawn == DrawnInv /\ [Next]_vars => DrawnInv'
  <1> SUFFICES ASSUME DrawnInv, [Next]_vars PROVE DrawnInv'
    OBVIOUS
  <1>1. CASE CursorMoves \/ Modeset
    BY <1>1, ScreenKeepsDrawn
  <1>2. CASE ServerFindsPlane \/ ServerSkipsPlane \/ ServerResponds
    BY <1>2, ServerKeepsDrawn
  <1>3. CASE StartServer
    BY <1>3, StartKeepsDrawn
  <1>4. CASE CaptureReceives
    BY <1>4, ReceivesKeepsDrawn
  <1>5. CASE \/ OtherOpens \/ OtherCloses \/ Tick \/ TickFails \/ UNCHANGED vars
    <2>1. UNCHANGED <<screen, serverVars, wire, client, known, response, image>>
      BY <1>5 DEF OtherOpens, OtherCloses, Tick, TickFails, vars, clientVars
    <2>2. /\ MapIsCurrent' /\ TargetIsKnown' /\ LabelsAreRight' /\ OffIsIdle'
          /\ ImageIsChosen'
      BY <2>1 DEF DrawnInv, MapIsCurrent, TargetIsKnown, LabelsAreRight, OffIsIdle,
                  ImageIsChosen, Chosen, ByConnector, screen, serverVars
    <2> QED BY <2>2, NextKeepsInv DEF DrawnInv
  <1>6. CASE ListConnectors
    <2>1. /\ client = "starting" /\ client' = "listed"
          /\ known' = (crtcOf[Target] # None)
          /\ UNCHANGED <<screen, serverVars, wire, response>>
      BY <1>6 DEF ListConnectors
    <2> QED BY <2>1, NextKeepsInv, ClientKeepsDrawn DEF DrawnInv, serverVars
  <1>7. CASE FindMonitor
    <2>1. /\ client = "listed" /\ client' \in {"ready", "failed"}
          /\ client' = "ready" => crtcOf[Target] # None
          /\ response' \in {response, <<>>}
          /\ UNCHANGED <<screen, serverVars, wire, known>>
      BY <1>7 DEF FindMonitor, StopTo
    <2> QED BY <2>1, NextKeepsInv, ClientKeepsDrawn DEF DrawnInv, serverVars
  <1>8. CASE CaptureBegins \/ CaptureEnds
    <2>1. /\ client \in {"ready", "captured"} /\ client' \in {"ready", "waiting"}
          /\ response' = <<>>
          /\ UNCHANGED <<screen, c2crtc, found, wire, known>>
      BY <1>8 DEF CaptureBegins, CaptureEnds, serverVars
    <2> QED BY <2>1, NextKeepsInv, ClientKeepsDrawn DEF DrawnInv
  <1>9. CASE Stop
    <2>1. /\ client = "ready" /\ client' = "stopped" /\ response' = <<>>
          /\ UNCHANGED <<screen, serverVars, wire, known>>
      BY <1>9 DEF Stop, StopTo
    <2> QED BY <2>1, NextKeepsInv, ClientKeepsDrawn DEF DrawnInv, serverVars
  <1> QED BY <1>1, <1>2, <1>3, <1>4, <1>5, <1>6, <1>7, <1>8, <1>9 DEF Next

LEMMA DrawnHolds == Spec => []DrawnInv
  BY InitDrawn, NextKeepsDrawn, PTL DEF Spec

(* With right labels the entries of the target's connector are those that     *)
(* show it: the choice by connector finds one if there is one, and a cursor  *)
(* is only drawn with it if it is on the same connector.                    *)
LEMMA ChoiceIsTheTargets == DrawnInv => PictureIsTheTargets
  <1> SUFFICES ASSUME DrawnInv, client = "captured", change = "none"
               PROVE  PictureIsTheTargets
    BY DEF PictureIsTheTargets, CapturesTheTarget, CursorIsOnTheTarget
  <1> DEFINE r == response
             labelled == {k \in Screens(r) : r[k].connector = Target}
             ours == {k \in Screens(r) : r[k].of = Target}
             cursors == {k \in Cursors(r) : r[k].of = Target}
             k0 == ByConnector(r, Target)
  <1>1. Len(r) \in Nat /\ known /\ image = Chosen(r) /\ Labelled(r)
    BY DEF DrawnInv, Inv, TypeOK, TargetIsKnown, ImageIsChosen, LabelsAreRight
  <1>2. Screens(r) \subseteq 1..Len(r) /\ Cursors(r) \subseteq 1..Len(r)
    BY DEF Screens, Cursors
  <1>3. labelled = ours
    BY <1>1, <1>2 DEF Labelled
  <1>4. k0 \in 0..Len(r) /\ (ours # {} => k0 \in ours) /\ (ours = {} => k0 = 0)
    <2>1. k0 = First(ours)
      BY <1>3 DEF ByConnector
    <2>2. ours \subseteq 1..Len(r)
      BY <1>2
    <2> HIDE DEF ours, k0
    <2> QED BY <1>1, <2>1, <2>2, FirstOfSet DEF First
  <1>5. k0 # 0 <=> ours # {}
    BY <1>2, <1>4
  <1>6. r # <<>> => /\ image.combined = (k0 = 0)
                    /\ k0 # 0 => image.plane = k0 /\ image.cursor = CursorFor(r, k0, FALSE)
    BY <1>1 DEF Chosen
  <1>7. CapturesTheTarget
    BY <1>4, <1>5, <1>6 DEF CapturesTheTarget
  <1>8. CursorIsOnTheTarget
    <2> DEFINE c == First(Cursors(r))
    <2> SUFFICES ASSUME image.plane # 0, ~image.combined
                 PROVE  /\ image.cursor # 0 => image.cursor \in cursors
                        /\ cursors # {} /\ cursors = Cursors(r) => image.cursor \in cursors
      BY DEF CursorIsOnTheTarget
    <2>1. r # <<>>
      BY <1>1 DEF Chosen, NoImage
    <2>2. k0 \in ours /\ image.cursor = CursorFor(r, k0, FALSE)
      BY <1>4, <1>5, <1>6, <2>1
    <2>3. r[k0].connector = Target
      BY <1>3, <2>2
    <2>4. c \in 0..Len(r) /\ (Cursors(r) # {} => c \in Cursors(r))
             /\ (Cursors(r) = {} => c = 0)
      BY <1>1, <1>2, FirstOfSet DEF First
    <2> HIDE DEF c
    <2>5. image.cursor = IF c # 0 /\ r[c].connector = Target THEN c ELSE 0
      BY <2>2, <2>3 DEF CursorFor, c
    <2>6. c # 0 => c \in Cursors(r) /\ r[c].connector = r[c].of
      BY <1>1, <1>2, <2>4 DEF Labelled
    <2>7. image.cursor # 0 => image.cursor \in cursors
      BY <2>5, <2>6
    <2>8. cursors # {} /\ cursors = Cursors(r) => image.cursor \in cursors
      <3> SUFFICES ASSUME cursors # {}, cursors = Cursors(r)
                   PROVE  image.cursor \in cursors
        OBVIOUS
      <3>1. c \in cursors
        BY <2>4
      <3>2. c # 0 /\ r[c].of = Target
        BY <1>2, <3>1
      <3> QED BY <2>5, <2>6, <3>1, <3>2
    <2> QED BY <2>7, <2>8
  <1> QED BY <1>7, <1>8 DEF PictureIsTheTargets

(* While the monitors stay as they were when the server made its map, what a *)
(* frame is drawn from, the picture and the cursor over it, is the captured   *)
(* monitor's whenever its plane is in the response; for any planes, any       *)
(* number of monitors, and however many of the descriptors arrive.          *)
THEOREM TargetIsDrawn == Spec => []PictureIsTheTargets
  BY DrawnHolds, ChoiceIsTheTargets, PTL

=============================================================================
