----------------------------- MODULE KmsCapture -----------------------------
(***************************************************************************)
(* The frames of a monitor capture: what gsr-kms-server puts into a          *)
(* response (kms_get_fb, src/kms/server/kms_server.c), how its descriptors   *)
(* get into the client (recv_msg_from_server, src/kms/client/kms_client.c)   *)
(* and what the capture makes of them (src/src/capture/kms_vaapi.c and, with *)
(* the same code, kms_cuda.c): start, tick, capture, capture_end and stop.   *)
(*                                                                         *)
(* KmsProtocol models the connection; here a request is always answered.    *)
(* What moves besides the two programs is the screen, where monitors are     *)
(* given other CRTCs and cursors come and go while the planes are read one   *)
(* after the other, and the client's other threads, which open and close     *)
(* descriptors of the same process.                                         *)
(***************************************************************************)
EXTENDS Naturals, Sequences

CONSTANTS
  Connectors,    \* the connectors of the graphics card
  Crtcs,         \* its CRTCs
  None,          \* no CRTC, no connector
  Target,        \* the connector of the monitor to capture
  Planes,        \* drm.planes: the planes with their CRTC, kind and size
  MaxPlanes,     \* GSR_KMS_MAX_PLANES
  Limit,         \* the client's limit of open descriptors
  FirstServerFd, \* the first descriptor the server has free
  PlanesMayFail, \* BOOLEAN: a plane or its framebuffer may not be readable
  MaxModesets,   \* bound: changes of the monitors
  MaxFrames      \* bound: frames captured

PlaneIds == 1..Len(Planes)

ASSUME KmsCaptureAssumption ==
  /\ Target \in Connectors /\ None \notin Connectors \cup Crtcs
  /\ Planes \in Seq([crtc : Crtcs, cursor : BOOLEAN, size : Nat])
  /\ MaxPlanes \in Nat \ {0} /\ Limit \in Nat /\ FirstServerFd \in Nat \ {0}
  /\ PlanesMayFail \in BOOLEAN
  /\ MaxModesets \in Nat /\ MaxFrames \in Nat

VARIABLES
  crtcOf,    \* the screen: the CRTC of each connector
  shown,     \* the screen: the planes with a framebuffer
  change,    \* history: what has happened to the target's CRTC since the start
  modesets,  \* number of changes
  c2crtc,    \* the server's c2crtc_map
  next,      \* the plane kms_get_fb reads next, 0 when the server waits
  found,     \* the response kms_get_fb fills
  exported,  \* descriptors of framebuffers the server holds
  wire,      \* the response on its way, with a flag that there is one
  client,    \* where the capture is
  known,     \* monitor_id holds the target's connector
  hwFrame,   \* created_hw_frame and what came of it
  prime,     \* the descriptor of the encoder's surface, 0 without one
  response,  \* kms_response, its num_fds first entries
  image,     \* what the frame being encoded was drawn from
  table,     \* what each descriptor of the client is used for
  closedOurs, \* history: close_fds has closed the server's numbers in the client
  frames     \* number of frames

screen     == <<crtcOf, shown, change, modesets>>
serverVars == <<c2crtc, next, found, exported>>
clientVars == <<client, known, hwFrame, prime, response, image, frames>>
vars == <<screen, serverVars, wire, clientVars, table, closedOurs>>

Slots == 1..Limit

(* An entry of the response: fd, connector_id, is_cursor, width * height; and *)
(* as history the connector whose picture it is.                            *)
Entry == [fd : Nat, connector : Connectors \cup {None}, cursor : BOOLEAN,
          size : Nat, of : Connectors \cup {None}]

Image == [plane : 0..MaxPlanes, combined : BOOLEAN, cursor : 0..MaxPlanes]

NoImage == [plane |-> 0, combined |-> FALSE, cursor |-> 0]

TypeOK ==
  /\ crtcOf \in [Connectors -> Crtcs \cup {None}]
  /\ shown \subseteq PlaneIds
  /\ change \in {"none", "moved", "unplugged"} /\ modesets \in 0..MaxModesets
  /\ c2crtc \in [Connectors -> Crtcs \cup {None}]
  /\ next \in 0..(Len(Planes) + 1)
  /\ found \in Seq(Entry) /\ Len(found) <= MaxPlanes
  /\ exported \subseteq Nat
  /\ wire \in [sent : BOOLEAN, fds : Seq(Entry)] /\ Len(wire.fds) <= MaxPlanes
  /\ client \in {"off", "starting", "listed", "failed", "ready", "waiting",
                  "captured", "stopped"}
  /\ known \in BOOLEAN
  /\ hwFrame \in {"none", "ok", "failed"}
  /\ prime \in 0..Limit
  /\ response \in Seq(Entry) /\ Len(response) <= MaxPlanes
  /\ image \in Image
  /\ table \in [Slots -> {"free", "other", "surface", "buffer"}]
  /\ closedOurs \in BOOLEAN
  /\ frames \in 0..MaxFrames

-----------------------------------------------------------------------------
(* The screen. *)

(* No two monitors share a CRTC *)
OneCrtcEach(c) ==
  \A m, n \in Connectors : c[m] = c[n] /\ c[m] # None => m = n

(* What the planes may show: a lit CRTC its screen, a dark one nothing, and a *)
(* cursor is on or off                                                      *)
Pictures(c) ==
  LET lit == {p \in PlaneIds : \E m \in Connectors : c[m] = Planes[p].crtc}
  IN  {lit \ off : off \in SUBSET {p \in lit : Planes[p].cursor}}

(* Bound: the screen changes only while the programs look at it.  Before that *)
(* any initial state is as good, afterwards nobody reads it.                *)
Watched == client \in {"starting", "listed", "ready", "waiting", "captured"}

(* A cursor appears or disappears, or moves to another monitor *)
CursorMoves ==
  /\ Watched
  /\ shown' \in Pictures(crtcOf) /\ shown' # shown
  /\ UNCHANGED <<crtcOf, change, modesets, serverVars, wire, clientVars, table,
                 closedOurs>>

(* Monitors are plugged in, unplugged, or given other CRTCs *)
Modeset ==
  /\ Watched /\ modesets < MaxModesets
  /\ modesets' = modesets + 1
  /\ crtcOf' \in [Connectors -> Crtcs \cup {None}] /\ crtcOf' # crtcOf
  /\ OneCrtcEach(crtcOf')
  /\ shown' \in Pictures(crtcOf')
  /\ change' = IF change = "unplugged" \/ None \in {crtcOf[Target], crtcOf'[Target]}
                 THEN "unplugged" ELSE "moved"
  /\ UNCHANGED <<serverVars, wire, clientVars, table, closedOurs>>

(* The connector whose picture plane p shows *)
Shows(p) ==
  IF \E m \in Connectors : crtcOf[m] = Planes[p].crtc
    THEN CHOOSE m \in Connectors : crtcOf[m] = Planes[p].crtc
    ELSE None

-----------------------------------------------------------------------------
(* The server: kms_get_fb. *)

(* get_connector_pair_by_crtc_id in the map made when the server started *)
ConnectorOf(crtc) ==
  IF \E m \in Connectors : c2crtc[m] = crtc
    THEN CHOOSE m \in Connectors : c2crtc[m] = crtc
    ELSE None

(* mutation: the response's size is not looked at *)
MorePlanesUnbounded == next \in PlaneIds

(* The loop over drm->planes has a plane to look at *)
MorePlanes == next \in PlaneIds /\ Len(found) < MaxPlanes

(* drmPrimeHandleToFD gives the lowest free descriptor of the server, which   *)
(* keeps those of this response open                                        *)
NewFd == FirstServerFd + Len(found)

(* The next plane has a framebuffer and it is exported *)
ServerFindsPlane ==
  /\ MorePlanes /\ next \in shown
  /\ LET plane == Planes[next]
     IN  found' = Append(found,
           [fd |-> NewFd, connector |-> ConnectorOf(plane.crtc),
            cursor |-> plane.cursor, size |-> plane.size, of |-> Shows(next)])
  /\ exported' = exported \cup {NewFd}
  /\ next' = next + 1
  /\ UNCHANGED <<screen, c2crtc, wire, clientVars, table, closedOurs>>

(* It has none, or one of the calls fails: the plane is left out.  The result *)
(* is an error only if no plane is left, and the client merely prints it.    *)
ServerSkipsPlane ==
  /\ MorePlanes /\ (next \notin shown \/ PlanesMayFail)
  /\ next' = next + 1
  /\ UNCHANGED <<screen, c2crtc, found, exported, wire, clientVars, table,
                 closedOurs>>

(* mutation: an error is not answered *)
ServerRespondsToSuccess ==
  /\ next # 0 /\ ~MorePlanes
  /\ wire' = [sent |-> found # <<>>, fds |-> found]
  /\ exported' = exported \ {found[k].fd : k \in 1..Len(found)}
  /\ found' = <<>> /\ next' = 0
  /\ UNCHANGED <<screen, c2crtc, clientVars, table, closedOurs>>

(* send_msg_to_client, then the server closes its copies.  A response without *)
(* planes is sent as well.                                                  *)
ServerResponds ==
  /\ next # 0 /\ ~MorePlanes
  /\ wire' = [sent |-> TRUE, fds |-> found]
  /\ exported' = exported \ {found[k].fd : k \in 1..Len(found)}
  /\ found' = <<>> /\ next' = 0
  /\ UNCHANGED <<screen, c2crtc, clientVars, table, closedOurs>>

-----------------------------------------------------------------------------
(* The client's descriptors. *)

Free == {d \in Slots : table[d] = "free"}

(* The kernel hands out the lowest free number *)
Lowest(d) == d \in Free /\ \A e \in Free : d <= e

(* The descriptors of the framebuffers in a response *)
FdsOf(r) == {r[k].fd : k \in 1..Len(r)} \ {0}

(* close: whatever the numbers in s stand for is closed *)
Closed(s) == [d \in Slots |-> IF d \in s THEN "free" ELSE table[d]]

(* Another thread opens a file or a socket, or closes one *)
OtherOpens ==
  /\ \E d \in Slots : Lowest(d) /\ table' = [table EXCEPT ![d] = "other"]
  /\ UNCHANGED <<screen, serverVars, wire, clientVars, closedOurs>>

OtherCloses ==
  /\ \E d \in Slots : table[d] = "other" /\ table' = Closed({d})
  /\ UNCHANGED <<screen, serverVars, wire, clientVars, closedOurs>>

-----------------------------------------------------------------------------
(* The capture's choice of planes. *)

(* The first of the entries in s, 0 if there is none *)
First(s) == IF s = {} THEN 0 ELSE CHOOSE k \in s : \A j \in s : k <= j

Screens(r) == {k \in 1..Len(r) : ~r[k].cursor}
Cursors(r) == {k \in 1..Len(r) : r[k].cursor}

(* find_drm_by_connector_id: the server never reports a combined plane *)
ByConnector(r, m) == First({k \in Screens(r) : r[k].connector = m})

(* find_largest_drm: the first of the largest, the first entry if there are  *)
(* only cursors                                                             *)
Largest(r) ==
  IF Screens(r) = {} THEN 1
  ELSE First({k \in Screens(r) :
                \A j \in Screens(r) : r[j].size <= r[k].size})

(* mutation: the connector of the cursor is not compared *)
CursorForAny(r, k, combined) == First(Cursors(r))

(* The cursor that goes with plane k: any after the fallback, otherwise only  *)
(* one of the same connector                                                *)
CursorFor(r, k, combined) ==
  LET c == First(Cursors(r))
  IN  IF c # 0 /\ (combined \/ r[c].connector = r[k].connector) THEN c ELSE 0

(* find_first_combined_drm finds nothing either; capture_is_combined_plane is *)
(* set all the same                                                         *)
Chosen(r) ==
  LET k == IF known THEN ByConnector(r, Target) ELSE 0
      plane == IF k = 0 THEN Largest(r) ELSE k
  IN  IF r = <<>> THEN NoImage
      ELSE [plane |-> plane, combined |-> k = 0,
            cursor |-> CursorFor(r, plane, k = 0)]

-----------------------------------------------------------------------------
(* The capture. *)

(* gsr_kms_client_init, as far as frames go: the server makes its map before  *)
(* it connects                                                              *)
StartServer ==
  /\ client = "off"
  /\ client' = "starting"
  /\ c2crtc' = crtcOf /\ change' = "none"
  /\ UNCHANGED <<crtcOf, shown, modesets, next, found, exported, wire, known,
                 hwFrame, prime, response, image, frames, table, closedOurs>>

(* gsr_capture_kms_vaapi_stop: the surface and the planes of the last frame   *)
StopTo(to) ==
  /\ client' = to
  /\ table' = Closed({prime} \cup FdsOf(response))
  /\ prime' = 0 /\ response' = <<>>
  /\ UNCHANGED <<screen, serverVars, wire, known, hwFrame, image, frames,
                 closedOurs>>

(* for_each_active_monitor_output: the connector of the monitor with the name *)
(* asked for, if it is on                                                   *)
ListConnectors ==
  /\ client = "starting"
  /\ client' = "listed"
  /\ known' = (crtcOf[Target] # None)
  /\ UNCHANGED <<screen, serverVars, wire, hwFrame, prime, response, image,
                 frames, table, closedOurs>>

(* get_monitor_by_name, a second look at the monitors, for its size; then the *)
(* device and its frames are made (drm_create_codec_context, or gsr_cuda_load *)
(* and cuda_create_codec_context), which may fail                           *)
FindMonitor ==
  /\ client = "listed"
  /\ \/ /\ crtcOf[Target] # None
        /\ client' = "ready"
        /\ UNCHANGED <<screen, serverVars, wire, known, hwFrame, prime,
                       response, image, frames, table, closedOurs>>
     \/ StopTo("failed")

(* vaExportSurfaceHandle *)
SurfaceExported ==
  \E d \in Slots :
    /\ Lowest(d)
    /\ prime' = d /\ table' = [table EXCEPT ![d] = "surface"]

(* The tick, the first time: kms_vaapi exports the encoder's surface and      *)
(* binds it to textures, kms_cuda makes a texture that is copied for each    *)
(* frame                                                                    *)
Tick ==
  /\ client = "ready" /\ hwFrame = "none"
  /\ hwFrame' = "ok"
  /\ \/ UNCHANGED <<prime, table>>
     \/ SurfaceExported
  /\ UNCHANGED <<screen, serverVars, wire, client, known, response, image,
                 frames, closedOurs>>

(* Something fails before or after the surface is exported: should_stop *)
TickFails ==
  /\ client = "ready" /\ hwFrame = "none"
  /\ hwFrame' = "failed"
  /\ \/ UNCHANGED <<prime, table>>
     \/ SurfaceExported
  /\ UNCHANGED <<screen, serverVars, wire, client, known, response, image,
                 frames, closedOurs>>

(* A frame is due: what is left of the one before is closed and the server   *)
(* asked                                                                   *)
CaptureBegins ==
  /\ client = "ready" /\ hwFrame = "ok" /\ frames < MaxFrames
  /\ client' = "waiting" /\ frames' = frames + 1
  /\ table' = Closed(FdsOf(response))
  /\ response' = <<>>
  /\ next' = 1
  /\ UNCHANGED <<screen, c2crtc, found, exported, wire, known, hwFrame, prime,
                 image, closedOurs>>

(* recvmsg installs the first n framebuffers, as many as there is room for,   *)
(* at the lowest free numbers f; the other entries get 0.                    *)
Install(n, f) ==
  /\ \A j, k \in 1..n : j < k => f[j] < f[k]
  /\ \A d \in Free : n < Len(wire.fds) \/ (\E k \in 1..n : d <= f[k]) =>
       \E k \in 1..n : f[k] = d

Received(n, f) ==
  [k \in 1..Len(wire.fds) |->
     [wire.fds[k] EXCEPT !.fd = IF k <= n THEN f[k] ELSE 0]]

(* mutation: the numbers in the response are closed before they are replaced *)
TablesAfterClosing(n, f) ==
  [d \in Slots |-> IF d \in {f[k] : k \in 1..n} THEN "buffer"
                   ELSE IF d \in FdsOf(wire.fds) THEN "free" ELSE table[d]]

(* Without room for any there is no control message, and recv_msg_from_server *)
(* has close_fds close the numbers in the response, which are the server's  *)
TablesAfter(n, f) ==
  IF n = 0 THEN Closed(FdsOf(wire.fds))
  ELSE [d \in Slots |-> IF d \in {f[k] : k \in 1..n} THEN "buffer" ELSE table[d]]

(* The response arrives and a plane is chosen and drawn, with its cursor.    *)
(* Without planes the capture fails, which nobody looks at.                  *)
CaptureReceives ==
  /\ client = "waiting" /\ wire.sent
  /\ \E n \in 0..Len(wire.fds) : \E f \in [1..n -> Free] :
       /\ Install(n, f)
       /\ response' = Received(n, f)
       /\ table' = TablesAfter(n, f)
       /\ closedOurs' = (closedOurs \/ (n = 0 /\ wire.fds # <<>>))
  /\ client' = "captured"
  /\ image' = Chosen(response')
  /\ wire' = [sent |-> FALSE, fds |-> <<>>]
  /\ UNCHANGED <<screen, serverVars, known, hwFrame, prime, frames>>

(* mutation: a frame taken from another monitor is not ended *)
CaptureEndsOfTarget ==
  /\ client = "captured"
  /\ client' = "ready" /\ image' = NoImage
  /\ IF image.combined THEN UNCHANGED <<table, response>>
     ELSE table' = Closed(FdsOf(response)) /\ response' = <<>>
  /\ UNCHANGED <<screen, serverVars, wire, known, hwFrame, prime, frames,
                 closedOurs>>

(* gsr_capture_end, after the frame has been encoded *)
CaptureEnds ==
  /\ client = "captured"
  /\ client' = "ready" /\ image' = NoImage
  /\ table' = Closed(FdsOf(response))
  /\ response' = <<>>
  /\ UNCHANGED <<screen, serverVars, wire, known, hwFrame, prime, frames,
                 closedOurs>>

(* The main loop has ended, by a signal or should_stop: gsr_capture_destroy *)
Stop ==
  /\ client = "ready"
  /\ StopTo("stopped")

-----------------------------------------------------------------------------
Init ==
  /\ crtcOf \in [Connectors -> Crtcs \cup {None}] /\ OneCrtcEach(crtcOf)
  /\ shown \in Pictures(crtcOf)
  /\ change = "none" /\ modesets = 0
  /\ c2crtc = [m \in Connectors |-> None]
  /\ next = 0 /\ found = <<>> /\ exported = {}
  /\ wire = [sent |-> FALSE, fds |-> <<>>]
  /\ client = "off" /\ known = FALSE /\ hwFrame = "none" /\ prime = 0
  /\ response = <<>> /\ image = NoImage /\ frames = 0
  /\ table = [d \in Slots |-> "free"] /\ closedOurs = FALSE

Server == ServerFindsPlane \/ ServerSkipsPlane \/ ServerResponds

Capture == CaptureReceives \/ CaptureEnds

Next ==
  \/ CursorMoves \/ Modeset
  \/ ServerFindsPlane \/ ServerSkipsPlane \/ ServerResponds
  \/ OtherOpens \/ OtherCloses
  \/ StartServer \/ ListConnectors \/ FindMonitor \/ Tick \/ TickFails
  \/ CaptureBegins \/ CaptureReceives \/ CaptureEnds \/ Stop

Spec == Init /\ [][Next]_vars

(* The server and the main thread go on; neither the user, nor the screen or  *)
(* the other threads have to.                                               *)
FairSpec == Spec /\ WF_vars(Server) /\ WF_vars(Capture)

-----------------------------------------------------------------------------
(* Between frames the client holds no framebuffer, during a frame exactly   *)
(* those of the response, no two entries the same one; once the capture has  *)
(* stopped nothing of it is left; and the server holds framebuffers only     *)
(* while it fills a response.  Violated by a frame that is not closed on one *)
(* of the paths through capture, capture_end and stop, or closed twice.      *)
NothingLeaks ==
  /\ {d \in Slots : table[d] = "buffer"} = FdsOf(response)
  /\ \A j, k \in 1..Len(response) :
       response[j].fd = response[k].fd /\ response[j].fd # 0 => j = k
  /\ client # "captured" => response = <<>>
  /\ client \in {"stopped", "failed"} =>
       \A d \in Slots : table[d] \in {"free", "other"}
  /\ next = 0 => exported = {}

(* The capture closes no descriptor of another thread's (an audio            *)
(* connection, the output file, a replay being saved), as long as there was  *)
(* room for a framebuffer each time some were received: without room         *)
(* recv_msg_from_server closes the server's numbers in the client.           *)
OthersKeepTheirs ==
  [][client' # client /\ ~closedOurs' =>
       \A d \in Slots : table[d] = "other" => table'[d] = "other"]_vars

(* While the monitors stay as they were when the server made its map of      *)
(* connectors, a plane taken by its connector shows the target and is no      *)
(* cursor, and it is taken if it is in the response (kms_vaapi.c, the choice  *)
(* of drm_fd).                                                              *)
CapturesTheTarget ==
  client = "captured" /\ change = "none" /\ response # <<>> =>
    LET ours == {k \in Screens(response) : response[k].of = Target}
    IN  IF ours = {} THEN image.combined ELSE image.plane \in ours

(* Under the same condition the cursor drawn over the target is one on the    *)
(* target, and it is drawn if no other monitor's is in the response.         *)
CursorIsOnTheTarget ==
  client = "captured" /\ change = "none" /\ image.plane # 0 /\ ~image.combined =>
    LET ours == {k \in Cursors(response) : response[k].of = Target}
    IN  /\ image.cursor # 0 => image.cursor \in ours
        /\ ours # {} /\ ours = Cursors(response) => image.cursor \in ours

(* Both: what is drawn, picture and cursor, is the target's.                  *)
PictureIsTheTargets == CapturesTheTarget /\ CursorIsOnTheTarget

(* A frame that is begun ends, with planes or without, so that the main loop  *)
(* comes to look at running again.                                          *)
FrameEnds == client = "waiting" ~> client = "ready"

(* "Will never happen on wayland unless the target monitor has been           *)
(* disconnected" (src/src/capture/kms_vaapi.c:493, kms_cuda.c:494), of the     *)
(* fallback to the largest plane of any monitor.                             *)
FallbackMeansDisconnected ==
  client = "captured" /\ image.combined => change = "unplugged"

=============================================================================
