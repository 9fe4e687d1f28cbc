----------------------------- MODULE KmsProtocol -----------------------------
(***************************************************************************)
(* The connection between gpu-screen-recorder and gsr-kms-server:           *)
(* gsr_kms_client_init/get_kms/deinit (src/kms/client/kms_client.c) against *)
(* the main function of the server (src/kms/server/kms_server.c).           *)
(*                                                                         *)
(* The client listens on a socket file, starts the server, accepts its      *)
(* connection, hands it one end of a socketpair over that connection,       *)
(* removes the file, and from then on asks for the planes of the screen     *)
(* over the pair, one request per captured frame.                           *)
(*                                                                         *)
(* What decides whether an end of a connection reads end-of-file is which   *)
(* process still holds a descriptor of the other end, so the descriptors of *)
(* each process are state.  Descriptors are inherited over fork and exec    *)
(* (no close-on-exec flag is set anywhere); pkexec closes all but the       *)
(* standard ones, and the server it starts runs as root, out of reach of    *)
(* the client's kill; before that it asks the user for a password, which    *)
(* nobody has to type.  The script that is run when a replay has been saved  *)
(* inherits the client's descriptors too.                                  *)
(***************************************************************************)
EXTENDS Naturals, Sequences

CONSTANTS
  ExecModes,      \* how the server may be started: "direct" and/or "pkexec"
  Versions,       \* whether both programs speak the same protocol version
  ServerMayDie,   \* BOOLEAN: the server may be killed at any time
  ClientMayExit,  \* BOOLEAN: the client may leave without gsr_kms_client_deinit
  Interrupts,     \* where SIGINT comes from: "kill" and/or "terminal"
  MaxFrames       \* bound: frames captured

ASSUME KmsAssumption ==
  /\ ExecModes \subseteq {"direct", "pkexec"} /\ ExecModes # {}
  /\ Versions \subseteq BOOLEAN /\ Versions # {}
  /\ ServerMayDie \in BOOLEAN /\ ClientMayExit \in BOOLEAN
  /\ Interrupts \subseteq {"kill", "terminal"}
  /\ MaxFrames \in Nat

(* L, R: the socketpair's LOCAL and REMOTE ends.  C, S: the client's and the *)
(* server's end of the connection made through the socket file.             *)
Ends == {"L", "R", "C", "S"}

Peer == [L |-> "R", R |-> "L", C |-> "S", S |-> "C"]

Fds == Ends \cup {"listen"}

Messages == {"replace", "get_kms", "ok", "planes", "error"}

VARIABLES
  mode,      \* how the server was started
  same,      \* the two programs' protocol versions agree
  client,    \* where the client is
  server,    \* where the server is
  cfds,      \* descriptors the client holds
  sfds,      \* descriptors the server holds
  kfds,      \* descriptors scripts have inherited from the client
  sock,      \* the server's socket_fd
  backlog,   \* the server's connection waits to be accepted
  path,      \* the socket file exists
  queue,     \* what is still to be read at each end
  reply,     \* the response the server is about to send
  frames,    \* frames whose capture has begun
  running    \* the main loop's flag, cleared by SIGINT

vars == <<mode, same, client, server, cfds, sfds, kfds, sock, backlog, path,
          queue, reply, frames, running>>

setup      == <<mode, same>>
clientVars == <<client, frames, running>>
serverVars == <<server, sock, reply>>

ClientGone == {"failed", "ended", "exited"}
ServerGone == {"none", "exited"}
Waiting    == {"recvReplace", "recvKms"}

ServerAlive == server \notin ServerGone

TypeOK ==
  /\ mode \in ExecModes /\ same \in Versions
  /\ client \in {"start", "accepting", "sendReplace", "ready"}
                  \cup Waiting \cup ClientGone
  /\ server \in {"prompt", "starting", "connecting", "connected", "serving",
                  "answer"} \cup ServerGone
  /\ cfds \subseteq Fds /\ sfds \subseteq Fds /\ kfds \subseteq Fds
  /\ sock \in {"S", "R"}
  /\ backlog \in BOOLEAN /\ path \in BOOLEAN
  /\ queue \in [Ends -> Seq(Messages)]
  /\ reply \in Messages
  /\ frames \in 0..MaxFrames
  /\ running \in BOOLEAN

-----------------------------------------------------------------------------
(* The kernel's side. *)

(* Some process, or a message on its way, holds the end e. *)
Held(e) ==
  \/ e \in cfds \cup sfds \cup kfds
  \/ e = "C" /\ backlog
  \/ e = "R" /\ \E i \in 1..Len(queue["S"]) : queue["S"][i] = "replace"

(* The queues, given who holds what: the unread messages of an end nobody    *)
(* holds are destroyed, with the descriptors they carry.                    *)
Unread(held) == [e \in Ends |-> IF e \in held THEN queue[e] ELSE <<>>]

(* The descriptors of the two processes become c and s.  A connection that   *)
(* waits to be accepted goes with the listening socket, not with its maker. *)
Close(c, s) ==
  /\ cfds' = c /\ sfds' = s
  /\ backlog' = (backlog /\ "listen" \in c \cup s)
  /\ queue' = Unread(c \cup s \cup kfds)

(* A message sent into end e arrives at its peer. *)
Send(e, m) == queue' = [queue EXCEPT ![Peer[e]] = Append(@, m)]

(* What is left of an end's queue once its first message has been read. *)
Rest(e) == [queue EXCEPT ![e] = Tail(@)]

-----------------------------------------------------------------------------
(* The client. *)

(* Descriptors the new server process starts with. *)
Inherited(m) == IF m = "direct" THEN {"listen", "L", "R"} ELSE {}

(* socketpair, socket, bind, listen, fork and exec: of the server, or of      *)
(* pkexec, which asks for a password first                                  *)
ClientFork ==
  /\ client = "start"
  /\ client' = "accepting"
  /\ server' = IF mode = "pkexec" THEN "prompt" ELSE "starting"
  /\ cfds' = {"listen", "L", "R"}
  /\ sfds' = Inherited(mode)
  /\ path' = TRUE
  /\ UNCHANGED <<setup, kfds, sock, backlog, queue, reply, frames, running>>

(* select reports a connection: accept *)
ClientAccept ==
  /\ client = "accepting" /\ backlog
  /\ client' = "sendReplace"
  /\ cfds' = cfds \cup {"C"}
  /\ backlog' = FALSE
  /\ UNCHANGED <<setup, kfds, sfds, path, queue, frames, running, serverVars>>

(* mutation: deinit sends no signal *)
KilledNever == server

(* gsr_kms_client_deinit: everything is closed, the server is sent SIGKILL   *)
(* (which a server started through pkexec does not get), the file removed.  *)
Killed == IF mode = "direct" /\ server # "none" THEN "exited" ELSE server

Deinit(to) ==
  /\ client' = to
  /\ server' = Killed
  /\ Close({}, IF Killed = "exited" THEN {} ELSE sfds)
  /\ path' = FALSE
  /\ UNCHANGED <<setup, kfds, sock, reply, frames, running>>

(* One of the steps before the server runs fails *)
ClientSetupFails ==
  /\ client = "start"
  /\ Deinit("failed")

(* accept fails *)
ClientAcceptFails ==
  /\ client = "accepting" /\ backlog
  /\ Deinit("failed")

(* select timed out and waitpid finds the server gone: initialisation fails *)
ClientNoticesDeath ==
  /\ client = "accepting" /\ server = "exited"
  /\ Deinit("failed")

(* The process ends by a signal, or by _exit during the program's setup *)
ClientGoes ==
  /\ client' = "exited"
  /\ Close({}, sfds)
  /\ UNCHANGED <<setup, kfds, path, frames, running, serverVars>>

(* mutation: the cleanup is done as soon as the request is sent *)
ClientSendsAndCleansUp ==
  /\ client = "sendReplace"
  /\ IF Held("S")
       THEN /\ client' = "recvReplace"
            /\ Send("C", "replace")
            /\ path' = FALSE
            /\ UNCHANGED <<setup, kfds, cfds, sfds, backlog, frames, running,
                           serverVars>>
       ELSE ClientGoes

(* gsr_kms_client_replace_connection: the request carries the remote end.    *)
(* Sending to a connection the server has left raises SIGPIPE.              *)
ClientSendReplace ==
  /\ client = "sendReplace"
  /\ IF Held("S")
       THEN /\ client' = "recvReplace"
            /\ Send("C", "replace")
            /\ UNCHANGED <<setup, kfds, cfds, sfds, backlog, path, frames, running,
                           serverVars>>
       ELSE ClientGoes

(* recvmsg returns: a response, after which cleanup_socket(self, false), or   *)
(* 0 when the other end of the pair is closed everywhere.                   *)
Receives == queue["L"] # <<>> \/ ~Held("R")

ClientHandsOver ==
  /\ client = "recvReplace" /\ Receives
  /\ IF queue["L"] = <<>>
       THEN Deinit("failed")
       ELSE /\ client' = "ready"
            /\ path' = FALSE
            /\ cfds' = cfds \ {"C", "listen"}
            /\ backlog' = FALSE
            /\ queue' = [Rest("L") EXCEPT !["C"] = <<>>]
            /\ UNCHANGED <<setup, kfds, sfds, frames, running, serverVars>>

(* mutation: the response is left for the next frame to read *)
ClientGetKmsNoWait ==
  /\ client = "ready" /\ running /\ frames < MaxFrames
  /\ client' = IF Len(queue["R"]) = 0 THEN "ready" ELSE "recvKms"
  /\ Send("L", "get_kms")
  /\ frames' = frames + 1
  /\ UNCHANGED <<setup, kfds, cfds, sfds, backlog, path, running, serverVars>>

(* gsr_kms_client_get_kms sends its request and waits for the response.      *)
(* The client itself holds the remote end, so the send cannot fail.         *)
ClientGetKms ==
  /\ client = "ready" /\ running /\ frames < MaxFrames
  /\ client' = "recvKms"
  /\ Send("L", "get_kms")
  /\ frames' = frames + 1
  /\ UNCHANGED <<setup, kfds, cfds, sfds, backlog, path, running, serverVars>>

ClientGotKms ==
  /\ client = "recvKms" /\ Receives
  /\ client' = "ready"
  /\ queue' = IF queue["L"] = <<>> THEN queue ELSE Rest("L")
  /\ UNCHANGED <<setup, kfds, cfds, sfds, backlog, path, frames, running, serverVars>>

(* The main loop has left: gsr_capture_destroy, gsr_kms_client_deinit *)
ClientEnds ==
  /\ client = "ready" /\ ~running
  /\ Deinit("ended")

(* SIGINT: the handler clears the flag.  The waits above do not look at it:  *)
(* select is interrupted and retried, recvmsg is restarted.  Typed at a      *)
(* terminal the signal also goes to the server, which shares the process     *)
(* group and does not handle it.                                            *)
Interrupt(from) ==
  /\ running /\ client \notin ClientGone \cup {"start"}
  /\ running' = FALSE
  /\ IF from = "terminal" /\ ServerAlive
       THEN server' = "exited" /\ Close(cfds, {})
       ELSE UNCHANGED <<server, cfds, sfds, backlog, queue>>
  /\ UNCHANGED <<setup, kfds, client, path, frames, sock, reply>>

(* A replay has been saved: its script is started, with what the client has   *)
(* open.  How long it runs is its own affair.                               *)
ScriptStarts ==
  /\ client = "ready" /\ kfds = {}
  /\ kfds' = cfds
  /\ UNCHANGED <<setup, cfds, sfds, backlog, path, queue, clientVars, serverVars>>

ScriptEnds ==
  /\ kfds # {}
  /\ kfds' = {}
  /\ queue' = Unread(cfds \cup sfds)
  /\ UNCHANGED <<setup, cfds, sfds, backlog, path, clientVars, serverVars>>

(* _exit during setup, or a crash *)
ClientExits ==
  /\ ClientMayExit /\ client \notin ClientGone \cup {"start"}
  /\ ClientGoes

-----------------------------------------------------------------------------
(* The server. *)

ServerExits ==
  /\ server' = "exited"
  /\ Close(cfds, {})
  /\ UNCHANGED <<setup, kfds, path, sock, reply, clientVars>>

(* The user types the password, and the server runs *)
PromptAnswered ==
  /\ server = "prompt"
  /\ server' = "starting"
  /\ UNCHANGED <<setup, kfds, cfds, sfds, sock, backlog, path, queue, reply, clientVars>>

(* pkexec ends without having started it *)
PromptRefused ==
  /\ server = "prompt"
  /\ ServerExits

(* The card is open and its planes are known: start connecting *)
ServerStarts ==
  /\ server = "starting"
  /\ server' = "connecting"
  /\ UNCHANGED <<setup, kfds, cfds, sfds, sock, backlog, path, queue, reply, clientVars>>

(* The card cannot be opened *)
ServerFailsToStart ==
  /\ server = "starting"
  /\ ServerExits

Listening == path /\ "listen" \in cfds \cup sfds

(* connect succeeds; the loop sleeps and connects once more *)
ServerConnect ==
  /\ server = "connecting" /\ Listening
  /\ server' = "connected"
  /\ sfds' = sfds \cup {"S"}
  /\ backlog' = TRUE
  /\ UNCHANGED <<setup, kfds, cfds, sock, path, queue, reply, clientVars>>

(* the second connect fails with EISCONN, which ends the loop *)
ServerIsConnected ==
  /\ server = "connected" /\ Listening
  /\ server' = "serving"
  /\ UNCHANGED <<setup, kfds, cfds, sfds, sock, backlog, path, queue, reply, clientVars>>

(* No client to connect to within five seconds.  A client that listens all   *)
(* that time is found.                                                      *)
ServerGivesUp ==
  /\ server \in {"connecting", "connected"} /\ ~Listening
  /\ ServerExits

(* mutation: the result of the response is not set *)
AnswerInvalid(m) == {"invalid"}

(* What a request makes of the server: the reply it will send *)
AnswerTo(m) == IF m = "replace" THEN {"ok"} ELSE {"planes", "error"}

(* A request of another version is dropped, its descriptor left open *)
ServerDrops ==
  /\ server = "serving" /\ queue[sock] # <<>> /\ ~same
  /\ queue' = Rest(sock)
  /\ sfds' = IF Head(queue[sock]) = "replace" THEN sfds \cup {"R"} ELSE sfds
  /\ UNCHANGED <<setup, kfds, cfds, backlog, path, serverVars, clientVars>>

(* REPLACE_CONNECTION: close the connection, go on with the descriptor *)
ServerReplaces ==
  /\ server = "serving" /\ same
  /\ queue[sock] # <<>> /\ Head(queue[sock]) = "replace"
  /\ server' = "answer"
  /\ sock' = "R"
  /\ sfds' = (sfds \ {sock}) \cup {"R"}
  /\ queue' = [Rest(sock) EXCEPT ![sock] = <<>>]
  /\ reply' \in AnswerTo("replace")
  /\ UNCHANGED <<setup, kfds, cfds, backlog, path, clientVars>>

(* GET_KMS: kms_get_fb collects the planes, or fails *)
ServerGetsFb ==
  /\ server = "serving" /\ same
  /\ queue[sock] # <<>> /\ Head(queue[sock]) = "get_kms"
  /\ server' = "answer"
  /\ queue' = Rest(sock)
  /\ reply' \in AnswerTo("get_kms")
  /\ UNCHANGED <<setup, kfds, sock, cfds, sfds, backlog, path, clientVars>>

(* mutation: a failed kms_get_fb is not answered *)
ServerAnswersPlanes ==
  /\ server = "answer"
  /\ IF Held(Peer[sock])
       THEN /\ server' = "serving"
            /\ IF reply = "error" THEN UNCHANGED queue ELSE Send(sock, reply)
            /\ UNCHANGED <<setup, kfds, sock, reply, cfds, sfds, backlog, path, clientVars>>
       ELSE ServerExits

(* The send of the response; a client that has gone makes it a SIGPIPE *)
ServerAnswers ==
  /\ server = "answer"
  /\ IF Held(Peer[sock])
       THEN /\ server' = "serving"
            /\ Send(sock, reply)
            /\ UNCHANGED <<setup, kfds, sock, reply, cfds, sfds, backlog, path, clientVars>>
       ELSE ServerExits

(* mutation: end-of-file is treated like a request that could not be read *)
ServerRetries ==
  server = "serving" /\ queue[sock] = <<>> /\ UNCHANGED vars

(* recvmsg returns 0: the client's end is closed everywhere *)
ServerShutsDown ==
  /\ server = "serving" /\ queue[sock] = <<>> /\ ~Held(Peer[sock])
  /\ ServerExits

ServerDies ==
  /\ ServerMayDie /\ ServerAlive
  /\ ServerExits

-----------------------------------------------------------------------------
Init ==
  /\ mode \in ExecModes /\ same \in Versions
  /\ client = "start" /\ server = "none"
  /\ cfds = {} /\ sfds = {} /\ kfds = {}
  /\ sock = "S"
  /\ backlog = FALSE /\ path = FALSE
  /\ queue = [e \in Ends |-> <<>>]
  /\ reply = "ok"
  /\ frames = 0
  /\ running = TRUE

ClientSteps ==
  \/ ClientFork \/ ClientSetupFails \/ ClientAccept \/ ClientAcceptFails
  \/ ClientNoticesDeath \/ ClientSendReplace \/ ClientHandsOver \/ ClientGotKms
  \/ ClientEnds

ServerSteps ==
  \/ ServerStarts \/ ServerConnect \/ ServerIsConnected \/ ServerGivesUp
  \/ ServerDrops \/ ServerReplaces \/ ServerGetsFb \/ ServerAnswers
  \/ ServerShutsDown

Prompt == PromptAnswered \/ PromptRefused

Script == ScriptStarts \/ ScriptEnds

Next ==
  \/ ClientSteps \/ ClientGetKms \/ (\E from \in Interrupts : Interrupt(from)) \/ ClientExits
  \/ ServerSteps \/ ServerFailsToStart \/ ServerDies
  \/ Prompt \/ Script

Spec == Init /\ [][Next]_vars

(* Both programs go on while they can.  When the next frame is captured, a   *)
(* signal arrives, a script starts or ends or a process dies is left open,   *)
(* and so is whether the user ever answers the password prompt.             *)
FairSpec == Spec /\ WF_vars(ClientSteps) /\ WF_vars(ServerSteps)

-----------------------------------------------------------------------------
(* Properties *)

(* A response can only be the answer to the request the client waits for:    *)
(* there is at most one request or response under way, of the kind the       *)
(* client expects, and none when it does not wait.  The client reads         *)
(* whatever comes as the response to its last request (kms_client.c:392).   *)
UnderWay == Len(queue["L"]) + Len(queue["R"]) + Len(queue["S"]) + Len(queue["C"])

RequestsAlternate ==
  LET pending == UnderWay + (IF server = "answer" THEN 1 ELSE 0)
  IN /\ pending <= 1
     /\ client \in {"start", "accepting", "sendReplace", "ready"} => pending = 0
     /\ client = "recvReplace" => queue["L"] \in {<<>>, <<"ok">>}
     /\ client = "recvKms" =>
          queue["L"] \in {<<>>, <<"planes">>, <<"error">>}

(* The socket file stays as long as the server may still need it to find the *)
(* client (it connects a second time to learn that the first attempt         *)
(* succeeded), and is gone before the first frame: nothing else can connect. *)
HandOverIsOrdered ==
  /\ server \in {"connecting", "connected"} /\ client \notin ClientGone => path
  /\ client \in {"ready", "recvKms"} =>
       /\ ~path /\ ~backlog /\ cfds = {"L", "R"}
       /\ ServerAlive => sock = "R" /\ "S" \notin sfds

(* No client that has failed or ended in order leaves its socket file or a   *)
(* server it was able to kill behind (gsr_kms_client_deinit), whichever step *)
(* of the initialisation has failed.                                        *)
DeinitLeavesNothing ==
  client \in {"failed", "ended"} =>
    ~path /\ cfds = {} /\ (mode = "direct" => server \in ServerGone)

(* The one wait that does not end: the server will not answer, because it is *)
(* gone or drops requests of another version, and the client cannot notice,  *)
(* because it holds the remote end of the pair itself (kms_client.c:407).   *)
Stuck ==
  client \in Waiting /\ queue["L"] = <<>> /\ (server = "exited" \/ ~same)

(* Once the password prompt, if there is one, has been answered, accepted or *)
(* not, initialisation ends, whichever process is killed and whatever fails, *)
(* unless the client gets stuck.  Nothing ends an unanswered prompt: the     *)
(* loop around select looks neither at a clock nor at running               *)
(* (kms_client.c:273).                                                      *)
InitReturns ==
  client = "accepting" /\ server # "prompt"
    ~> client \in {"ready"} \cup ClientGone \/ Stuck

(* Every request for planes is answered, also when kms_get_fb fails, unless  *)
(* the client gets stuck.                                                   *)
GetKmsReturns == client = "recvKms" ~> client # "recvKms" \/ Stuck

(* Both: the only waits that do not end are for the user and the one Stuck   *)
(* names.                                                                   *)
WaitsEnd == InitReturns /\ GetKmsReturns

(* SIGINT ends the program at any point of the exchange (usage text,         *)
(* main.cpp:874), unless the client gets stuck or waits for the user to      *)
(* answer the password prompt, where it does not look at the flag.          *)
StopEndsClient ==
  ~running /\ server # "prompt" ~> client \in ClientGone \/ Stuck

(* The server does not outlive its client (kms_server.c:479), however the    *)
(* client ends if the server was started by pkexec, and after                *)
(* gsr_kms_client_deinit if it was started directly.  A script that has      *)
(* inherited the client's end of the pair keeps the server waiting for it,  *)
(* and a prompt nobody answers stays.                                       *)
ServerFollowsClient ==
  client \in ClientGone /\ (mode = "pkexec" \/ client # "exited")
    ~> server \in ServerGone \cup {"prompt"} \/ kfds # {}

(* Both: neither program is left behind by the end of the other or by SIGINT.  *)
ProgramsEnd == StopEndsClient /\ ServerFollowsClient

(* A client that waits for a server that is gone learns it: recvmsg returns  *)
(* 0, "kms server shut down" (kms_client.c:376, 409).                       *)
ServerDeathIsNoticed ==
  client \in Waiting /\ server = "exited" ~> client \notin Waiting

=============================================================================
