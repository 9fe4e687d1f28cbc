-------------------------- MODULE KmsProtocolProofs --------------------------
(***************************************************************************)
(* Proofs about KmsProtocol, for either way to start the server, either     *)
(* pair of versions, with or without processes dying, and any number of     *)
(* frames: type correctness, the alternation of requests and responses, the *)
(* order of the hand-over, and what initialisation and deinit leave.        *)
(***************************************************************************)
EXTENDS KmsProtocol, TLAPS

-----------------------------------------------------------------------------
(* Sequences of at most one message. *)

LEMMA EmptySeq == <<>> \in Seq(Messages)
  OBVIOUS

LEMMA EmptyLen == Len(<<>>) = 0
  OBVIOUS

LEMMA OneMessage ==
  ASSUME NEW m
  PROVE  /\ Append(<<>>, m) = <<m>>
         /\ Head(<<m>>) = m /\ Tail(<<m>>) = <<>>
         /\ Len(<<m>>) = 1 /\ <<m>> # <<>>
  OBVIOUS

-----------------------------------------------------------------------------
(* Type correctness. *)

(* What the helpers of the module keep typed. *)
LEMMA UnreadType ==
  ASSUME queue \in [Ends -> Seq(Messages)], NEW held
  PROVE  Unread(held) \in [Ends -> Seq(Messages)]
  BY EmptySeq DEF Unread

LEMMA CloseType ==
  ASSUME TypeOK, NEW c \in SUBSET Fds, NEW s \in SUBSET Fds, Close(c, s)
  PROVE  /\ cfds' \subseteq Fds /\ sfds' \subseteq Fds
         /\ backlog' \in BOOLEAN
         /\ queue' \in [Ends -> Seq(Messages)]
  <1>1. queue' = Unread(c \cup s \cup kfds) /\ queue \in [Ends -> Seq(Messages)]
    BY DEF Close, TypeOK
  <1>2. queue' \in [Ends -> Seq(Messages)]
    BY <1>1, UnreadType
  <1>3. cfds' \subseteq Fds /\ sfds' \subseteq Fds
    BY DEF Close
  <1>4. backlog' \in BOOLEAN
    BY DEF Close
  <1> QED BY <1>2, <1>3, <1>4

LEMMA SendType ==
  ASSUME queue \in [Ends -> Seq(Messages)], NEW e \in Ends,
         NEW m \in Messages, Send(e, m)
  PROVE  queue' \in [Ends -> Seq(Messages)]
  <1>1. Peer[e] \in Ends
    BY DEF Peer, Ends
  <1>2. Append(queue[Peer[e]], m) \in Seq(Messages)
    BY <1>1
  <1> QED BY <1>1, <1>2 DEF Send

LEMMA RestType ==
  ASSUME queue \in [Ends -> Seq(Messages)], NEW e \in Ends, queue[e] # <<>>
  PROVE  Rest(e) \in [Ends -> Seq(Messages)]
  <1>1. Tail(queue[e]) \in Seq(Messages)
    OBVIOUS
  <1> QED BY <1>1 DEF Rest

LEMMA EndsOfTheSystem ==
  /\ "L" \in Ends /\ "R" \in Ends /\ "C" \in Ends /\ "S" \in Ends
  /\ "listen" \in Fds /\ Ends \subseteq Fds
  /\ Messages = {"replace", "get_kms", "ok", "planes", "error"}
  BY DEF Ends, Fds, Messages

LEMMA InitType == Init => TypeOK
  <1> SUFFICES ASSUME Init PROVE TypeOK
    OBVIOUS
  <1>1. queue \in [Ends -> Seq(Messages)]
    BY EmptySeq DEF Init
  <1>2. frames \in 0..MaxFrames
    BY KmsAssumption DEF Init
  <1>3. reply \in Messages
    BY DEF Init, Messages
  <1> QED BY <1>1, <1>2, <1>3
          DEF Init, TypeOK, Fds, ServerGone, ClientGone

(* Each conjunct of TypeOK, for the steps that end a process. *)
LEMMA DeinitType ==
  ASSUME TypeOK, NEW to \in ClientGone, Deinit(to)
  PROVE  TypeOK'
  <1>1. Close({}, IF Killed = "exited" THEN {} ELSE sfds)
    BY DEF Deinit
  <1>2. (IF Killed = "exited" THEN {} ELSE sfds) \in SUBSET Fds
    BY DEF TypeOK
  <1>3. /\ cfds' \subseteq Fds /\ sfds' \subseteq Fds /\ backlog' \in BOOLEAN
        /\ queue' \in [Ends -> Seq(Messages)]
    BY <1>1, <1>2, CloseType
  <1>4. server' = "exited" \/ server' = server
    BY DEF Deinit, Killed
  <1> QED BY <1>3, <1>4 DEF Deinit, TypeOK, ServerGone, setup

LEMMA ClientGoesType ==
  ASSUME TypeOK, ClientGoes
  PROVE  TypeOK'
  <1>1. Close({}, sfds) /\ sfds \in SUBSET Fds
    BY DEF ClientGoes, TypeOK
  <1>2. /\ cfds' \subseteq Fds /\ sfds' \subseteq Fds /\ backlog' \in BOOLEAN
        /\ queue' \in [Ends -> Seq(Messages)]
    BY <1>1, CloseType
  <1> QED BY <1>2 DEF ClientGoes, TypeOK, ClientGone, setup, serverVars

LEMMA ServerExitsType ==
  ASSUME TypeOK, ServerExits
  PROVE  TypeOK'
  <1>1. Close(cfds, {}) /\ cfds \in SUBSET Fds
    BY DEF ServerExits, TypeOK
  <1>2. /\ cfds' \subseteq Fds /\ sfds' \subseteq Fds /\ backlog' \in BOOLEAN
        /\ queue' \in [Ends -> Seq(Messages)]
    BY <1>1, CloseType
  <1> QED BY <1>2 DEF ServerExits, TypeOK, ServerGone, setup, clientVars

LEMMA NextType == TypeOK /\ [Next]_vars => TypeOK'
  <1> SUFFICES ASSUME TypeOK, [Next]_vars PROVE TypeOK'
    OBVIOUS
  <1> USE EndsOfTheSystem
  <1>1. CASE ClientFork
    BY <1>1 DEF ClientFork, TypeOK, Inherited, Fds, setup
  <1>2. CASE ClientAccept
    BY <1>2 DEF ClientAccept, TypeOK, setup, serverVars
  <1>3. CASE ClientSetupFails \/ ClientAcceptFails \/ ClientNoticesDeath
    <2>1. Deinit("failed") /\ "failed" \in ClientGone
      BY <1>3 DEF ClientSetupFails, ClientAcceptFails, ClientNoticesDeath, ClientGone
    <2> QED BY <2>1, DeinitType
  <1>4. CASE ClientSendReplace
    <2>1. CASE Held("S")
      <3>1. Send("C", "replace")
        BY <1>4, <2>1 DEF ClientSendReplace
      <3>2. queue' \in [Ends -> Seq(Messages)]
        BY <3>1, SendType DEF TypeOK
      <3> QED BY <1>4, <2>1, <3>2
              DEF ClientSendReplace, TypeOK, Waiting, setup, serverVars
    <2>2. CASE ~Held("S")
      BY <1>4, <2>2, ClientGoesType DEF ClientSendReplace
    <2> QED BY <2>1, <2>2
  <1>5. CASE ClientHandsOver
    <2>1. CASE queue["L"] = <<>>
      <3>1. Deinit("failed") /\ "failed" \in ClientGone
        BY <1>5, <2>1 DEF ClientHandsOver, ClientGone
      <3> QED BY <3>1, DeinitType
    <2>2. CASE queue["L"] # <<>>
      <3>1. Rest("L") \in [Ends -> Seq(Messages)]
        BY <2>2, RestType DEF TypeOK
      <3>2. queue' \in [Ends -> Seq(Messages)]
        BY <3>1, <1>5, <2>2, EmptySeq DEF ClientHandsOver
      <3> QED BY <1>5, <2>2, <3>2
              DEF ClientHandsOver, TypeOK, setup, serverVars
    <2> QED BY <2>1, <2>2
  <1>6. CASE ClientGetKms
    <2>1. queue' \in [Ends -> Seq(Messages)]
      BY <1>6, SendType DEF ClientGetKms, TypeOK
    <2>2. frames' \in 0..MaxFrames
      BY <1>6, KmsAssumption DEF ClientGetKms, TypeOK
    <2> QED BY <1>6, <2>1, <2>2
            DEF ClientGetKms, TypeOK, Waiting, setup, serverVars
  <1>7. CASE ClientGotKms
    <2>1. queue' \in [Ends -> Seq(Messages)]
      BY <1>7, RestType DEF ClientGotKms, TypeOK
    <2> QED BY <1>7, <2>1 DEF ClientGotKms, TypeOK, setup, serverVars
  <1>8. CASE ClientEnds
    <2>1. Deinit("ended") /\ "ended" \in ClientGone
      BY <1>8 DEF ClientEnds, ClientGone
    <2> QED BY <2>1, DeinitType
  <1>9. CASE \E from \in Interrupts : Interrupt(from)
    <2>1. PICK from \in Interrupts : Interrupt(from)
      BY <1>9
    <2>2. CASE from = "terminal" /\ ServerAlive
      <3>1. Close(cfds, {}) /\ cfds \in SUBSET Fds
        BY <2>1, <2>2 DEF Interrupt, TypeOK
      <3>2. /\ cfds' \subseteq Fds /\ sfds' \subseteq Fds
            /\ backlog' \in BOOLEAN /\ queue' \in [Ends -> Seq(Messages)]
        BY <3>1, CloseType
      <3> QED BY <2>1, <2>2, <3>2 DEF Interrupt, TypeOK, ServerGone, setup
    <2>3. CASE ~(from = "terminal" /\ ServerAlive)
      BY <2>1, <2>3 DEF Interrupt, TypeOK, setup
    <2> QED BY <2>2, <2>3
  <1>10. CASE ClientExits
    BY <1>10, ClientGoesType DEF ClientExits
  <1>11. CASE ServerStarts \/ PromptAnswered
    BY <1>11 DEF ServerStarts, PromptAnswered, TypeOK, setup, clientVars
  <1>12. CASE PromptRefused \/ ServerFailsToStart \/ ServerGivesUp
              \/ ServerShutsDown \/ ServerDies
    BY <1>12, ServerExitsType
    DEF PromptRefused, ServerFailsToStart, ServerGivesUp, ServerShutsDown, ServerDies
  <1>13. CASE ServerConnect
    BY <1>13 DEF ServerConnect, TypeOK, setup, clientVars
  <1>14. CASE ServerIsConnected
    BY <1>14 DEF ServerIsConnected, TypeOK, setup, clientVars
  <1>15. CASE ServerDrops
    <2>1. sock \in Ends
      BY DEF TypeOK
    <2>2. queue' \in [Ends -> Seq(Messages)]
      BY <1>15, <2>1, RestType DEF ServerDrops, TypeOK
    <2>3. sfds' \subseteq Fds
      BY <1>15 DEF ServerDrops, TypeOK
    <2> QED BY <1>15, <2>2, <2>3
            DEF ServerDrops, TypeOK, setup, clientVars, serverVars
  <1>16. CASE ServerReplaces
    <2>1. sock \in Ends
      BY DEF TypeOK
    <2>2. Rest(sock) \in [Ends -> Seq(Messages)]
      BY <1>16, <2>1, RestType DEF ServerReplaces, TypeOK
    <2>3. queue' \in [Ends -> Seq(Messages)]
      BY <1>16, <2>1, <2>2, EmptySeq DEF ServerReplaces
    <2>4. reply' \in Messages /\ sfds' \subseteq Fds
      BY <1>16 DEF ServerReplaces, AnswerTo, TypeOK
    <2> QED BY <1>16, <2>3, <2>4 DEF ServerReplaces, TypeOK, setup, clientVars
  <1>17. CASE ServerGetsFb
    <2>1. sock \in Ends
      BY DEF TypeOK
    <2>2. queue' \in [Ends -> Seq(Messages)]
      BY <1>17, <2>1, RestType DEF ServerGetsFb, TypeOK
    <2>3. reply' \in Messages
      BY <1>17 DEF ServerGetsFb, AnswerTo
    <2> QED BY <1>17, <2>2, <2>3 DEF ServerGetsFb, TypeOK, setup, clientVars
  <1>18. CASE ServerAnswers
    <2>1. CASE Held(Peer[sock])
      <3>1. Send(sock, reply) /\ sock \in Ends /\ reply \in Messages
        BY <1>18, <2>1 DEF ServerAnswers, TypeOK
      <3>2. queue' \in [Ends -> Seq(Messages)]
        BY <3>1, SendType DEF TypeOK
      <3> QED BY <1>18, <2>1, <3>2
              DEF ServerAnswers, TypeOK, setup, clientVars
    <2>2. CASE ~Held(Peer[sock])
      BY <1>18, <2>2, ServerExitsType DEF ServerAnswers
    <2> QED BY <2>1, <2>2
  <1>19. CASE UNCHANGED vars
    BY <1>19 DEF vars, TypeOK
  <1>20. CASE ScriptStarts
    BY <1>20 DEF ScriptStarts, TypeOK, setup, clientVars, serverVars
  <1>21. CASE ScriptEnds
    <2>1. queue' \in [Ends -> Seq(Messages)]
      BY <1>21, UnreadType DEF ScriptEnds, TypeOK
    <2> QED BY <1>21, <2>1 DEF ScriptEnds, TypeOK, setup, clientVars, serverVars
  <1> QED BY <1>20, <1>21, <1>1, <1>2, <1>3, <1>4, <1>5, <1>6, <1>7, <1>8, <1>9, <1>10, <1>11,
             <1>12, <1>13, <1>14, <1>15, <1>16, <1>17, <1>18, <1>19
          DEF Next, ClientSteps, ServerSteps, Prompt, Script

(* The variables have their types in every reachable state: in particular    *)
(* nothing but the five kinds of message is ever on a connection.           *)
THEOREM KmsTypeCorrect == Spec => []TypeOK
  BY InitType, NextType, PTL DEF Spec

-----------------------------------------------------------------------------
(* Requests and responses alternate.  The inductive invariant names the five *)
(* stages a request goes through, and what the client expects at each: no    *)
(* request, request to replace the connection, request for planes, being     *)
(* answered, answered.  A stage outlives the client, whose messages stay.    *)

Quiet == \A e \in Ends : queue[e] = <<>>

Only(e, m) == queue[e] = <<m>> /\ \A f \in Ends \ {e} : queue[f] = <<>>

Expected(r) ==
  \/ client = "recvReplace" /\ r = "ok"
  \/ client = "recvKms" /\ r \in {"planes", "error"}
  \/ client \in ClientGone

Stage ==
  \/ Quiet /\ server # "answer"
  \/ Quiet /\ server = "answer" /\ sock = "R" /\ Expected(reply)
  \/ Only("S", "replace") /\ server # "answer" /\ Expected("ok")
  \/ Only("R", "get_kms") /\ server # "answer" /\ Expected("planes")
  \/ server # "answer" /\ \E r \in Messages : Only("L", r) /\ Expected(r)

(* The processes that end only take messages away. *)
LEMMA CloseEmpties ==
  ASSUME NEW c, NEW s, Close(c, s), queue \in [Ends -> Seq(Messages)]
  PROVE  \A e \in Ends : queue'[e] = queue[e] \/ queue'[e] = <<>>
  BY DEF Close, Unread

LEMMA EmptyingKeepsStage ==
  ASSUME Stage, \A e \in Ends : queue'[e] = queue[e] \/ queue'[e] = <<>>,
         server' = server \/ server' = "exited",
         client' = client \/ client' \in ClientGone,
         sock' = sock, reply' = reply
  PROVE  Stage'
  <1>1. \A e \in Ends : queue'[e] = queue[e] \/ queue'[e] = <<>>
    OBVIOUS
  <1>2. \A r : Expected(r) => Expected(r)'
    BY DEF Expected
  <1>3. Quiet => Quiet'
    BY <1>1 DEF Quiet
  <1>4. \A m : \A e \in Ends : Only(e, m) => Only(e, m)' \/ Quiet'
    BY <1>1 DEF Only, Quiet
  <1>5. server # "answer" => server' # "answer"
    OBVIOUS
  <1>6. CASE Quiet /\ server # "answer"
    BY <1>6, <1>3, <1>5 DEF Stage
  <1>7. CASE Quiet /\ server = "answer" /\ sock = "R" /\ Expected(reply)
    <2>1. Expected(reply)'
      BY <1>7 DEF Expected
    <2>2. sock' = "R"
      BY <1>7
    <2> QED BY <1>7, <1>3, <2>1, <2>2 DEF Stage
  <1>8. CASE Only("S", "replace") /\ server # "answer" /\ Expected("ok")
    BY <1>8, <1>2, <1>4, <1>5, EndsOfTheSystem DEF Stage
  <1>9. CASE Only("R", "get_kms") /\ server # "answer" /\ Expected("planes")
    BY <1>9, <1>2, <1>4, <1>5, EndsOfTheSystem DEF Stage
  <1>10. CASE server # "answer" /\ \E r \in Messages : Only("L", r) /\ Expected(r)
    <2>1. PICK r \in Messages : Only("L", r) /\ Expected(r)
      BY <1>10
    <2>2. Only("L", r)' \/ Quiet'
      BY <2>1, <1>4, EndsOfTheSystem
    <2> QED BY <1>10, <1>2, <1>5, <2>1, <2>2 DEF Stage
  <1> QED BY <1>6, <1>7, <1>8, <1>9, <1>10 DEF Stage

LEMMA EndingKeepsStage ==
  ASSUME TypeOK, Stage, NEW c, NEW s, Close(c, s),
         server' = server \/ server' = "exited",
         client' = client \/ client' \in ClientGone,
         sock' = sock, reply' = reply
  PROVE  Stage'
  BY CloseEmpties, EmptyingKeepsStage DEF TypeOK

LEMMA DeinitKeepsStage ==
  ASSUME TypeOK, Stage, NEW to \in ClientGone, Deinit(to)
  PROVE  Stage'
  <1>1. server' = server \/ server' = "exited"
    BY DEF Deinit, Killed
  <1>2. Close({}, IF Killed = "exited" THEN {} ELSE sfds)
    BY DEF Deinit
  <1>3. client' \in ClientGone /\ sock' = sock /\ reply' = reply
    BY DEF Deinit
  <1> QED BY <1>1, <1>2, <1>3, EndingKeepsStage

LEMMA ClientGoesKeepsStage ==
  ASSUME TypeOK, Stage, ClientGoes
  PROVE  Stage'
  <1>1. /\ server' = server /\ client' \in ClientGone
        /\ sock' = sock /\ reply' = reply /\ Close({}, sfds)
    BY DEF ClientGoes, serverVars, ClientGone
  <1> QED BY <1>1, EndingKeepsStage

LEMMA ServerExitsKeepsStage ==
  ASSUME TypeOK, Stage, ServerExits
  PROVE  Stage'
  <1>1. /\ server' = "exited" /\ client' = client
        /\ sock' = sock /\ reply' = reply /\ Close(cfds, {})
    BY DEF ServerExits, clientVars
  <1> QED BY <1>1, EndingKeepsStage

(* Steps that touch neither the queues nor the answer. *)
LEMMA OtherStepsKeepStage ==
  ASSUME Stage, queue' = queue, sock' = sock, reply' = reply,
         server' = server \/ (server # "answer" /\ server' # "answer"),
         client' = client \/ (client \notin Waiting \cup ClientGone)
  PROVE  Stage'
  <1>1. \A r : Expected(r) => Expected(r)'
    BY DEF Expected, Waiting
  <1>2. /\ Quiet' <=> Quiet
        /\ \A e, m : Only(e, m)' <=> Only(e, m)
    BY DEF Quiet, Only
  <1>3. Expected(reply) => Expected(reply)'
    BY DEF Expected, Waiting
  <1>4. server' = "answer" <=> server = "answer"
    OBVIOUS
  <1> QED BY <1>1, <1>2, <1>3, <1>4 DEF Stage

(* Sending into a quiet connection, and reading its only message. *)
LEMMA SendWhenQuiet ==
  ASSUME Quiet, queue \in [Ends -> Seq(Messages)], NEW e \in Ends, NEW m,
         Send(e, m)
  PROVE  Only(Peer[e], m)'
  <1>1. Peer[e] \in Ends
    BY DEF Peer, Ends
  <1>2. queue[Peer[e]] = <<>>
    BY <1>1 DEF Quiet
  <1>3. queue' = [queue EXCEPT ![Peer[e]] = <<m>>]
    BY <1>2, OneMessage DEF Send
  <1> QED BY <1>1, <1>3 DEF Only, Quiet

LEMMA ReadOnly ==
  ASSUME NEW e \in Ends, NEW m, Only(e, m), queue \in [Ends -> Seq(Messages)]
  PROVE  /\ queue[e] # <<>> /\ Head(queue[e]) = m
         /\ \A f \in Ends : Rest(e)[f] = <<>>
         /\ \A f \in Ends : queue[f] # <<>> => f = e
  <1>1. queue[e] = <<m>> /\ Tail(queue[e]) = <<>> /\ queue[e] # <<>>
    BY OneMessage DEF Only
  <1>2. Head(queue[e]) = m
    BY <1>1, OneMessage
  <1>3. \A f \in Ends : Rest(e)[f] = <<>>
    BY <1>1 DEF Rest, Only
  <1> QED BY <1>1, <1>2, <1>3 DEF Only

(* What the server reads is the only message there is. *)
LEMMA ServerReads ==
  ASSUME TypeOK, Stage, server = "serving", queue[sock] # <<>>
  PROVE  /\ \A f \in Ends : Rest(sock)[f] = <<>>
         /\ Head(queue[sock]) = "replace" => sock = "S" /\ Expected("ok")
         /\ Head(queue[sock]) = "get_kms" => sock = "R" /\ Expected("planes")
  <1>1. sock \in {"S", "R"} /\ sock \in Ends /\ queue \in [Ends -> Seq(Messages)]
    BY EndsOfTheSystem DEF TypeOK
  <1>2. CASE Only("S", "replace") /\ Expected("ok")
    BY <1>1, <1>2, ReadOnly, EndsOfTheSystem
  <1>3. CASE Only("R", "get_kms") /\ Expected("planes")
    BY <1>1, <1>3, ReadOnly, EndsOfTheSystem
  <1>4. ~Quiet
    BY <1>1 DEF Quiet
  <1>5. \A r : ~Only("L", r)
    BY <1>1, EndsOfTheSystem DEF Only
  <1> QED BY <1>2, <1>3, <1>4, <1>5 DEF Stage

(* Before a client waits for its first answer, and between two, there is     *)
(* nothing under way.                                                       *)
LEMMA QuietWhenNotWaiting ==
  ASSUME Stage, client \notin Waiting \cup ClientGone
  PROVE  Quiet /\ server # "answer"
  BY DEF Stage, Expected, Waiting

(* What a waiting client reads is the answer it expects. *)
LEMMA ClientReads ==
  ASSUME Stage, TypeOK, queue["L"] # <<>>
  PROVE  /\ server # "answer"
         /\ \E r \in Messages : Only("L", r) /\ Expected(r)
  BY EndsOfTheSystem DEF Stage, Quiet, Only

LEMMA InitStage == Init => Stage
  BY DEF Init, Stage, Quiet

(* The client holds both ends of the pair until it goes: this is why its     *)
(* recvmsg never returns 0.                                                 *)
HoldsPair ==
  client \notin ClientGone \cup {"start"} => "L" \in cfds /\ "R" \in cfds

LEMMA InitHoldsPair == Init => HoldsPair
  BY DEF Init, HoldsPair

LEMMA NextHoldsPair == TypeOK /\ HoldsPair /\ [Next]_vars => HoldsPair'
  <1> SUFFICES ASSUME TypeOK, HoldsPair, [Next]_vars PROVE HoldsPair'
    OBVIOUS
  <1>1. CASE ClientFork \/ ClientAccept
    BY <1>1 DEF ClientFork, ClientAccept, HoldsPair, ClientGone
  <1>2. CASE ClientSetupFails \/ ClientAcceptFails \/ ClientNoticesDeath \/ ClientEnds
    BY <1>2 DEF ClientSetupFails, ClientAcceptFails, ClientNoticesDeath, ClientEnds,
                Deinit, HoldsPair, ClientGone
  <1>3. CASE ClientSendReplace
    BY <1>3 DEF ClientSendReplace, ClientGoes, HoldsPair, ClientGone
  <1>4. CASE ClientHandsOver
    BY <1>4 DEF ClientHandsOver, Deinit, HoldsPair, ClientGone
  <1>5. CASE ClientGetKms \/ ClientGotKms
    BY <1>5 DEF ClientGetKms, ClientGotKms, HoldsPair, ClientGone
  <1>6. CASE \E from \in Interrupts : Interrupt(from)
    BY <1>6 DEF Interrupt, Close, HoldsPair
  <1>7. CASE ClientExits
    BY <1>7 DEF ClientExits, ClientGoes, HoldsPair, ClientGone
  <1>8. CASE PromptRefused \/ ServerFailsToStart \/ ServerGivesUp
             \/ ServerShutsDown \/ ServerDies
    BY <1>8 DEF PromptRefused, ServerFailsToStart, ServerGivesUp, ServerShutsDown, ServerDies,
                ServerExits, Close, HoldsPair, clientVars
  <1>9. CASE PromptAnswered \/ ServerStarts \/ ServerConnect \/ ServerIsConnected
             \/ ServerDrops
    BY <1>9 DEF PromptAnswered, ServerStarts, ServerConnect, ServerIsConnected, ServerDrops,
                HoldsPair, clientVars
  <1>10. CASE ServerReplaces \/ ServerGetsFb \/ ServerAnswers
    BY <1>10 DEF ServerReplaces, ServerGetsFb, ServerAnswers, ServerExits,
                 Close, HoldsPair, clientVars
  <1>11. CASE UNCHANGED vars
    BY <1>11 DEF vars, HoldsPair
  <1>12. CASE ScriptStarts \/ ScriptEnds
    BY <1>12 DEF ScriptStarts, ScriptEnds, HoldsPair, clientVars
  <1> QED BY <1>12, <1>1, <1>2, <1>3, <1>4, <1>5, <1>6, <1>7, <1>8, <1>9, <1>10, <1>11
          DEF Next, ClientSteps, ServerSteps, Prompt, Script

LEMMA NextStage == TypeOK /\ HoldsPair /\ Stage /\ [Next]_vars => Stage'
  <1> SUFFICES ASSUME TypeOK, HoldsPair, Stage, [Next]_vars PROVE Stage'
    OBVIOUS
  <1>q. queue \in [Ends -> Seq(Messages)]
    BY DEF TypeOK
  <1>1. CASE ClientFork
    BY <1>1, QuietWhenNotWaiting, OtherStepsKeepStage
    DEF ClientFork, Waiting, ClientGone
  <1>2. CASE ClientAccept
    BY <1>2, OtherStepsKeepStage
    DEF ClientAccept, Waiting, ClientGone, serverVars
  <1>3. CASE ClientSetupFails \/ ClientAcceptFails \/ ClientNoticesDeath
    BY <1>3, DeinitKeepsStage
    DEF ClientSetupFails, ClientAcceptFails, ClientNoticesDeath, ClientGone
  <1>4. CASE ClientSendReplace
    <2>1. CASE Held("S")
      <3>1. Quiet /\ server # "answer"
        BY <1>4, QuietWhenNotWaiting DEF ClientSendReplace, Waiting, ClientGone
      <3>2. Send("C", "replace") /\ client' = "recvReplace" /\ server' = server
        BY <1>4, <2>1 DEF ClientSendReplace, serverVars
      <3>3. Only("S", "replace")'
        <4>1. Peer["C"] = "S"
          BY DEF Peer
        <4> QED BY <3>1, <3>2, <4>1, <1>q, SendWhenQuiet, EndsOfTheSystem
      <3> QED BY <3>1, <3>2, <3>3 DEF Stage, Expected
    <2>2. CASE ~Held("S")
      BY <1>4, <2>2, ClientGoesKeepsStage DEF ClientSendReplace
    <2> QED BY <2>1, <2>2
  <1>5. CASE ClientHandsOver
    <2>1. CASE queue["L"] = <<>>
      BY <1>5, <2>1, DeinitKeepsStage DEF ClientHandsOver, ClientGone
    <2>2. CASE queue["L"] # <<>>
      <3>1. PICK r \in Messages : Only("L", r)
        BY <2>2, ClientReads
      <3>2. \A f \in Ends : Rest("L")[f] = <<>>
        BY <3>1, <1>q, ReadOnly, EndsOfTheSystem
      <3>3. queue' = [Rest("L") EXCEPT !["C"] = <<>>] /\ server' = server
        BY <1>5, <2>2 DEF ClientHandsOver, serverVars
      <3>4. DOMAIN Rest("L") = Ends
        BY <1>q DEF Rest
      <3>5. Quiet'
        BY <3>2, <3>3, <3>4 DEF Quiet
      <3> QED BY <2>2, <3>3, <3>5, ClientReads DEF Stage
    <2> QED BY <2>1, <2>2
  <1>6. CASE ClientGetKms
    <2>1. Quiet /\ server # "answer"
      BY <1>6, QuietWhenNotWaiting DEF ClientGetKms, Waiting, ClientGone
    <2>2. Send("L", "get_kms") /\ client' = "recvKms" /\ server' = server
      BY <1>6 DEF ClientGetKms, serverVars
    <2>3. Only("R", "get_kms")'
      <3>1. Peer["L"] = "R"
        BY DEF Peer
      <3> QED BY <2>1, <2>2, <3>1, <1>q, SendWhenQuiet, EndsOfTheSystem
    <2> QED BY <2>1, <2>2, <2>3 DEF Stage, Expected
  <1>7. CASE ClientGotKms
    <2>1. CASE queue["L"] = <<>>
      <3>1. client = "recvKms" /\ ~Held("R")
        BY <1>7, <2>1 DEF ClientGotKms, Receives
      <3> QED BY <3>1 DEF HoldsPair, Held, ClientGone
    <2>2. CASE queue["L"] # <<>>
      <3>1. PICK r \in Messages : Only("L", r)
        BY <2>2, ClientReads
      <3>2. \A f \in Ends : Rest("L")[f] = <<>>
        BY <3>1, <1>q, ReadOnly, EndsOfTheSystem
      <3>3. queue' = Rest("L") /\ server' = server
        BY <1>7, <2>2 DEF ClientGotKms, serverVars
      <3> QED BY <2>2, <3>2, <3>3, ClientReads DEF Stage, Quiet
    <2> QED BY <2>1, <2>2
  <1>8. CASE ClientEnds
    BY <1>8, DeinitKeepsStage DEF ClientEnds, ClientGone
  <1>9. CASE \E from \in Interrupts : Interrupt(from)
    <2>1. PICK from \in Interrupts : Interrupt(from)
      BY <1>9
    <2>2. CASE from = "terminal" /\ ServerAlive
      <3>1. /\ server' = "exited" /\ client' = client
            /\ sock' = sock /\ reply' = reply /\ Close(cfds, {})
        BY <2>1, <2>2 DEF Interrupt
      <3> QED BY <3>1, EndingKeepsStage
    <2>3. CASE ~(from = "terminal" /\ ServerAlive)
      <3>1. /\ server' = server /\ client' = client /\ queue' = queue
            /\ sock' = sock /\ reply' = reply
        BY <2>1, <2>3 DEF Interrupt
      <3> QED BY <3>1, OtherStepsKeepStage
    <2> QED BY <2>2, <2>3
  <1>10. CASE ClientExits
    BY <1>10, ClientGoesKeepsStage DEF ClientExits
  <1>11. CASE PromptAnswered \/ ServerStarts \/ ServerConnect \/ ServerIsConnected
    <2>1. /\ queue' = queue /\ sock' = sock /\ reply' = reply /\ client' = client
          /\ server # "answer" /\ server' # "answer"
      BY <1>11
      DEF PromptAnswered, ServerStarts, ServerConnect, ServerIsConnected, clientVars
    <2> QED BY <2>1, OtherStepsKeepStage
  <1>12. CASE PromptRefused \/ ServerFailsToStart \/ ServerGivesUp
              \/ ServerShutsDown \/ ServerDies
    BY <1>12, ServerExitsKeepsStage
    DEF PromptRefused, ServerFailsToStart, ServerGivesUp, ServerShutsDown, ServerDies
  <1>13. CASE ServerDrops
    <2>1. \A f \in Ends : Rest(sock)[f] = <<>>
      BY <1>13, ServerReads DEF ServerDrops
    <2>2. queue' = Rest(sock) /\ server' = "serving"
      BY <1>13 DEF ServerDrops, serverVars
    <2> QED BY <2>1, <2>2 DEF Stage, Quiet
  <1>14. CASE ServerReplaces
    <2>1. /\ \A f \in Ends : Rest(sock)[f] = <<>>
          /\ Expected("ok")
      BY <1>14, ServerReads DEF ServerReplaces
    <2>2. queue' = [Rest(sock) EXCEPT ![sock] = <<>>] /\ DOMAIN Rest(sock) = Ends
      BY <1>14, <1>q DEF ServerReplaces, Rest
    <2>3. Quiet'
      BY <2>1, <2>2 DEF Quiet
    <2>4. server' = "answer" /\ sock' = "R" /\ reply' = "ok" /\ client' = client
      BY <1>14 DEF ServerReplaces, AnswerTo, clientVars
    <2>5. Expected(reply)'
      BY <2>1, <2>4 DEF Expected
    <2> QED BY <2>3, <2>4, <2>5 DEF Stage
  <1>15. CASE ServerGetsFb
    <2>1. /\ \A f \in Ends : Rest(sock)[f] = <<>>
          /\ sock = "R" /\ Expected("planes")
      BY <1>15, ServerReads DEF ServerGetsFb
    <2>2. queue' = Rest(sock)
      BY <1>15 DEF ServerGetsFb
    <2>3. Quiet'
      BY <2>1, <2>2 DEF Quiet
    <2>4. /\ server' = "answer" /\ sock' = sock /\ client' = client
          /\ reply' \in {"planes", "error"}
      BY <1>15 DEF ServerGetsFb, AnswerTo, clientVars
    <2>5. Expected(reply)'
      BY <2>1, <2>4 DEF Expected
    <2> QED BY <2>1, <2>3, <2>4, <2>5 DEF Stage
  <1>16. CASE ServerAnswers
    <2>1. CASE Held(Peer[sock])
      <3>1. Quiet /\ sock = "R" /\ Expected(reply)
        BY <1>16 DEF ServerAnswers, Stage
      <3>2. /\ Send(sock, reply) /\ server' = "serving" /\ client' = client
            /\ reply \in Messages
        BY <1>16, <2>1 DEF ServerAnswers, clientVars, TypeOK
      <3>3. PICK e \in Ends, m \in Messages : e = sock /\ m = reply
        BY <3>1, <3>2, EndsOfTheSystem
      <3>4. Send(e, m)
        BY <3>2, <3>3 DEF Send
      <3>5. Only("L", m)'
        <4>1. Peer[e] = "L"
          BY <3>1, <3>3 DEF Peer
        <4> QED BY <3>1, <3>4, <4>1, <1>q, SendWhenQuiet
      <3>6. Expected(m)'
        BY <3>1, <3>2, <3>3 DEF Expected
      <3> QED BY <3>2, <3>5, <3>6 DEF Stage
    <2>2. CASE ~Held(Peer[sock])
      BY <1>16, <2>2, ServerExitsKeepsStage DEF ServerAnswers
    <2> QED BY <2>1, <2>2
  <1>17. CASE UNCHANGED vars
    BY <1>17, OtherStepsKeepStage DEF vars
  <1>18. CASE ScriptStarts
    BY <1>18, OtherStepsKeepStage DEF ScriptStarts, clientVars, serverVars
  <1>19. CASE ScriptEnds
    <2>1. \A e \in Ends : queue'[e] = queue[e] \/ queue'[e] = <<>>
      BY <1>19, <1>q DEF ScriptEnds, Unread
    <2>2. server' = server /\ client' = client /\ sock' = sock /\ reply' = reply
      BY <1>19 DEF ScriptEnds, clientVars, serverVars
    <2> QED BY <2>1, <2>2, EmptyingKeepsStage
  <1> QED BY <1>18, <1>19, <1>1, <1>2, <1>3, <1>4, <1>5, <1>6, <1>7, <1>8, <1>9, <1>10, <1>11,
             <1>12, <1>13, <1>14, <1>15, <1>16, <1>17
          DEF Next, ClientSteps, ServerSteps, Prompt, Script

LEMMA FourLengths ==
  /\ (\A f \in Ends : Len(queue[f]) = 0) => UnderWay = 0
  /\ \A e \in Ends :
       Len(queue[e]) = 1 /\ (\A f \in Ends \ {e} : Len(queue[f]) = 0)
         => UnderWay = 1
  <1> DEFINE l == Len(queue["L"])  r == Len(queue["R"])
             s == Len(queue["S"])  c == Len(queue["C"])
  <1>1. UnderWay = l + r + s + c
    BY DEF UnderWay
  <1>2. (\A f \in Ends : Len(queue[f]) = 0) => l = 0 /\ r = 0 /\ s = 0 /\ c = 0
    BY DEF Ends
  <1>3. ASSUME NEW e \in Ends, Len(queue[e]) = 1,
               \A f \in Ends \ {e} : Len(queue[f]) = 0
        PROVE  \/ l = 1 /\ r = 0 /\ s = 0 /\ c = 0
               \/ l = 0 /\ r = 1 /\ s = 0 /\ c = 0
               \/ l = 0 /\ r = 0 /\ s = 1 /\ c = 0
               \/ l = 0 /\ r = 0 /\ s = 0 /\ c = 1
    BY <1>3 DEF Ends
  <1> HIDE DEF l, r, s, c
  <1>4. l = 0 /\ r = 0 /\ s = 0 /\ c = 0 => UnderWay = 0
    BY <1>1
  <1>5. ASSUME \/ l = 1 /\ r = 0 /\ s = 0 /\ c = 0
               \/ l = 0 /\ r = 1 /\ s = 0 /\ c = 0
               \/ l = 0 /\ r = 0 /\ s = 1 /\ c = 0
               \/ l = 0 /\ r = 0 /\ s = 0 /\ c = 1
        PROVE  UnderWay = 1
    BY <1>1, <1>5
  <1> QED BY <1>2, <1>3, <1>4, <1>5

LEMMA OnlyCounts ==
  ASSUME NEW e \in Ends, NEW m, Only(e, m)
  PROVE  UnderWay = 1
  <1>1. Len(queue[e]) = 1
    BY OneMessage DEF Only
  <1>2. \A f \in Ends \ {e} : Len(queue[f]) = 0
    BY EmptyLen DEF Only
  <1> QED BY <1>1, <1>2, FourLengths

LEMMA StageAlternates == TypeOK /\ Stage => RequestsAlternate
  <1> SUFFICES ASSUME TypeOK, Stage PROVE RequestsAlternate
    OBVIOUS
  <1> DEFINE pending == UnderWay + (IF server = "answer" THEN 1 ELSE 0)
  <1>1. Quiet => UnderWay = 0
    <2> SUFFICES ASSUME Quiet PROVE UnderWay = 0
      OBVIOUS
    <2>1. \A f \in Ends : Len(queue[f]) = 0
      BY EmptyLen DEF Quiet
    <2> QED BY <2>1, FourLengths
  <1>2. pending <= 1
    BY <1>1, OnlyCounts, EndsOfTheSystem DEF Stage
  <1>3. client \in {"start", "accepting", "sendReplace", "ready"} => pending = 0
    BY <1>1, QuietWhenNotWaiting DEF Waiting, ClientGone
  <1>4. client \in Waiting /\ queue["L"] # <<>> =>
          \E r \in Messages : queue["L"] = <<r>> /\ Expected(r)
    BY ClientReads DEF Only
  <1>5. client = "recvReplace" => queue["L"] \in {<<>>, <<"ok">>}
    BY <1>4 DEF Expected, Waiting, ClientGone
  <1>6. client = "recvKms" => queue["L"] \in {<<>>, <<"planes">>, <<"error">>}
    BY <1>4 DEF Expected, Waiting, ClientGone
  <1> QED BY <1>2, <1>3, <1>5, <1>6 DEF RequestsAlternate

(* At most one request or response is ever under way, and what a waiting     *)
(* client reads answers the request it waits for, however the processes      *)
(* start and whenever they die.                                             *)
THEOREM ResponsesMatchRequests == Spec => []RequestsAlternate
  <1>1. Init => TypeOK /\ HoldsPair /\ Stage
    BY InitType, InitHoldsPair, InitStage
  <1>2. TypeOK /\ HoldsPair /\ Stage /\ [Next]_vars => (TypeOK /\ HoldsPair /\ Stage)'
    BY NextType, NextHoldsPair, NextStage
  <1>3. TypeOK /\ HoldsPair /\ Stage => RequestsAlternate
    BY StageAlternates
  <1> QED BY <1>1, <1>2, <1>3, PTL DEF Spec

-----------------------------------------------------------------------------
(* The hand-over and the cleanup.  Once the server reads from the pair it has *)
(* left its connection for good, and it does so before the client's answer   *)
(* can arrive: what the client knows from an answer is told by sock = "R".   *)

Replaced ==
  /\ sock = "R" => server \in {"serving", "answer", "exited"} /\ "S" \notin sfds
  /\ queue["L"] # <<>> \/ client \in {"ready", "recvKms"} => sock = "R"

SocketFile ==
  /\ client \in {"accepting", "sendReplace", "recvReplace"} => path
  /\ client \in {"ready", "recvKms"} => ~path /\ ~backlog /\ cfds = {"L", "R"}
  /\ "S" \notin cfds

Forked ==
  /\ client = "start" => server = "none" /\ cfds = {}
  /\ server = "none" => client \in {"start", "failed"}

HandInv == Replaced /\ SocketFile /\ Forked /\ DeinitLeavesNothing

(* The end of a process takes descriptors and messages away. *)
LEMMA EndingKeepsReplaced ==
  ASSUME TypeOK, Replaced, NEW c, NEW s, Close(c, s), s \subseteq sfds,
         server' = server \/ server' = "exited", sock' = sock,
         client' = client \/ client' \in ClientGone
  PROVE  Replaced'
  <1>1. queue'["L"] = queue["L"] \/ queue'["L"] = <<>>
    BY CloseEmpties, EndsOfTheSystem DEF TypeOK
  <1>2. sfds' \subseteq sfds
    BY DEF Close
  <1>3. client' \in {"ready", "recvKms"} => client \in {"ready", "recvKms"}
    BY DEF ClientGone
  <1> QED BY <1>1, <1>2, <1>3 DEF Replaced

LEMMA ClientKeepsReplaced ==
  ASSUME TypeOK, HoldsPair, Replaced, Forked,
         ClientSteps \/ ClientGetKms \/ ClientExits
         \/ \E from \in Interrupts : Interrupt(from)
  PROVE  Replaced'
  <1>1. CASE ClientFork
    BY <1>1 DEF ClientFork, Replaced, Forked
  <1>2. CASE ClientAccept
    BY <1>2 DEF ClientAccept, Replaced, serverVars
  <1>3. ASSUME NEW to \in ClientGone, Deinit(to)
        PROVE  Replaced'
    <2>1. server' = server \/ server' = "exited"
      BY <1>3 DEF Deinit, Killed
    <2>2. /\ Close({}, IF Killed = "exited" THEN {} ELSE sfds)
          /\ client' \in ClientGone /\ sock' = sock
      BY <1>3 DEF Deinit
    <2> QED BY <2>1, <2>2, EndingKeepsReplaced
  <1>4. CASE ClientSetupFails \/ ClientAcceptFails \/ ClientNoticesDeath \/ ClientEnds
    BY <1>3, <1>4
    DEF ClientSetupFails, ClientAcceptFails, ClientNoticesDeath, ClientEnds, ClientGone
  <1>5. CASE ClientGoes
    <2>1. /\ Close({}, sfds) /\ client' \in ClientGone
          /\ server' = server /\ sock' = sock
      BY <1>5 DEF ClientGoes, ClientGone, serverVars
    <2> QED BY <2>1, EndingKeepsReplaced
  <1>6. CASE ClientSendReplace
    <2>1. CASE Held("S")
      <3>1. /\ queue' = [queue EXCEPT !["S"] = Append(@, "replace")]
            /\ client' = "recvReplace"
            /\ UNCHANGED <<sfds, server, sock>>
        BY <1>6, <2>1 DEF ClientSendReplace, Send, Peer, serverVars
      <3>2. queue'["L"] = queue["L"]
        BY <3>1, EndsOfTheSystem DEF TypeOK
      <3> QED BY <3>1, <3>2 DEF Replaced
    <2>2. CASE ~Held("S")
      BY <1>5, <1>6, <2>2 DEF ClientSendReplace
    <2> QED BY <2>1, <2>2
  <1>7. CASE ClientHandsOver
    <2>1. CASE queue["L"] = <<>>
      BY <1>3, <1>7, <2>1 DEF ClientHandsOver, ClientGone
    <2>2. CASE queue["L"] # <<>>
      BY <1>7, <2>2 DEF ClientHandsOver, Replaced, serverVars
    <2> QED BY <2>1, <2>2
  <1>8. CASE ClientGetKms
    BY <1>8 DEF ClientGetKms, Replaced, serverVars
  <1>9. CASE ClientGotKms
    BY <1>9 DEF ClientGotKms, Replaced, serverVars
  <1>10. CASE ClientExits
    BY <1>5, <1>10 DEF ClientExits
  <1>11. CASE \E from \in Interrupts : Interrupt(from)
    <2>1. PICK from \in Interrupts : Interrupt(from)
      BY <1>11
    <2>2. CASE from = "terminal" /\ ServerAlive
      <3>1. /\ server' = "exited" /\ client' = client
            /\ sock' = sock /\ Close(cfds, {})
        BY <2>1, <2>2 DEF Interrupt
      <3> QED BY <3>1, EndingKeepsReplaced
    <2>3. CASE ~(from = "terminal" /\ ServerAlive)
      BY <2>1, <2>3 DEF Interrupt, Replaced
    <2> QED BY <2>2, <2>3
  <1> QED BY <1>1, <1>2, <1>4, <1>6, <1>7, <1>8, <1>9, <1>10, <1>11 DEF ClientSteps

(* The server answers over the pair, and only a server that has left its     *)
(* connection does.                                                         *)
LEMMA ServerKeepsReplaced ==
  ASSUME TypeOK, Stage, Replaced,
         ServerSteps \/ ServerFailsToStart \/ ServerDies \/ Prompt
  PROVE  Replaced'
  <1>1. CASE ServerExits
    <2>1. /\ Close(cfds, {}) /\ server' = "exited"
          /\ sock' = sock /\ client' = client
      BY <1>1 DEF ServerExits, clientVars
    <2> QED BY <2>1, EndingKeepsReplaced
  <1>2. CASE PromptAnswered \/ ServerStarts \/ ServerConnect \/ ServerIsConnected
    BY <1>2 DEF PromptAnswered, ServerStarts, ServerConnect, ServerIsConnected, Replaced, clientVars
  <1>3. CASE ServerDrops
    <2>1. \A f \in Ends : Rest(sock)[f] = <<>>
      BY <1>3, ServerReads DEF ServerDrops
    <2>2. /\ queue'["L"] = <<>> /\ client' = client
          /\ UNCHANGED <<server, sock>>
          /\ "S" \in sfds' => "S" \in sfds
      BY <1>3, <2>1, EndsOfTheSystem DEF ServerDrops, serverVars, clientVars
    <2> QED BY <2>2 DEF Replaced
  <1>4. CASE ServerReplaces
    <2>1. sock = "S"
      BY <1>4, ServerReads DEF ServerReplaces
    <2>2. sock' = "R" /\ server' = "answer" /\ "S" \notin sfds'
      BY <1>4, <2>1 DEF ServerReplaces
    <2> QED BY <2>2 DEF Replaced
  <1>5. CASE ServerGetsFb
    <2>1. \A f \in Ends : Rest(sock)[f] = <<>>
      BY <1>5, ServerReads DEF ServerGetsFb
    <2>2. /\ queue'["L"] = <<>> /\ client' = client
          /\ UNCHANGED <<sfds, sock>> /\ server' = "answer"
      BY <1>5, <2>1, EndsOfTheSystem DEF ServerGetsFb, clientVars
    <2> QED BY <2>2 DEF Replaced
  <1>6. CASE ServerAnswers
    <2>1. CASE Held(Peer[sock])
      <3>1. sock = "R"
        BY <1>6 DEF ServerAnswers, Stage
      <3>2. server' = "serving" /\ UNCHANGED <<sfds, sock>>
        BY <1>6, <2>1 DEF ServerAnswers
      <3> QED BY <3>1, <3>2 DEF Replaced
    <2>2. CASE ~Held(Peer[sock])
      BY <1>1, <1>6, <2>2 DEF ServerAnswers
    <2> QED BY <2>1, <2>2
  <1>7. CASE PromptRefused \/ ServerFailsToStart \/ ServerGivesUp
             \/ ServerShutsDown \/ ServerDies
    BY <1>1, <1>7
    DEF PromptRefused, ServerFailsToStart, ServerGivesUp, ServerShutsDown, ServerDies
  <1> QED BY <1>2, <1>3, <1>4, <1>5, <1>6, <1>7 DEF ServerSteps, Prompt

(* What a step of the server, or its end, leaves alone. *)
LEMMA ServerLeaves ==
  ASSUME ServerSteps \/ ServerFailsToStart \/ ServerDies \/ Prompt
  PROVE  /\ UNCHANGED <<mode, client, cfds, path>>
         /\ backlog' => backlog \/ server = "connecting"
         /\ server # "none" /\ server' # "none"
         /\ server # "exited"
  <1>1. ServerExits => UNCHANGED <<mode, client, cfds, path>> /\ (backlog' => backlog)
                         /\ server' # "none"
    BY DEF ServerExits, Close, setup, clientVars
  <1>2. CASE PromptAnswered \/ ServerStarts \/ ServerIsConnected \/ ServerDrops
             \/ ServerReplaces \/ ServerGetsFb
    BY <1>2 DEF PromptAnswered, ServerStarts, ServerIsConnected, ServerDrops, ServerReplaces, ServerGetsFb,
      setup, clientVars, serverVars
  <1>3. CASE ServerConnect
    BY <1>3 DEF ServerConnect, setup, clientVars
  <1>4. CASE ServerAnswers
    BY <1>1, <1>4 DEF ServerAnswers, setup, clientVars
  <1>5. CASE PromptRefused \/ ServerGivesUp \/ ServerShutsDown
             \/ ServerFailsToStart \/ ServerDies
    BY <1>1, <1>5 DEF PromptRefused, ServerGivesUp, ServerShutsDown, ServerFailsToStart, ServerDies,
      ServerAlive, ServerGone
  <1> QED BY <1>2, <1>3, <1>4, <1>5 DEF ServerSteps, Prompt

LEMMA ServerKeepsFile ==
  ASSUME TypeOK, Replaced, SocketFile, Forked, DeinitLeavesNothing,
         ServerSteps \/ ServerFailsToStart \/ ServerDies \/ Prompt
  PROVE  SocketFile' /\ Forked' /\ DeinitLeavesNothing'
  <1>1. /\ UNCHANGED <<mode, client, cfds, path>>
        /\ backlog' => backlog \/ server = "connecting"
        /\ server # "none" /\ server' # "none" /\ server # "exited"
    BY ServerLeaves
  <1>2. SocketFile'
    BY <1>1 DEF SocketFile, Replaced
  <1>3. Forked'
    BY <1>1 DEF Forked
  <1>4. DeinitLeavesNothing'
    BY <1>1 DEF DeinitLeavesNothing, ServerGone
  <1> QED BY <1>2, <1>3, <1>4

(* A cleanup leaves nothing behind but a server that cannot be killed. *)
LEMMA DeinitCleans ==
  ASSUME TypeOK, Forked, client \notin ClientGone,
         NEW to \in ClientGone, Deinit(to), to = "failed" \/ client # "start"
  PROVE  SocketFile' /\ Forked' /\ DeinitLeavesNothing'
  <1>1. /\ client' = to /\ cfds' = {} /\ path' = FALSE /\ mode' = mode
        /\ server' = Killed
    BY DEF Deinit, Close, setup
  <1>2. server = "none" => to = "failed"
    BY DEF Forked, ClientGone
  <1> QED BY <1>1, <1>2
          DEF SocketFile, Forked, DeinitLeavesNothing, Killed, ClientGone, ServerGone

LEMMA GoingCleans ==
  ASSUME TypeOK, Forked, client \notin ClientGone \cup {"start"}, ClientGoes
  PROVE  SocketFile' /\ Forked' /\ DeinitLeavesNothing'
  <1>1. client' = "exited" /\ cfds' = {} /\ server' = server
    BY DEF ClientGoes, Close, serverVars
  <1> QED BY <1>1 DEF SocketFile, Forked, DeinitLeavesNothing, ClientGone

LEMMA ClientKeepsFile ==
  ASSUME TypeOK, HoldsPair, SocketFile, Forked, DeinitLeavesNothing,
         ClientSteps \/ ClientGetKms \/ ClientExits
         \/ \E from \in Interrupts : Interrupt(from)
  PROVE  SocketFile' /\ Forked' /\ DeinitLeavesNothing'
  <1>1. CASE ClientFork
    BY <1>1 DEF ClientFork, SocketFile, Forked, DeinitLeavesNothing
  <1>2. CASE ClientAccept
    BY <1>2 DEF ClientAccept, SocketFile, Forked, DeinitLeavesNothing, serverVars
  <1>3. CASE ClientSetupFails \/ ClientAcceptFails \/ ClientNoticesDeath
    BY <1>3, DeinitCleans
    DEF ClientSetupFails, ClientAcceptFails, ClientNoticesDeath, ClientGone
  <1>4. CASE ClientEnds
    BY <1>4, DeinitCleans DEF ClientEnds, ClientGone
  <1>5. CASE ClientSendReplace
    <2>1. CASE Held("S")
      BY <1>5, <2>1 DEF ClientSendReplace, SocketFile, Forked, DeinitLeavesNothing, serverVars
    <2>2. CASE ~Held("S")
      BY <1>5, <2>2, GoingCleans DEF ClientSendReplace, ClientGone
    <2> QED BY <2>1, <2>2
  <1>6. CASE ClientHandsOver
    <2>1. CASE queue["L"] = <<>>
      BY <1>6, <2>1, DeinitCleans DEF ClientHandsOver, ClientGone
    <2>2. CASE queue["L"] # <<>>
      <3>1. /\ client = "recvReplace" /\ client' = "ready"
            /\ path' = FALSE /\ backlog' = FALSE /\ server' = server
            /\ cfds' = cfds \ {"C", "listen"}
        BY <1>6, <2>2 DEF ClientHandsOver, serverVars
      <3>2. cfds' = {"L", "R"}
        BY <3>1 DEF HoldsPair, ClientGone, SocketFile, TypeOK, Fds, Ends
      <3> QED BY <3>1, <3>2 DEF SocketFile, Forked, DeinitLeavesNothing
    <2> QED BY <2>1, <2>2
  <1>7. CASE ClientGetKms
    BY <1>7 DEF ClientGetKms, SocketFile, Forked, DeinitLeavesNothing, serverVars
  <1>8. CASE ClientGotKms
    BY <1>8 DEF ClientGotKms, SocketFile, Forked, DeinitLeavesNothing, serverVars
  <1>9. CASE ClientExits
    BY <1>9, GoingCleans DEF ClientExits
  <1>10. CASE \E from \in Interrupts : Interrupt(from)
    <2>1. PICK from \in Interrupts : Interrupt(from)
      BY <1>10
    <2>2. /\ client' = client /\ path' = path /\ cfds' = cfds /\ (backlog' => backlog)
          /\ client \notin ClientGone \cup {"start"}
          /\ server' = server \/ server' = "exited"
      BY <2>1 DEF Interrupt, Close, TypeOK
    <2> QED BY <2>2 DEF SocketFile, Forked, DeinitLeavesNothing, ClientGone
  <1> QED BY <1>1, <1>2, <1>3, <1>4, <1>5, <1>6, <1>7, <1>8, <1>9, <1>10 DEF ClientSteps

LEMMA NextHand == TypeOK /\ HoldsPair /\ Stage /\ HandInv /\ [Next]_vars => HandInv'
  <1> SUFFICES ASSUME TypeOK, HoldsPair, Stage, HandInv, [Next]_vars PROVE HandInv'
    OBVIOUS
  <1>1. CASE ClientSteps \/ ClientGetKms \/ ClientExits
             \/ \E from \in Interrupts : Interrupt(from)
    BY <1>1, ClientKeepsReplaced, ClientKeepsFile DEF HandInv
  <1>2. CASE ServerSteps \/ ServerFailsToStart \/ ServerDies \/ Prompt
    BY <1>2, ServerKeepsReplaced, ServerKeepsFile DEF HandInv
  <1>3. CASE UNCHANGED vars
    BY <1>3 DEF vars, HandInv, Replaced, SocketFile, Forked, DeinitLeavesNothing
  <1>4. CASE Script
    <2>1. queue'["L"] = queue["L"] \/ queue'["L"] = <<>>
      BY <1>4, EndsOfTheSystem DEF Script, ScriptStarts, ScriptEnds, Unread, TypeOK
    <2>2. UNCHANGED <<setup, cfds, sfds, backlog, path, clientVars, serverVars>>
      BY <1>4 DEF Script, ScriptStarts, ScriptEnds
    <2> QED BY <2>1, <2>2 DEF HandInv, Replaced, SocketFile, Forked,
              DeinitLeavesNothing, setup, clientVars, serverVars
  <1> QED BY <1>1, <1>2, <1>3, <1>4 DEF Next

LEMMA HandInvariance == Spec => [](TypeOK /\ HandInv)
  <1>1. Init => TypeOK /\ HoldsPair /\ Stage /\ HandInv
    <2>1. Init => HandInv
      BY EndsOfTheSystem DEF Init, HandInv, Replaced, SocketFile, Forked, DeinitLeavesNothing
    <2> QED BY <2>1, InitType, InitHoldsPair, InitStage
  <1>2. TypeOK /\ HoldsPair /\ Stage /\ HandInv /\ [Next]_vars
          => (TypeOK /\ HoldsPair /\ Stage /\ HandInv)'
    BY NextType, NextHoldsPair, NextStage, NextHand
  <1> QED BY <1>1, <1>2, PTL DEF Spec

(* The socket file is there as long as the server may look for it, and from  *)
(* the first frame on nobody can connect any more: file, listening socket    *)
(* and connection are gone, and a server that lives reads from the pair.    *)
THEOREM HandOverOrdered == Spec => []HandOverIsOrdered
  <1>1. TypeOK /\ HandInv => HandOverIsOrdered
    <2> SUFFICES ASSUME TypeOK, HandInv PROVE HandOverIsOrdered
      OBVIOUS
    <2>1. client \in {"ready", "recvKms"} => sock = "R" /\ server \notin {"connecting", "connected"}
      BY DEF HandInv, Replaced
    <2>2. server \in {"connecting", "connected"} /\ client \notin ClientGone => path
      BY <2>1 DEF TypeOK, HandInv, Forked, SocketFile, Waiting
    <2>3. client \in {"ready", "recvKms"} => ~path /\ ~backlog /\ cfds = {"L", "R"}
      BY DEF HandInv, SocketFile
    <2>4. client \in {"ready", "recvKms"} => "S" \notin sfds
      BY <2>1 DEF HandInv, Replaced
    <2> QED BY <2>1, <2>2, <2>3, <2>4 DEF HandOverIsOrdered
  <1> QED BY <1>1, HandInvariance, PTL

(* Whichever step of the initialisation fails and however the program ends,  *)
(* gsr_kms_client_deinit leaves no socket file, no descriptor and no server it could kill.        *)
THEOREM NothingIsLeft == Spec => []DeinitLeavesNothing
  BY HandInvariance, PTL DEF HandInv

=============================================================================
