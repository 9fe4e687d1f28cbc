----------------------------- MODULE ReplayProofs -----------------------------
(***************************************************************************)
(* Proofs about the replay buffer of Replay, for every number of audio     *)
(* tracks, every buffer length and every bound.                            *)
(***************************************************************************)
EXTENDS Replay, TLAPS

\* The clock only moves forward.
LEMMA ClockAdvances == TypeOK /\ [Next]_vars => clock' >= clock
<1> SUFFICES ASSUME TypeOK, [Next]_vars PROVE clock' >= clock
  OBVIOUS
<1> USE DEF TypeOK
<1>1. CASE Tick
  BY <1>1 DEF Tick
<1>2. CASE save_replay_handler \/ stop_handler \/ Terminated \/ UNCHANGED vars
  BY <1>2 DEF save_replay_handler, stop_handler, Terminated, vars
<1>3. CASE Main
  BY <1>3 DEF Main, MainHead, MainDrain, MainVideo, MainPublish, MainRequest,
    SaveNothing, save_replay_async, MainStopping, MainJoin, MainUnchanged
<1>4. CASE Saver \/ \E s \in Direct : AudioThread(s)
  BY <1>4 DEF Saver, AudioThread
<1> QED
  BY <1>1, <1>2, <1>3, <1>4 DEF Next

-----------------------------------------------------------------------------
(* Type correctness.                                                       *)

\* Dropping the oldest packet of a nonempty queue keeps the others.
LEMMA DropOldestType ==
  ASSUME NEW q \in Seq(Packet), q # <<>>
  PROVE  DropOldest(q) \in Seq(Packet)
BY DEF DropOldest

\* receive_frames keeps the types of the variables of the queue.
LEMMA ReceiveType ==
  ASSUME TypeOK, NEW s \in Streams, receive_frames(s)
  PROVE  /\ frame_data_queue' \in Seq(Packet)
         /\ frames_erased' \in BOOLEAN
         /\ produced' \in Nat
         /\ nextPts' \in [Streams -> Nat]
<1>1. PICK key \in BOOLEAN :
        frame_data_queue' = DropOldest(Append(frame_data_queue,
          [id |-> produced + 1, stream |-> s, key |-> key,
           pts |-> nextPts[s]]))
  BY DEF receive_frames
<1> DEFINE packet == [id |-> produced + 1, stream |-> s, key |-> key,
                      pts |-> nextPts[s]]
<1>2. packet \in Packet
  BY DEF TypeOK, Packet
<1>3. frame_data_queue \in Seq(Packet)
  BY DEF TypeOK
<1> HIDE DEF packet
<1>4. /\ Append(frame_data_queue, packet) \in Seq(Packet)
      /\ Append(frame_data_queue, packet) # <<>>
  BY <1>2, <1>3
<1>5. frame_data_queue' \in Seq(Packet)
  BY <1>1, <1>4, DropOldestType DEF packet
<1> QED
  BY <1>5 DEF receive_frames, TypeOK, IsFull

LEMMA EnvironmentType ==
  TypeOK /\ (Tick \/ save_replay_handler \/ stop_handler \/ Terminated
             \/ UNCHANGED vars) => TypeOK'
<1> USE DEF signalVars, queueVars, mainVars, jobVars, fileVars, countVars
<1>1. TypeOK /\ Tick => TypeOK'
  BY DEF TypeOK, Tick
<1>2. TypeOK /\ save_replay_handler => TypeOK'
  BY DEF TypeOK, save_replay_handler
<1>3. TypeOK /\ stop_handler => TypeOK'
  BY DEF TypeOK, stop_handler
<1>4. TypeOK /\ UNCHANGED vars => TypeOK'
  BY DEF TypeOK, vars
<1> QED
  BY <1>1, <1>2, <1>3, <1>4 DEF Terminated

LEMMA EmptySequences == <<>> \in Seq(Packet) /\ <<>> \in Seq(Written)
OBVIOUS

\* The release of the copy after get() leaves the state of "no save".
LEMMA PublishType ==
  ASSUME TypeOK, Publish \/ NotPublished
  PROVE  /\ saverPc' \in {"invalid", "open", "header", "write", "done"}
         /\ save_replay_packets' \in Seq(Packet)
         /\ output' \in Seq(Written)
         /\ saveIndex' \in Nat \ {0}
         /\ videoPtsOffset' \in Nat /\ audioPtsOffset' \in Nat
         /\ fileOk' \in BOOLEAN
         /\ saves' \in Nat /\ publishes' \in Nat
<1>1. CASE Publish
  <2>1. /\ saverPc' = "invalid" /\ saveIndex' = 1 /\ fileOk' = FALSE
        /\ videoPtsOffset' = 0 /\ audioPtsOffset' = 0
        /\ save_replay_packets' = <<>> /\ output' = <<>>
    BY <1>1 DEF Publish, SaverReset
  <2>2. saves' \in Nat /\ publishes' \in Nat
    BY <1>1 DEF TypeOK, Publish
  <2>3. save_replay_packets' \in Seq(Packet) /\ output' \in Seq(Written)
    BY <2>1, EmptySequences
  <2>4. saveIndex' \in Nat \ {0} /\ videoPtsOffset' \in Nat /\ audioPtsOffset' \in Nat
    <3>1. saveIndex' = 1 /\ videoPtsOffset' = 0 /\ audioPtsOffset' = 0
      BY <2>1
    <3> QED
      BY <3>1
  <2>5. fileOk' \in BOOLEAN /\ saverPc' = "invalid"
    BY <2>1
  <2> QED
    BY <2>2, <2>3, <2>4, <2>5
<1>2. CASE NotPublished
  BY <1>2 DEF TypeOK, NotPublished, jobVars, fileVars, countVars
<1> QED
  BY <1>1, <1>2

\* The audio offset is the pts of a packet of the queue, or 0.
LEMMA AudioOffsetType ==
  ASSUME NEW q \in Seq(Packet), NEW i \in Nat
  PROVE  AudioOffset(q, i) \in Nat
<1> DEFINE FirstAudio(k) == /\ k >= i
                            /\ q[k].stream # Video
                            /\ \A j \in DOMAIN q : j \in i..(k - 1) => q[j].stream = Video
           k0 == CHOOSE k \in DOMAIN q : FirstAudio(k)
<1>1. CASE \E k \in DOMAIN q : FirstAudio(k)
  <2>1. k0 \in DOMAIN q
    BY <1>1
  <2> HIDE DEF k0
  <2>2. q[k0] \in Packet
    BY <2>1
  <2>3. q[k0].pts \in Nat
    BY <2>2 DEF Packet
  <2> QED
    BY <1>1, <2>3 DEF AudioOffset, k0
<1>2. CASE ~\E k \in DOMAIN q : FirstAudio(k)
  BY <1>2 DEF AudioOffset
<1> QED
  BY <1>1, <1>2

LEMMA SnapshotType == TypeOK /\ save_replay_async => TypeOK'
<1> SUFFICES ASSUME TypeOK, save_replay_async PROVE TypeOK'
  OBVIOUS
<1>1. PICK i \in DOMAIN frame_data_queue :
        /\ saveIndex' = StartIndex(i)
        /\ videoPtsOffset' = IF erasedArg THEN frame_data_queue[i].pts ELSE 0
        /\ audioPtsOffset' = IF erasedArg THEN AudioOffset(frame_data_queue, i) ELSE 0
  BY DEF save_replay_async
<1>2. i \in Nat \ {0} /\ frame_data_queue[i] \in Packet
  BY DEF TypeOK
<1>3. frame_data_queue[i].pts \in Nat
  BY <1>2 DEF Packet
<1>4. AudioOffset(frame_data_queue, i) \in Nat
  BY <1>2, AudioOffsetType DEF TypeOK
<1>5. videoPtsOffset' \in Nat /\ audioPtsOffset' \in Nat /\ saveIndex' \in Nat \ {0}
  BY <1>1, <1>2, <1>3, <1>4 DEF StartIndex
<1>6. output' \in Seq(Written)
  BY EmptySequences DEF save_replay_async
<1>7. saves' \in Nat /\ publishes' \in Nat /\ saverPc' = "open" /\ mainPc' = "head"
  BY DEF TypeOK, save_replay_async, MainGoto
<1>8. /\ save_replay_packets' \in Seq(Packet)
      /\ fileOk' \in BOOLEAN /\ erasedArg' \in BOOLEAN
  BY DEF TypeOK, save_replay_async
<1>9. UNCHANGED <<clock, signals, audioPc, running, save_replay, queueVars>>
  BY DEF save_replay_async, MainUnchanged
<1> QED
  BY <1>5, <1>6, <1>7, <1>8, <1>9 DEF TypeOK, queueVars

LEMMA MainType == TypeOK /\ Main => TypeOK'
<1> SUFFICES ASSUME TypeOK, Main PROVE TypeOK'
  OBVIOUS
<1>1. CASE MainHead \/ MainRequest \/ SaveNothing \/ MainJoin
  BY <1>1 DEF TypeOK, MainHead, MainRequest, SaveNothing, MainJoin, MainGoto,
    MainUnchanged, queueVars, jobVars, fileVars, countVars
<1>2. CASE MainDrain \/ MainVideo
  <2>1. /\ frame_data_queue' \in Seq(Packet)
        /\ frames_erased' \in BOOLEAN
        /\ produced' \in Nat
        /\ nextPts' \in [Streams -> Nat]
    <3>1. CASE UNCHANGED queueVars
      BY <3>1 DEF TypeOK, queueVars
    <3>2. CASE \E s \in Streams : receive_frames(s)
      BY <3>2, ReceiveType
    <3> QED
      BY <1>2, <3>1, <3>2 DEF MainDrain, MainVideo, Streams, Audio
  <2> QED
    BY <1>2, <2>1 DEF TypeOK, MainDrain, MainVideo, MainGoto, MainUnchanged,
      jobVars, fileVars, countVars
<1>3. CASE MainPublish \/ MainStopping
  <2>1. Publish \/ NotPublished
    BY <1>3 DEF MainPublish, MainStopping
  <2> QED
    BY <1>3, <2>1, PublishType DEF TypeOK, MainPublish, MainStopping, MainGoto,
      MainUnchanged, queueVars
<1>4. CASE save_replay_async
  BY <1>4, SnapshotType
<1> QED
  BY <1>1, <1>2, <1>3, <1>4 DEF Main

LEMMA AudioType ==
  ASSUME TypeOK, NEW s \in Direct, AudioThread(s)
  PROVE  TypeOK'
<1>1. /\ frame_data_queue' \in Seq(Packet)
      /\ frames_erased' \in BOOLEAN
      /\ produced' \in Nat
      /\ nextPts' \in [Streams -> Nat]
  <2>1. CASE UNCHANGED queueVars
    BY <2>1 DEF TypeOK, queueVars
  <2>2. CASE receive_frames(s)
    BY <2>2, ReceiveType DEF Streams, Audio
  <2> QED
    BY <2>1, <2>2 DEF AudioThread, AudioHead, AudioEncode
<1>2. audioPc' \in [Direct -> {"head", "encode", "done"}]
  BY DEF TypeOK, AudioThread, AudioHead, AudioEncode
<1> QED
  BY <1>1, <1>2 DEF TypeOK, AudioThread, signalVars, mainVars, jobVars, fileVars,
    countVars

LEMMA ShiftedType ==
  ASSUME TypeOK, NEW p \in Packet
  PROVE  Shifted(p) \in Written
<1> DEFINE offset == IF p.stream = Video THEN videoPtsOffset ELSE audioPtsOffset
<1>1. offset \in Nat
  BY DEF TypeOK
<1> HIDE DEF offset
<1>2. [p EXCEPT !.pts = @ - offset] \in Written
  BY <1>1 DEF Packet, Written
<1> QED
  BY <1>2 DEF Shifted, offset

LEMMA SaverType == TypeOK /\ Saver => TypeOK'
<1> SUFFICES ASSUME TypeOK, Saver PROVE TypeOK'
  OBVIOUS
<1>1. output' \in Seq(Written)
  <2>1. CASE UNCHANGED output
    BY <2>1 DEF TypeOK
  <2>2. CASE /\ PacketsLeft
             /\ output' = Append(output, Shifted(save_replay_packets[saveIndex]))
    <3>1. save_replay_packets[saveIndex] \in Packet
      BY <2>2 DEF TypeOK, PacketsLeft
    <3>2. Shifted(save_replay_packets[saveIndex]) \in Written
      BY <3>1, ShiftedType
    <3> QED
      BY <2>2, <3>2 DEF TypeOK
  <2> QED
    BY <2>1, <2>2 DEF Saver, SaverOpen, SaverHeader, SaverWrite, SaverTrailer
<1>2. saveIndex' \in Nat \ {0}
  BY DEF TypeOK, Saver, SaverOpen, SaverHeader, SaverWrite, SaverTrailer
<1>3. fileOk' \in BOOLEAN
  BY DEF TypeOK, Saver, SaverOpen, SaverHeader, SaverWrite, SaverTrailer
<1>4. saverPc' \in {"invalid", "open", "header", "write", "done"}
  BY DEF TypeOK, Saver, SaverOpen, SaverHeader, SaverWrite, SaverTrailer, SaverGoto
<1>5. UNCHANGED <<clock, signalVars, queueVars, mainVars, audioPc, jobVars, countVars>>
  BY DEF Saver
<1> QED
  BY <1>1, <1>2, <1>3, <1>4, <1>5 DEF TypeOK, signalVars, queueVars, mainVars, jobVars, countVars

LEMMA InitType == Init => TypeOK
<1> SUFFICES ASSUME Init PROVE TypeOK
  OBVIOUS
<1>1. /\ frame_data_queue \in Seq(Packet)
      /\ save_replay_packets \in Seq(Packet)
      /\ output \in Seq(Written)
  BY EmptySequences DEF Init
<1>2. nextPts \in [Streams -> Nat] /\ audioPc \in [Direct -> {"head", "encode", "done"}]
  BY DEF Init
<1>3. /\ clock \in Nat /\ signals \in Nat /\ produced \in Nat
      /\ saves \in Nat /\ publishes \in Nat
      /\ saveIndex \in Nat \ {0}
      /\ videoPtsOffset \in Nat /\ audioPtsOffset \in Nat
  BY DEF Init
<1>4. /\ running \in BOOLEAN /\ save_replay \in BOOLEAN
      /\ frames_erased \in BOOLEAN /\ erasedArg \in BOOLEAN /\ fileOk \in BOOLEAN
      /\ mainPc = "head" /\ saverPc = "invalid"
  BY DEF Init
<1> QED
  BY <1>1, <1>2, <1>3, <1>4 DEF TypeOK

LEMMA NextType == TypeOK /\ [Next]_vars => TypeOK'
BY EnvironmentType, MainType, AudioType, SaverType DEF Next

\* Every variable keeps its type, for every set of tracks and every bound: the
\* queue, the copy and the file hold packets, and an index into the copy that
\* the save thread uses is never 0.
THEOREM TypeCorrect == Spec => []TypeOK
BY InitType, NextType, PTL DEF Spec

-----------------------------------------------------------------------------
(***************************************************************************)
(* The queue is the window of the newest packets.  QueueIsRecentWindow is  *)
(* inductive with the fact that packets are dropped only in the full       *)
(* buffer, which the clock, moving forward, cannot undo.                   *)
(***************************************************************************)
ErasedWhenFull == frames_erased => IsFull
QueueInv == TypeOK /\ QueueIsRecentWindow /\ ErasedWhenFull

LEMMA ReceiveWindow ==
  ASSUME QueueInv, NEW s \in Streams, receive_frames(s)
  PROVE  /\ QueueIsRecentWindow'
         /\ frames_erased' => IsFull
         /\ frames_erased => Len(frame_data_queue') <= Len(frame_data_queue)
<1>1. PICK key \in BOOLEAN :
        frame_data_queue' = DropOldest(Append(frame_data_queue,
          [id |-> produced + 1, stream |-> s, key |-> key,
           pts |-> nextPts[s]]))
  BY DEF receive_frames
<1> DEFINE packet == [id |-> produced + 1, stream |-> s, key |-> key,
                      pts |-> nextPts[s]]
           pushed == Append(frame_data_queue, packet)
<1>2. packet.id = produced + 1 /\ packet \in Packet
  BY DEF QueueInv, TypeOK, Packet
<1>3. frame_data_queue \in Seq(Packet) /\ produced \in Nat
  BY DEF QueueInv, TypeOK
<1> HIDE DEF packet
<1>4. /\ pushed \in Seq(Packet)
      /\ Len(pushed) = Len(frame_data_queue) + 1
      /\ \A i \in 1..Len(frame_data_queue) : pushed[i] = frame_data_queue[i]
      /\ pushed[Len(frame_data_queue) + 1] = packet
  BY <1>2, <1>3
<1>5. \A i \in 1..Len(pushed) : pushed[i].id = produced + 1 - Len(pushed) + i
  <2> TAKE i \in 1..Len(pushed)
  <2>1. CASE i \in 1..Len(frame_data_queue)
    BY <1>3, <1>4, <2>1 DEF QueueInv, QueueIsRecentWindow
  <2>2. CASE i = Len(frame_data_queue) + 1
    BY <1>2, <1>3, <1>4, <2>2
  <2> QED
    BY <1>3, <1>4, <2>1, <2>2
<1>6. Len(frame_data_queue) <= produced /\ (frames_erased <=> Len(frame_data_queue) < produced)
  BY DEF QueueInv, QueueIsRecentWindow
<1>7. produced' = produced + 1 /\ frames_erased' = (frames_erased \/ IsFull)
  BY DEF receive_frames
<1> HIDE DEF pushed
<1>8. CASE IsFull
  <2>1. frame_data_queue' = Tail(pushed)
    BY <1>1, <1>8 DEF DropOldest, packet, pushed
  <2>2. /\ Len(frame_data_queue') = Len(frame_data_queue)
        /\ \A i \in 1..Len(frame_data_queue) : frame_data_queue'[i] = pushed[i + 1]
    BY <1>3, <1>4, <2>1
  <2>3. DOMAIN frame_data_queue' = 1..Len(frame_data_queue)
    BY <1>3, <1>4, <2>1
  <2>4. ASSUME NEW i \in DOMAIN frame_data_queue'
        PROVE  frame_data_queue'[i].id = produced' - Len(frame_data_queue') + i
    <3>1. i + 1 \in 1..Len(pushed)
      BY <1>3, <1>4, <2>3
    <3> QED
      BY <1>3, <1>4, <1>5, <1>7, <2>2, <2>3, <3>1
  <2>5. frames_erased' = TRUE
    BY <1>7, <1>8 DEF QueueInv, TypeOK
  <2> QED
    BY <1>3, <1>6, <1>7, <1>8, <2>2, <2>4, <2>5 DEF QueueIsRecentWindow
<1>9. CASE ~IsFull
  <2>1. frame_data_queue' = pushed
    BY <1>1, <1>9 DEF DropOldest, packet, pushed
  <2>2. ~frames_erased
    BY <1>9 DEF QueueInv, ErasedWhenFull
  <2>3. ASSUME NEW i \in DOMAIN frame_data_queue'
        PROVE  frame_data_queue'[i].id = produced' - Len(frame_data_queue') + i
    <3>1. i \in 1..Len(pushed) /\ frame_data_queue'[i] = pushed[i]
      BY <1>3, <1>4, <2>1
    <3>2. Len(frame_data_queue') = Len(pushed)
      BY <2>1
    <3> QED
      BY <1>3, <1>4, <1>5, <1>7, <3>1, <3>2
  <2>4. frames_erased' = FALSE
    BY <1>7, <1>9, <2>2 DEF QueueInv, TypeOK
  <2>5. Len(frame_data_queue') <= produced' /\ ~(Len(frame_data_queue') < produced')
    BY <1>3, <1>4, <1>6, <1>7, <2>1, <2>2
  <2> QED
    BY <2>2, <2>3, <2>4, <2>5 DEF QueueIsRecentWindow
<1> QED
  BY <1>8, <1>9

LEMMA InitQueue == Init => QueueInv
BY InitType DEF Init, QueueInv, QueueIsRecentWindow, ErasedWhenFull

\* Only the thread of an encoder touches the queue.
LEMMA QueueSteps ==
  ASSUME TypeOK, [Next]_vars
  PROVE  \/ UNCHANGED queueVars
         \/ \E s \in Streams : receive_frames(s)
<1>1. CASE Tick \/ save_replay_handler \/ stop_handler \/ Terminated \/ UNCHANGED vars
  BY <1>1 DEF Tick, save_replay_handler, stop_handler, Terminated, vars, queueVars
<1>2. CASE Main
  BY <1>2 DEF Main, MainHead, MainDrain, MainVideo, MainPublish, MainRequest,
    SaveNothing, save_replay_async, MainStopping, MainJoin, Streams, Audio
<1>3. CASE \E s \in Direct : AudioThread(s)
  BY <1>3 DEF AudioThread, AudioHead, AudioEncode, Streams, Audio
<1>4. CASE Saver
  BY <1>4 DEF Saver
<1> QED
  BY <1>1, <1>2, <1>3, <1>4 DEF Next

LEMMA NextQueue ==
  QueueInv /\ [Next]_vars =>
    /\ QueueInv'
    /\ frames_erased => Len(frame_data_queue') <= Len(frame_data_queue)
<1> SUFFICES ASSUME QueueInv, [Next]_vars
             PROVE  /\ QueueInv'
                    /\ frames_erased => Len(frame_data_queue') <= Len(frame_data_queue)
  OBVIOUS
<1>1. TypeOK /\ TypeOK'
  BY NextType DEF QueueInv
<1>2. IsFull => IsFull'
  BY <1>1, ClockAdvances, LimitsAssumption DEF IsFull, TypeOK
<1>3. CASE UNCHANGED queueVars
  <2>1. QueueIsRecentWindow'
    BY <1>3 DEF QueueInv, QueueIsRecentWindow, queueVars
  <2>2. ErasedWhenFull'
    BY <1>2, <1>3 DEF QueueInv, ErasedWhenFull, queueVars
  <2>3. frame_data_queue \in Seq(Packet) /\ frame_data_queue' = frame_data_queue
    BY <1>1, <1>3 DEF TypeOK, queueVars
  <2>4. Len(frame_data_queue') <= Len(frame_data_queue)
    BY <2>3
  <2> QED
    BY <1>1, <2>1, <2>2, <2>4 DEF QueueInv
<1>4. CASE \E s \in Streams : receive_frames(s)
  BY <1>1, <1>2, <1>4, ReceiveWindow DEF QueueInv, ErasedWhenFull
<1> QED
  BY <1>1, <1>3, <1>4, QueueSteps

LEMMA QueueInvariance == Spec => []QueueInv
BY InitQueue, NextQueue, PTL DEF Spec

\* The queue is always the window of the newest packets, without a gap, and
\* frames_erased is exact, whatever the number of threads that push.
THEOREM QueueWindow == Spec => []QueueIsRecentWindow
BY QueueInvariance, PTL DEF QueueInv

\* Once the buffer is full its length never grows, whichever thread pushes.
THEOREM BufferBounded == Spec => BufferStopsGrowing
<1>1. QueueInv /\ [Next]_vars
        => [frames_erased => Len(frame_data_queue') <= Len(frame_data_queue)]_vars
  BY NextQueue
<1> QED
  BY <1>1, QueueInvariance, PTL DEF Spec, BufferStopsGrowing
=============================================================================
