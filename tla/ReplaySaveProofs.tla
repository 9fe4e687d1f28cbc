---------------------------- MODULE ReplaySaveProofs ----------------------------
(***************************************************************************)
(* Proofs about the saved files of the replay buffer: what the save thread *)
(* of Replay writes, when it is announced, and that the buffer with all    *)
(* its threads implements the sliding window of ReplayWindow.              *)
(***************************************************************************)
EXTENDS ReplayProofs

-----------------------------------------------------------------------------
(***************************************************************************)
(* The inductive invariant.  The packets before saveIndex are in the file  *)
(* or, after an error of the disk, lost; as long as fileOk holds none is   *)
(* lost, so the file is the part of the copy that begins at FirstWritten.  *)
(***************************************************************************)
SaverIdle ==
  saverPc = "invalid" =>
    /\ save_replay_packets = <<>>
    /\ output = <<>>
    /\ saveIndex = 1
    /\ videoPtsOffset = 0
    /\ audioPtsOffset = 0
    /\ fileOk = FALSE

SavesCounted == saves = publishes + (IF saverPc = "invalid" THEN 0 ELSE 1)

NoSaveAt == mainPc \in {"snapshot", "joining", "exited"} => saverPc = "invalid"

ExitJoins == mainPc = "exited" => AudioJoined

FirstWritten == saveIndex - Len(output)

CopyIsWindow ==
  saverPc # "invalid" =>
    /\ save_replay_packets # <<>>
    /\ save_replay_packets[1].id >= 1
    /\ \A i \in DOMAIN save_replay_packets :
         save_replay_packets[i].id = save_replay_packets[1].id + i - 1

FileIsCopy ==
  fileOk =>
    /\ saveIndex \in 1..(Len(save_replay_packets) + 1)
    /\ FirstWritten \in 1..Len(save_replay_packets)
    /\ saverPc = "done" => saveIndex = Len(save_replay_packets) + 1
    /\ \A k \in DOMAIN output :
         output[k] = Shifted(save_replay_packets[FirstWritten + k - 1])

SaveInv ==
  /\ QueueInv
  /\ SaverIdle /\ SavesCounted /\ NoSaveAt /\ ExitJoins
  /\ CopyIsWindow /\ FileIsCopy

\* Of the state of a save, a step changes nothing, takes the copy, publishes
\* what is done, or is one of the save thread.
LEMMA SaveSteps ==
  ASSUME TypeOK, [Next]_vars
  PROVE  \/ NotPublished
         \/ save_replay_async
         \/ SaverReady /\ Publish
         \/ Saver
<1>1. CASE Tick \/ save_replay_handler \/ stop_handler \/ Terminated \/ UNCHANGED vars
  BY <1>1 DEF Tick, save_replay_handler, stop_handler, Terminated, vars, NotPublished
<1>2. CASE Main
  BY <1>2 DEF Main, MainHead, MainDrain, MainVideo, MainPublish, MainRequest,
    SaveNothing, MainStopping, MainJoin, NotPublished
<1>3. CASE \E s \in Direct : AudioThread(s)
  BY <1>3 DEF AudioThread, NotPublished
<1> QED
  BY <1>1, <1>2, <1>3 DEF Next

\* The save thread leaves the copy alone, and is valid until it is published.
LEMMA SaverLeaves ==
  ASSUME TypeOK, Saver
  PROVE  /\ UNCHANGED <<queueVars, mainVars, audioPc, jobVars, countVars>>
         /\ saverPc \in {"open", "header", "write"}
         /\ saverPc' \in {"header", "write", "done"}
BY DEF TypeOK, Saver, SaverOpen, SaverHeader, SaverWrite, SaverTrailer, SaverGoto

\* A key frame of the video is in the queue, so the copy is a nonempty window.
LEMMA CopyTaken ==
  ASSUME QueueInv, save_replay_async
  PROVE  \E i \in 1..Len(frame_data_queue) :
           /\ FirstKeyAt(frame_data_queue, i)
           /\ saveIndex' = StartIndex(i)
           /\ videoPtsOffset' = IF erasedArg THEN frame_data_queue[i].pts ELSE 0
           /\ audioPtsOffset' = IF erasedArg THEN AudioOffset(frame_data_queue, i) ELSE 0
           /\ saveIndex' \in 1..Len(frame_data_queue)
<1>1. PICK i \in DOMAIN frame_data_queue :
        /\ FirstKeyAt(frame_data_queue, i)
        /\ saveIndex' = StartIndex(i)
        /\ videoPtsOffset' = IF erasedArg THEN frame_data_queue[i].pts ELSE 0
        /\ audioPtsOffset' = IF erasedArg THEN AudioOffset(frame_data_queue, i) ELSE 0
  BY DEF save_replay_async
<1>2. DOMAIN frame_data_queue = 1..Len(frame_data_queue) /\ Len(frame_data_queue) \in Nat
  BY DEF QueueInv, TypeOK
<1>3. saveIndex' \in 1..Len(frame_data_queue)
  BY <1>1, <1>2 DEF StartIndex
<1> QED
  BY <1>1, <1>2, <1>3

-----------------------------------------------------------------------------
(* One lemma for each part of the invariant.                               *)

LEMMA NextIdle ==
  ASSUME TypeOK, SaverIdle, SavesCounted, NoSaveAt, [Next]_vars
  PROVE  SaverIdle' /\ SavesCounted'
<1>1. CASE NotPublished
  BY <1>1 DEF NotPublished, jobVars, fileVars, countVars, SaverIdle, SavesCounted
<1>2. CASE save_replay_async
  <2>1. saverPc' = "open" /\ saves' = saves + 1 /\ publishes' = publishes
    BY <1>2 DEF save_replay_async
  <2>2. saverPc = "invalid"
    BY <1>2 DEF save_replay_async, MainGoto, NoSaveAt
  <2> QED
    BY <2>1, <2>2 DEF SaverIdle, SavesCounted, TypeOK
<1>3. CASE SaverReady /\ Publish
  <2>1. saverPc' = "invalid" /\ saves' = saves /\ publishes' = publishes + 1
    BY <1>3 DEF Publish
  <2>2. saves = publishes + 1
    BY <1>3 DEF SaverReady, SavesCounted
  <2> QED
    BY <1>3, <2>1, <2>2 DEF Publish, SaverReset, SaverIdle, SavesCounted, TypeOK
<1>4. CASE Saver
  <2>1. saverPc # "invalid" /\ saverPc' # "invalid" /\ UNCHANGED countVars
    BY <1>4, SaverLeaves
  <2> QED
    BY <2>1 DEF SaverIdle, SavesCounted, countVars
<1> QED
  BY <1>1, <1>2, <1>3, <1>4, SaveSteps

\* No save is under way while main takes up a request or ends the program; what
\* main has joined stays so.
LEMMA NextNoSave ==
  ASSUME TypeOK, NoSaveAt, ExitJoins, [Next]_vars
  PROVE  NoSaveAt' /\ ExitJoins'
<1>1. CASE Tick \/ save_replay_handler \/ stop_handler \/ Terminated \/ UNCHANGED vars
  BY <1>1 DEF Tick, save_replay_handler, stop_handler, Terminated, vars, NoSaveAt,
    ExitJoins, AudioJoined, mainVars
<1>2. CASE Main
  <2>1. CASE MainHead \/ MainDrain \/ MainVideo \/ SaveNothing \/ save_replay_async
             \/ MainPublish
    <3>1. mainPc' \in {"head", "drain", "video", "publish", "request", "stopping"}
      BY <2>1 DEF MainHead, MainDrain, MainVideo, SaveNothing, save_replay_async,
        MainPublish, MainGoto
    <3> QED
      BY <3>1 DEF NoSaveAt, ExitJoins
  <2>2. CASE MainRequest
    BY <2>2 DEF MainRequest, MainGoto, NoSaveAt, ExitJoins
  <2>3. CASE MainStopping
    BY <2>3 DEF MainStopping, MainGoto, NotPublished, Publish, NoSaveAt, ExitJoins
  <2>4. CASE MainJoin
    BY <2>4 DEF MainJoin, MainGoto, MainUnchanged, NoSaveAt, ExitJoins, AudioJoined
  <2> QED
    BY <1>2, <2>1, <2>2, <2>3, <2>4 DEF Main
<1>3. CASE \E s \in Direct : AudioThread(s)
  <2>1. PICK s \in Direct : AudioThread(s)
    BY <1>3
  <2>2. UNCHANGED <<mainPc, saverPc>> /\ audioPc[s] # "done"
    BY <2>1 DEF AudioThread, AudioHead, AudioEncode, mainVars
  <2> QED
    BY <2>2 DEF NoSaveAt, ExitJoins, AudioJoined
<1>4. CASE Saver
  BY <1>4, SaverLeaves DEF NoSaveAt, ExitJoins, AudioJoined, mainVars
<1> QED
  BY <1>1, <1>2, <1>3, <1>4 DEF Next

LEMMA NextCopy ==
  ASSUME QueueInv, CopyIsWindow, [Next]_vars
  PROVE  CopyIsWindow'
<1>1. CASE UNCHANGED jobVars /\ (saverPc' # "invalid" => saverPc # "invalid")
  BY <1>1 DEF jobVars, CopyIsWindow
<1>2. CASE save_replay_async
  <2>1. save_replay_packets' = frame_data_queue
    BY <1>2 DEF save_replay_async
  <2>2. /\ frame_data_queue \in Seq(Packet) /\ produced \in Nat
        /\ Len(frame_data_queue) <= produced
        /\ \A i \in DOMAIN frame_data_queue :
             frame_data_queue[i].id = produced - Len(frame_data_queue) + i
    BY DEF QueueInv, TypeOK, QueueIsRecentWindow
  <2>3. Len(frame_data_queue) \in Nat /\ Len(frame_data_queue) >= 1
        /\ DOMAIN frame_data_queue = 1..Len(frame_data_queue)
    BY <1>2, <2>2, CopyTaken
  <2> DEFINE q == frame_data_queue
  <2>4. q # <<>>
    BY <2>3
  <2>5. 1 \in DOMAIN q /\ q[1].id = produced - Len(q) + 1
    BY <2>2, <2>3
  <2>6. \A i \in DOMAIN q : q[i].id = q[1].id + i - 1
    BY <2>2, <2>3, <2>5
  <2>7. q[1].id >= 1
    BY <2>2, <2>3, <2>5
  <2> QED
    BY <2>1, <2>4, <2>6, <2>7 DEF CopyIsWindow
<1>3. CASE Publish
  BY <1>3 DEF Publish, CopyIsWindow
<1>4. CASE NotPublished \/ Saver
  BY <1>1, <1>4, SaverLeaves DEF QueueInv, NotPublished
<1> QED
  BY <1>2, <1>3, <1>4, SaveSteps DEF QueueInv

\* One write appends the next packet of the copy to the file, or loses it.
LEMMA WriteCopies ==
  ASSUME TypeOK, FileIsCopy, SaverWrite, fileOk', UNCHANGED jobVars
  PROVE  FileIsCopy'
<1> DEFINE copy == save_replay_packets
           next == Shifted(copy[saveIndex])
<1>1. /\ output' = Append(output, next)
      /\ fileOk
      /\ saveIndex' = saveIndex + 1
      /\ saveIndex <= Len(copy)
      /\ saverPc' = "write"
  BY DEF SaverWrite, PacketsLeft, TypeOK
<1>2. copy \in Seq(Packet) /\ Len(copy) \in Nat /\ saveIndex \in 1..Len(copy)
  BY <1>1 DEF TypeOK
<1>3. output \in Seq(Written) /\ next \in Written
  <2>1. copy[saveIndex] \in Packet
    BY <1>2
  <2> QED
    BY <2>1, ShiftedType DEF TypeOK
<1>4. /\ Len(output') = Len(output) + 1 /\ Len(output) \in Nat
      /\ DOMAIN output = 1..Len(output) /\ DOMAIN output' = 1..(Len(output) + 1)
      /\ \A k \in 1..Len(output) : output'[k] = output[k]
      /\ output'[Len(output) + 1] = next
  <2> HIDE DEF next
  <2> QED
    BY <1>1, <1>3
<1>5. /\ FirstWritten \in 1..Len(copy)
      /\ FirstWritten + Len(output) = saveIndex
      /\ \A k \in DOMAIN output : output[k] = Shifted(copy[FirstWritten + k - 1])
  BY <1>1, <1>2, <1>4 DEF FileIsCopy, FirstWritten
<1>6. FirstWritten' = FirstWritten /\ copy' = copy
  BY <1>1, <1>2, <1>4 DEF FirstWritten, jobVars
<1>7. ASSUME NEW k \in DOMAIN output'
      PROVE  output'[k] = Shifted(copy[FirstWritten + k - 1])
  <2>1. CASE k \in 1..Len(output)
    BY <1>4, <1>5, <2>1
  <2>2. CASE k = Len(output) + 1
    <3>1. FirstWritten + k - 1 = saveIndex
      BY <1>4, <1>5, <2>2
    <3> QED
      BY <1>4, <2>2, <3>1
  <2> QED
    BY <1>4, <2>1, <2>2
<1>8. \A k \in DOMAIN output' : output'[k] = Shifted(copy[FirstWritten + k - 1])'
  BY <1>6, <1>7 DEF Shifted, jobVars
<1> QED
  BY <1>1, <1>2, <1>5, <1>6, <1>8 DEF FileIsCopy

LEMMA NextFile ==
  ASSUME QueueInv, SaverIdle, FileIsCopy, [Next]_vars
  PROVE  FileIsCopy'
<1> SUFFICES ASSUME fileOk' PROVE FileIsCopy'
  BY DEF FileIsCopy
<1>1. CASE NotPublished
  BY <1>1 DEF NotPublished, jobVars, fileVars, FileIsCopy, FirstWritten, Shifted
<1>2. CASE save_replay_async
  <2>1. /\ save_replay_packets' = frame_data_queue /\ output' = <<>>
        /\ saverPc' = "open"
        /\ saveIndex' \in 1..Len(frame_data_queue)
    BY <1>2, CopyTaken DEF save_replay_async
  <2>2. Len(output') = 0 /\ DOMAIN output' = {} /\ Len(frame_data_queue) \in Nat
    BY <2>1 DEF QueueInv, TypeOK
  <2>3. FirstWritten' = saveIndex'
    <3>1. saveIndex' \in Int
      BY <2>1, <2>2
    <3>2. FirstWritten' = saveIndex' - 0
      BY <2>2 DEF FirstWritten
    <3>3. \A n \in Int : n - 0 = n
      OBVIOUS
    <3> QED
      BY <3>1, <3>2, <3>3
  <2> QED
    BY <2>1, <2>2, <2>3 DEF FileIsCopy
<1>3. CASE SaverReady /\ Publish
  BY <1>3 DEF Publish, SaverReset
<1>4. CASE Saver
  <2>1. CASE SaverWrite
    BY <1>4, <2>1, WriteCopies, SaverLeaves DEF QueueInv
  <2>2. CASE SaverOpen \/ SaverHeader \/ SaverTrailer
    <3>1. fileOk /\ UNCHANGED <<jobVars, saveIndex, output>>
      BY <1>4, <2>2, SaverLeaves DEF SaverOpen, SaverHeader, SaverTrailer, QueueInv, TypeOK
    <3>2. saverPc' = "done" => saveIndex = Len(save_replay_packets) + 1
      <4>1. Len(save_replay_packets) \in Nat /\ saveIndex \in 1..(Len(save_replay_packets) + 1)
        BY <3>1 DEF QueueInv, TypeOK, FileIsCopy
      <4> QED
        BY <2>2, <3>1, <4>1 DEF SaverOpen, SaverHeader, SaverTrailer, SaverGoto, PacketsLeft
    <3> QED
      BY <3>1, <3>2 DEF FileIsCopy, FirstWritten, Shifted, jobVars
  <2> QED
    BY <1>4, <2>1, <2>2 DEF Saver
<1> QED
  BY <1>1, <1>2, <1>3, <1>4, SaveSteps DEF QueueInv

LEMMA InitSave == Init => SaveInv
BY InitQueue DEF Init, SaveInv, SaverIdle, SavesCounted, NoSaveAt, ExitJoins, CopyIsWindow,
  FileIsCopy

LEMMA NextSave == SaveInv /\ [Next]_vars => SaveInv'
BY NextQueue, NextIdle, NextNoSave, NextCopy, NextFile DEF SaveInv, QueueInv

LEMMA SaveInvariance == Spec => []SaveInv
BY InitSave, NextSave, PTL DEF Spec

-----------------------------------------------------------------------------
(* The properties.                                                         *)

\* A file that is written without an error is a gap-free part of the recording
\* and ends with the newest packet at the time of the save, whatever the
\* threads push and drop meanwhile and wherever the first key frame was.
THEOREM SavedFile == Spec => []SavedFileIsWindow
<1>1. SaveInv => SavedFileIsWindow
  <2> SUFFICES ASSUME SaveInv, fileOk
               PROVE  /\ \A i \in DOMAIN output : output[i].id = output[1].id + i - 1
                      /\ saverPc = "done" =>
                           /\ output # <<>>
                           /\ output[Len(output)].id
                                = save_replay_packets[Len(save_replay_packets)].id
    BY DEF SavedFileIsWindow
  <2> DEFINE copy == save_replay_packets
  <2>1. /\ copy \in Seq(Packet) /\ output \in Seq(Written)
        /\ Len(copy) \in Nat /\ Len(output) \in Nat /\ saveIndex \in Nat
        /\ DOMAIN copy = 1..Len(copy) /\ DOMAIN output = 1..Len(output)
    BY DEF SaveInv, QueueInv, TypeOK
  <2>2. /\ saveIndex <= Len(copy) + 1
        /\ FirstWritten \in 1..Len(copy)
        /\ saverPc = "done" => saveIndex = Len(copy) + 1
        /\ \A k \in DOMAIN output : output[k] = Shifted(copy[FirstWritten + k - 1])
    BY DEF SaveInv, FileIsCopy
  <2>3. \A i \in DOMAIN copy : copy[i].id = copy[1].id + i - 1
    BY DEF SaveInv, SaverIdle, CopyIsWindow
  <2>4. copy[1].id \in Nat
    <3>1. 1 \in DOMAIN copy
      BY <2>1, <2>2
    <3>2. copy[1] \in Packet
      BY <2>1, <3>1
    <3> QED
      BY <3>2 DEF Packet
  <2> DEFINE before == copy[1].id + FirstWritten - 2
  <2>5. before \in Int /\ FirstWritten \in Nat
    BY <2>1, <2>2, <2>4
  <2>6. ASSUME NEW k \in DOMAIN output
        PROVE  output[k].id = before + k
    <3>1. FirstWritten + k - 1 \in DOMAIN copy
      BY <2>1, <2>2 DEF FirstWritten
    <3>2. copy[FirstWritten + k - 1].id = before + k
      <4>1. copy[FirstWritten + k - 1].id = copy[1].id + (FirstWritten + k - 1) - 1
        BY <2>3, <3>1
      <4>2. k \in Nat
        BY <2>1
      <4> QED
        BY <2>4, <2>5, <4>1, <4>2
    <3>3. copy[FirstWritten + k - 1] \in Packet
      BY <2>1, <3>1
    <3>4. Shifted(copy[FirstWritten + k - 1]).id = copy[FirstWritten + k - 1].id
      BY <3>3 DEF Shifted, Packet
    <3> QED
      BY <2>2, <3>2, <3>4
  <2>7. \A i \in DOMAIN output : output[i].id = output[1].id + i - 1
    <3> TAKE i \in DOMAIN output
    <3>1. 1 \in DOMAIN output /\ i \in Nat
      BY <2>1
    <3>2. output[1].id = before + 1 /\ output[i].id = before + i
      BY <2>6, <3>1
    <3> HIDE DEF before
    <3> QED
      BY <2>5, <3>1, <3>2
  <2>8. ASSUME saverPc = "done"
        PROVE  output # <<>> /\ output[Len(output)].id = copy[Len(copy)].id
    <3>1. FirstWritten + Len(output) = Len(copy) + 1
      BY <2>1, <2>2, <2>8 DEF FirstWritten
    <3>2. Len(output) \in DOMAIN output /\ Len(copy) \in DOMAIN copy
      BY <2>1, <2>2, <3>1
    <3>3. output[Len(output)].id = before + Len(output)
      BY <2>6, <3>2
    <3>4. copy[Len(copy)].id = copy[1].id + Len(copy) - 1
      BY <2>3, <3>2
    <3> QED
      BY <2>1, <2>4, <2>5, <3>1, <3>2, <3>3, <3>4
  <2> QED
    BY <2>7, <2>8
<1> QED
  BY <1>1, SaveInvariance, PTL

\* When the process exits each save has been announced once, none is under way
\* and no thread is left that could push.
THEOREM QuietExit == Spec => []ExitIsQuiet
<1>1. SaveInv => ExitIsQuiet
  BY DEF SaveInv, NoSaveAt, SavesCounted, ExitJoins, AudioJoined, ExitIsQuiet, QueueInv, TypeOK
<1> QED
  BY <1>1, SaveInvariance, PTL

\* The save thread works on a copy that no thread changes, and its file is
\* announced only when it is written to the end of the copy or the disk failed.
THEOREM WholeSaves == Spec => SavesAreWhole
<1>1. SaveInv /\ [Next]_vars => [SaverBusy => UNCHANGED jobVars]_vars
  BY SaveSteps, SaverLeaves DEF SaveInv, QueueInv, SaverBusy, NotPublished, SaverReady,
    save_replay_async, MainGoto, NoSaveAt
<1>2. ASSUME SaveInv, [Next]_vars, publishes' # publishes
      PROVE  saverPc = "done" /\ (fileOk => saveIndex > Len(save_replay_packets) /\ output # <<>>)
  <2>1. SaverReady /\ Publish
    BY <1>2, SaveSteps, SaverLeaves DEF SaveInv, QueueInv, NotPublished, countVars,
      save_replay_async
  <2>2. SaverReady /\ Len(save_replay_packets) \in Nat
    BY <1>2, <2>1 DEF SaveInv, QueueInv, TypeOK
  <2>3. fileOk => /\ saveIndex = Len(save_replay_packets) + 1
                  /\ FirstWritten \in 1..Len(save_replay_packets)
    BY <1>2, <2>2 DEF SaverReady, SaveInv, FileIsCopy
  <2> QED
    BY <2>2, <2>3 DEF SaverReady, FirstWritten
<1>3. SaveInv /\ [Next]_vars =>
        [publishes' # publishes =>
           /\ saverPc = "done"
           /\ fileOk => saveIndex > Len(save_replay_packets) /\ output # <<>>]_vars
  BY <1>2
<1> QED
  BY <1>1, <1>3, SaveInvariance, PTL DEF Spec, SavesAreWhole, SnapshotIsFrozen,
    AnnouncedFileIsWritten

-----------------------------------------------------------------------------
(***************************************************************************)
(* The refinement of ReplayWindow: while a file is good it is the copied   *)
(* part so far; once the disk has failed no file is promised.              *)
(***************************************************************************)
FirstOrNone == IF fileOk THEN FirstSaved ELSE 0
LastOrNone == IF saverPc = "invalid" THEN 0 ELSE LastSaved
WrittenOrNone == IF fileOk THEN Len(output) ELSE 0
Dropped == produced - Len(frame_data_queue)

\* What a push does to the bounds of the queue.
LEMMA ReceiveLength ==
  ASSUME QueueInv, NEW s \in Streams, receive_frames(s)
  PROVE  Dropped' = IF IsFull THEN Dropped + 1 ELSE Dropped
<1>1. PICK key \in BOOLEAN :
        frame_data_queue' = DropOldest(Append(frame_data_queue,
          [id |-> produced + 1, stream |-> s, key |-> key, pts |-> nextPts[s]]))
  BY DEF receive_frames
<1> DEFINE packet == [id |-> produced + 1, stream |-> s, key |-> key, pts |-> nextPts[s]]
           pushed == Append(frame_data_queue, packet)
<1>2. packet \in Packet /\ frame_data_queue \in Seq(Packet) /\ produced \in Nat
  BY DEF QueueInv, TypeOK, Packet
<1> HIDE DEF packet
<1>3. /\ pushed \in Seq(Packet) /\ pushed # <<>>
      /\ Len(pushed) = Len(frame_data_queue) + 1
      /\ Len(frame_data_queue) \in Nat
  BY <1>2
<1> HIDE DEF pushed
<1>4. Len(Tail(pushed)) = Len(frame_data_queue)
  BY <1>3
<1>5. frame_data_queue' = IF IsFull THEN Tail(pushed) ELSE pushed
  BY <1>1 DEF DropOldest, pushed, packet
<1>6. Len(frame_data_queue') = IF IsFull THEN Len(frame_data_queue) ELSE Len(frame_data_queue) + 1
  BY <1>3, <1>4, <1>5
<1>7. produced' = produced + 1
  BY DEF receive_frames
<1> QED
  BY <1>2, <1>3, <1>6, <1>7 DEF Dropped

\* No step both pushes a packet and touches a save.
LEMMA PushOrSave ==
  ASSUME TypeOK, [Next]_vars
  PROVE  \/ UNCHANGED queueVars
         \/ NotPublished /\ \E s \in Streams : receive_frames(s)
<1>1. CASE Tick \/ save_replay_handler \/ stop_handler \/ Terminated \/ UNCHANGED vars
  BY <1>1 DEF Tick, save_replay_handler, stop_handler, Terminated, vars, queueVars
<1>2. CASE Main
  BY <1>2 DEF Main, MainHead, MainDrain, MainVideo, MainPublish, MainRequest,
    SaveNothing, save_replay_async, MainStopping, MainJoin, NotPublished, Streams, Audio
<1>3. CASE \E s \in Direct : AudioThread(s)
  BY <1>3 DEF AudioThread, AudioHead, AudioEncode, NotPublished, Streams, Audio
<1>4. CASE Saver
  BY <1>4, SaverLeaves
<1> QED
  BY <1>1, <1>2, <1>3, <1>4 DEF Next

\* The bounds of the save in flight, and of its file, are numbers of packets.
LastIsNumber ==
  saverPc # "invalid" =>
    /\ LastOrNone = save_replay_packets[1].id + Len(save_replay_packets) - 1
    /\ save_replay_packets[1].id \in Nat \ {0}
    /\ Len(save_replay_packets) \in Nat \ {0}

FileBounds ==
  /\ saverPc # "invalid"
  /\ FirstOrNone = save_replay_packets[1].id + FirstWritten - 1
  /\ WrittenOrNone = Len(output)
  /\ FirstWritten \in 1..Len(save_replay_packets)
  /\ FirstWritten + Len(output) = saveIndex
  /\ Len(output) \in Nat
  /\ saveIndex \in Nat

BoundsInv == LastIsNumber /\ (fileOk => FileBounds)

LEMMA BoundsAreNumbers == SaveInv => BoundsInv
<1> SUFFICES ASSUME SaveInv PROVE BoundsInv
  OBVIOUS
<1> DEFINE copy == save_replay_packets
<1>1. /\ copy \in Seq(Packet) /\ Len(copy) \in Nat /\ DOMAIN copy = 1..Len(copy)
      /\ Len(output) \in Nat /\ saveIndex \in Nat
  BY DEF SaveInv, QueueInv, TypeOK
<1>2. LastIsNumber
  <2> SUFFICES ASSUME saverPc # "invalid" PROVE LastIsNumber
    BY DEF LastIsNumber
  <2>1. Len(copy) \in Nat \ {0} /\ 1 \in DOMAIN copy /\ Len(copy) \in DOMAIN copy
    BY <1>1 DEF SaveInv, CopyIsWindow
  <2>2. copy[1] \in Packet /\ copy[1].id >= 1
    BY <1>1, <2>1 DEF SaveInv, CopyIsWindow
  <2>3. copy[1].id \in Nat \ {0}
    BY <2>2 DEF Packet
  <2>4. copy[Len(copy)].id = copy[1].id + Len(copy) - 1
    BY <2>1 DEF SaveInv, CopyIsWindow
  <2> QED
    BY <2>1, <2>3, <2>4 DEF LastIsNumber, LastOrNone, LastSaved
<1>3. ASSUME fileOk PROVE FileBounds
  <2>1. saverPc # "invalid" /\ FirstWritten \in 1..Len(copy)
    BY <1>3 DEF SaveInv, SaverIdle, FileIsCopy
  <2>2. FirstWritten + Len(output) = saveIndex
    BY <1>1 DEF FirstWritten
  <2>3. copy[1].id \in Nat
    BY <1>2, <2>1 DEF LastIsNumber
  <2>4. copy[1].id + saveIndex - 1 - Len(output) = copy[1].id + FirstWritten - 1
    BY <1>1, <2>1, <2>2, <2>3
  <2> QED
    BY <1>1, <1>3, <2>1, <2>2, <2>4 DEF FileBounds, FirstOrNone, WrittenOrNone, FirstSaved
<1> QED
  BY <1>2, <1>3 DEF BoundsInv

\* Pushing is Record.
LEMMA PushRecords ==
  ASSUME SaveInv, NEW s \in Streams, receive_frames(s), NotPublished
  PROVE  Window!Record
<1>1. UNCHANGED <<FirstOrNone, LastOrNone, WrittenOrNone>>
  BY DEF NotPublished, jobVars, fileVars, FirstOrNone, LastOrNone, WrittenOrNone,
    FirstSaved, LastSaved
<1>2. Dropped' = IF IsFull THEN Dropped + 1 ELSE Dropped
  BY ReceiveLength DEF SaveInv
<1>3. ~IsFull => Dropped = 0
  <2>1. ~IsFull => ~(Len(frame_data_queue) < produced)
    BY DEF SaveInv, QueueInv, ErasedWhenFull, QueueIsRecentWindow
  <2>2. Len(frame_data_queue) \in Nat /\ produced \in Nat /\ Len(frame_data_queue) <= produced
    BY DEF SaveInv, QueueInv, TypeOK, QueueIsRecentWindow
  <2> QED
    BY <2>1, <2>2 DEF Dropped
<1>4. produced' = produced + 1
  BY DEF receive_frames
<1> QED
  BY <1>1, <1>2, <1>3, <1>4 DEF Window!Record, FirstOrNone, LastOrNone, WrittenOrNone, Dropped

\* Taking the copy is Save.
LEMMA SnapshotSaves ==
  ASSUME SaveInv, SaveInv', save_replay_async
  PROVE  Window!Save
<1>1. /\ saverPc = "invalid" /\ saverPc' = "open" /\ fileOk'
      /\ save_replay_packets' = frame_data_queue
      /\ output' = <<>>
      /\ UNCHANGED queueVars
  BY DEF save_replay_async, MainGoto, SaveInv, NoSaveAt
<1>2. /\ frame_data_queue \in Seq(Packet) /\ Len(frame_data_queue) \in Nat
      /\ produced \in Nat /\ Len(frame_data_queue) <= produced
  BY DEF SaveInv, QueueInv, TypeOK, QueueIsRecentWindow
<1>3. saveIndex' \in 1..Len(frame_data_queue)
  BY CopyTaken DEF SaveInv
<1>4. frame_data_queue[1].id = produced - Len(frame_data_queue) + 1
  <2>1. 1 \in DOMAIN frame_data_queue
    BY <1>2, <1>3
  <2> QED
    BY <2>1 DEF SaveInv, QueueInv, QueueIsRecentWindow
<1>5. LastIsNumber' /\ FileBounds'
  <2>1. BoundsInv'
    BY BoundsAreNumbers, PTL
  <2> QED
    BY <1>1, <2>1 DEF BoundsInv
<1> DEFINE n == Len(frame_data_queue)
<1>6. /\ FirstOrNone' = produced - n + FirstWritten'
      /\ LastOrNone' = produced
      /\ FirstWritten' \in 1..n
  <2>1. /\ FirstOrNone' = (produced - n + 1) + FirstWritten' - 1
        /\ LastOrNone' = (produced - n + 1) + n - 1
        /\ FirstWritten' \in 1..n
    BY <1>1, <1>4, <1>5 DEF LastIsNumber, FileBounds
  <2>2. FirstWritten' \in Nat
    BY <1>2, <2>1
  <2> QED
    BY <1>2, <2>1, <2>2
<1>7. WrittenOrNone' = 0
  BY <1>1 DEF WrittenOrNone
<1>8. FirstOrNone' \in (Dropped + 1)..produced
  BY <1>2, <1>6 DEF Dropped
<1>9. UNCHANGED <<produced, Dropped>>
  BY <1>1 DEF queueVars, Dropped
<1>10. LastOrNone = 0
  BY <1>1 DEF LastOrNone
<1> QED
  BY <1>6, <1>7, <1>8, <1>9, <1>10 DEF Window!Save, FirstOrNone, LastOrNone, WrittenOrNone, Dropped

\* Losing a packet is Fail, once; a file that is not good any more stays so.
LEMMA LosingFails ==
  ASSUME SaveInv, SaveInv', Saver, ~fileOk'
  PROVE  Window!Fail \/ UNCHANGED Window!vars
<1>1. /\ saverPc # "invalid" /\ saverPc' # "invalid"
      /\ UNCHANGED <<jobVars, queueVars>>
  BY SaverLeaves DEF SaveInv, QueueInv
<1>2. UNCHANGED <<produced, Dropped, LastOrNone>>
  BY <1>1 DEF queueVars, jobVars, Dropped, LastOrNone, LastSaved
<1>3. FirstOrNone' = 0 /\ WrittenOrNone' = 0
  BY DEF FirstOrNone, WrittenOrNone
<1>4. CASE fileOk
  <2>1. DiskCanFail
    BY <1>4 DEF Saver, SaverOpen, SaverHeader, SaverWrite, SaverTrailer
  <2>2. FirstOrNone # 0
    <3>1. LastIsNumber /\ FileBounds
      BY <1>4, BoundsAreNumbers DEF BoundsInv
    <3>2. FirstWritten \in Nat \ {0} /\ save_replay_packets[1].id \in Nat \ {0}
      BY <1>1, <3>1 DEF LastIsNumber, FileBounds
    <3> QED
      BY <3>1, <3>2 DEF FileBounds
  <2> QED
    BY <1>2, <1>3, <2>1, <2>2 DEF Window!Fail, FirstOrNone, LastOrNone, WrittenOrNone, Dropped
<1>5. CASE ~fileOk
  <2>1. FirstOrNone = 0 /\ WrittenOrNone = 0
    BY <1>5 DEF FirstOrNone, WrittenOrNone
  <2> QED
    BY <1>2, <1>3, <2>1 DEF Window!vars, FirstOrNone, LastOrNone, WrittenOrNone, Dropped
<1> QED
  BY <1>4, <1>5

\* Writing a packet to a good file is Write; the other steps of the save thread
\* are not seen.
LEMMA SaverWrites ==
  ASSUME SaveInv, SaveInv', Saver, fileOk'
  PROVE  Window!Write \/ UNCHANGED Window!vars
<1>1. /\ saverPc # "invalid" /\ saverPc' # "invalid"
      /\ UNCHANGED <<jobVars, queueVars>>
  BY SaverLeaves DEF SaveInv, QueueInv
<1>2. fileOk /\ LastIsNumber /\ FileBounds
  <2>1. fileOk
    BY DEF Saver, SaverOpen, SaverHeader, SaverWrite, SaverTrailer, SaveInv, QueueInv, TypeOK
  <2> QED
    BY <2>1, BoundsAreNumbers DEF BoundsInv
<1>3. FileBounds'
  <2>1. BoundsInv'
    BY BoundsAreNumbers, PTL
  <2> QED
    BY <2>1 DEF BoundsInv
<1>4. UNCHANGED <<produced, Dropped, LastOrNone, save_replay_packets>>
  BY <1>1 DEF queueVars, jobVars, Dropped, LastOrNone, LastSaved
<1>5. CASE SaverWrite
  <2>1. /\ output' = Append(output, Shifted(save_replay_packets[saveIndex]))
        /\ saveIndex' = saveIndex + 1
        /\ saveIndex <= Len(save_replay_packets)
    BY <1>2, <1>5 DEF SaverWrite, PacketsLeft
  <2>2. output \in Seq(Written) /\ Shifted(save_replay_packets[saveIndex]) \in Written
    <3>1. /\ save_replay_packets \in Seq(Packet)
          /\ saveIndex \in 1..Len(save_replay_packets)
      BY <2>1 DEF SaveInv, QueueInv, TypeOK
    <3>2. save_replay_packets[saveIndex] \in Packet
      BY <3>1
    <3> QED
      BY <3>2, ShiftedType DEF SaveInv, QueueInv, TypeOK
  <2>3. Len(output') = Len(output) + 1
    BY <2>1, <2>2
  <2>4. FirstWritten' = FirstWritten
    BY <1>2, <2>1, <2>3 DEF FileBounds, FirstWritten
  <2>5. FirstOrNone' = FirstOrNone /\ WrittenOrNone' = WrittenOrNone + 1
    BY <1>2, <1>3, <1>4, <2>3, <2>4 DEF FileBounds
  <2>6. /\ FirstWritten \in Nat \ {0}
        /\ FirstWritten + Len(output) <= Len(save_replay_packets)
        /\ save_replay_packets[1].id \in Nat \ {0}
        /\ Len(save_replay_packets) \in Nat /\ Len(output) \in Nat
        /\ LastOrNone = save_replay_packets[1].id + Len(save_replay_packets) - 1
    BY <1>1, <1>2, <2>1 DEF LastIsNumber, FileBounds
  <2>7. FirstOrNone # 0 /\ FirstOrNone + WrittenOrNone <= LastOrNone
    BY <1>2, <2>6 DEF FileBounds
  <2> QED
    BY <1>4, <2>5, <2>7 DEF Window!Write, FirstOrNone, LastOrNone, WrittenOrNone, Dropped
<1>6. CASE SaverOpen \/ SaverHeader \/ SaverTrailer
  <2>1. UNCHANGED <<saveIndex, output>>
    BY <1>6 DEF SaverOpen, SaverHeader, SaverTrailer
  <2>2. UNCHANGED <<FirstOrNone, WrittenOrNone>>
    BY <1>2, <1>4, <2>1 DEF FirstOrNone, WrittenOrNone, FirstSaved
  <2> QED
    BY <1>4, <2>2 DEF Window!vars, FirstOrNone, LastOrNone, WrittenOrNone, Dropped
<1> QED
  BY <1>5, <1>6 DEF Saver

\* Publishing is Announce: all of the copy is in the file, if it is good.
LEMMA PublishAnnounces ==
  ASSUME SaveInv, SaverReady, Publish, UNCHANGED queueVars
  PROVE  Window!Announce
<1>1. saverPc # "invalid" /\ saverPc' = "invalid" /\ ~fileOk'
  BY DEF SaverReady, Publish, SaverReset
<1>2. LastIsNumber /\ (fileOk => FileBounds)
  BY BoundsAreNumbers DEF BoundsInv
<1>3. LastOrNone # 0
  BY <1>1, <1>2 DEF LastIsNumber
<1>4. FirstOrNone = 0 \/ FirstOrNone + WrittenOrNone = LastOrNone + 1
  <2>1. CASE fileOk
    <3>1. saveIndex = Len(save_replay_packets) + 1
      BY <2>1 DEF SaverReady, SaveInv, FileIsCopy
    <3> QED
      BY <1>1, <1>2, <2>1, <3>1 DEF LastIsNumber, FileBounds
  <2>2. CASE ~fileOk
    BY <2>2 DEF FirstOrNone
  <2> QED
    BY <2>1, <2>2
<1>5. FirstOrNone' = 0 /\ LastOrNone' = 0 /\ WrittenOrNone' = 0
  BY <1>1 DEF FirstOrNone, LastOrNone, WrittenOrNone
<1>6. UNCHANGED <<produced, Dropped>>
  BY DEF queueVars, Dropped
<1> QED
  BY <1>3, <1>4, <1>5, <1>6 DEF Window!Announce, FirstOrNone, LastOrNone, WrittenOrNone, Dropped

LEMMA StepIsWindowStep ==
  ASSUME SaveInv, SaveInv', [Next]_vars
  PROVE  [Window!Next]_(Window!vars)
<1> USE DEF Window!Next
<1>1. TypeOK
  BY DEF SaveInv, QueueInv
<1>2. CASE NotPublished /\ \E s \in Streams : receive_frames(s)
  BY <1>2, PushRecords
<1>3. CASE UNCHANGED queueVars /\ NotPublished
  BY <1>3 DEF NotPublished, queueVars, jobVars, fileVars, Window!vars, FirstSaved, LastSaved
<1>4. CASE UNCHANGED queueVars /\ save_replay_async
  BY <1>4, SnapshotSaves
<1>5. CASE UNCHANGED queueVars /\ SaverReady /\ Publish
  BY <1>5, PublishAnnounces
<1>6. CASE UNCHANGED queueVars /\ Saver
  <2>1. CASE fileOk'
    BY <1>6, <2>1, SaverWrites
  <2>2. CASE ~fileOk'
    BY <1>6, <2>2, LosingFails
  <2> QED
    BY <2>1, <2>2
<1> QED
  BY <1>1, <1>2, <1>3, <1>4, <1>5, <1>6, PushOrSave, SaveSteps

\* The buffer and its threads implement the window of ReplayWindow, for any
\* number of tracks, any buffer length and a disk that may fail or not: every
\* save is one gap-free part of the window at one instant, up to its newest
\* packet, and all of it is in the file before the file is announced, unless the
\* disk has failed.
THEOREM ImplementsReplayWindow == Spec => ImplementsWindow
<1>1. Init => Window!Init
  <2> SUFFICES ASSUME Init PROVE Window!Init
    OBVIOUS
  <2>1. /\ produced = 0 /\ frame_data_queue = <<>>
        /\ saverPc = "invalid" /\ fileOk = FALSE
    BY DEF Init
  <2>2. produced - Len(frame_data_queue) = 0
    <3>1. produced \in Int /\ Len(frame_data_queue) = produced
      BY <2>1
    <3>2. \A n \in Int : n - n = 0
      OBVIOUS
    <3> QED
      BY <3>1, <3>2
  <2> QED
    BY <2>1, <2>2 DEF Window!Init
<1>2. SaveInv /\ SaveInv' /\ [Next]_vars => [Window!Next]_(Window!vars)
  BY StepIsWindowStep
<1> QED
  BY <1>1, <1>2, SaveInvariance, PTL DEF Spec, ImplementsWindow, Window!Spec

-----------------------------------------------------------------------------
(***************************************************************************)
(* Timestamps.  Each stream's pts increase in the queue, hence in the copy *)
(* and, all packets of a stream being shifted by the same offset, in the   *)
(* file; what is left to write is later than what is written.              *)
(***************************************************************************)
PtsIncrease(q) ==
  \A i, j \in DOMAIN q : i < j /\ q[i].stream = q[j].stream => q[i].pts < q[j].pts

QueuePts ==
  /\ PtsIncrease(frame_data_queue)
  /\ \A i \in DOMAIN frame_data_queue :
       frame_data_queue[i].pts < nextPts[frame_data_queue[i].stream]

CopyPts == PtsIncrease(save_replay_packets)

LeftAreLater ==
  \A k \in DOMAIN output, j \in DOMAIN save_replay_packets :
    j >= saveIndex /\ output[k].stream = save_replay_packets[j].stream
      => output[k].pts < Shifted(save_replay_packets[j]).pts

PtsInv == QueuePts /\ CopyPts /\ PtsIncrease(output) /\ LeftAreLater

\* What Append does to a sequence of packets, element by element.
LEMMA AppendElements ==
  ASSUME NEW S, NEW q \in Seq(S), NEW e \in S
  PROVE  /\ Append(q, e) \in Seq(S)
         /\ Len(q) \in Nat
         /\ DOMAIN q = 1..Len(q)
         /\ DOMAIN Append(q, e) = 1..(Len(q) + 1)
         /\ Len(Append(q, e)) = Len(q) + 1
         /\ \A i \in 1..Len(q) : Append(q, e)[i] = q[i]
         /\ Append(q, e)[Len(q) + 1] = e
OBVIOUS

LEMMA TailElements ==
  ASSUME NEW S, NEW q \in Seq(S), q # <<>>
  PROVE  \A i \in DOMAIN Tail(q) : i \in Nat /\ i + 1 \in DOMAIN q /\ Tail(q)[i] = q[i + 1]
OBVIOUS

LEMMA ReceivePts ==
  ASSUME TypeOK, QueuePts, NEW s \in Streams, receive_frames(s)
  PROVE  QueuePts'
<1>1. PICK key \in BOOLEAN :
        frame_data_queue' = DropOldest(Append(frame_data_queue,
          [id |-> produced + 1, stream |-> s, key |-> key, pts |-> nextPts[s]]))
  BY DEF receive_frames
<1> DEFINE packet == [id |-> produced + 1, stream |-> s, key |-> key, pts |-> nextPts[s]]
           q == frame_data_queue
           pushed == Append(q, packet)
<1>2. packet \in Packet /\ packet.stream = s /\ packet.pts = nextPts[s] /\ q \in Seq(Packet)
  BY DEF TypeOK, Packet
<1>3. nextPts' = [nextPts EXCEPT ![s] = @ + 1] /\ nextPts \in [Streams -> Nat]
  BY DEF TypeOK, receive_frames
<1> HIDE DEF packet
<1>4. /\ pushed \in Seq(Packet)
      /\ Len(q) \in Nat /\ DOMAIN q = 1..Len(q)
      /\ DOMAIN pushed = 1..(Len(q) + 1)
      /\ \A i \in 1..Len(q) : pushed[i] = q[i]
      /\ pushed[Len(q) + 1] = packet
  BY <1>2, AppendElements
<1> HIDE DEF pushed
<1>5. ASSUME NEW i \in 1..Len(q)
      PROVE  q[i].stream \in Streams /\ q[i].pts \in Nat /\ q[i].pts < nextPts[q[i].stream]
  <2>1. q[i] \in Packet
    BY <1>2, <1>4
  <2> QED
    BY <1>4, <2>1 DEF Packet, QueuePts
<1>6. \A i \in DOMAIN pushed : pushed[i].pts < nextPts'[pushed[i].stream]
  <2> TAKE i \in DOMAIN pushed
  <2>1. CASE i \in 1..Len(q)
    BY <1>3, <1>4, <1>5, <2>1
  <2>2. CASE i = Len(q) + 1
    BY <1>2, <1>3, <1>4, <2>2
  <2> QED
    BY <1>4, <2>1, <2>2
<1>7. PtsIncrease(pushed)
  <2> SUFFICES ASSUME NEW i \in DOMAIN pushed, NEW j \in DOMAIN pushed,
                      i < j, pushed[i].stream = pushed[j].stream
               PROVE  pushed[i].pts < pushed[j].pts
    BY DEF PtsIncrease
  <2>1. i \in 1..Len(q)
    BY <1>4
  <2>2. CASE j \in 1..Len(q)
    BY <1>4, <2>1, <2>2 DEF QueuePts, PtsIncrease
  <2>3. CASE j = Len(q) + 1
    BY <1>2, <1>4, <1>5, <2>1, <2>3
  <2> QED
    BY <1>4, <2>2, <2>3
<1>8. CASE IsFull
  <2>1. frame_data_queue' = Tail(pushed)
    BY <1>1, <1>8 DEF DropOldest, packet, pushed
  <2>2. \A i \in DOMAIN Tail(pushed) :
          i \in Nat /\ i + 1 \in DOMAIN pushed /\ Tail(pushed)[i] = pushed[i + 1]
    <3>1. pushed # <<>>
      BY <1>4
    <3> QED
      BY <1>4, <3>1, TailElements
  <2>3. PtsIncrease(Tail(pushed))
    BY <1>7, <2>2 DEF PtsIncrease
  <2> QED
    BY <1>6, <2>1, <2>2, <2>3 DEF QueuePts
<1>9. CASE ~IsFull
  <2>1. frame_data_queue' = pushed
    BY <1>1, <1>9 DEF DropOldest, packet, pushed
  <2> QED
    BY <1>6, <1>7, <2>1 DEF QueuePts
<1> QED
  BY <1>8, <1>9

\* All packets of a stream are shifted by the same number.
LEMMA ShiftedOrder ==
  ASSUME TypeOK, NEW p \in Packet, NEW r \in Packet, p.stream = r.stream, p.pts < r.pts
  PROVE  Shifted(p).pts < Shifted(r).pts
<1>1. p.pts \in Nat /\ r.pts \in Nat
  BY DEF Packet
<1>2. PICK offset \in Nat : /\ Shifted(p).pts = p.pts - offset
                            /\ Shifted(r).pts = r.pts - offset
  <2>1. CASE p.stream = Video
    BY <2>1 DEF Shifted, Packet, TypeOK
  <2>2. CASE p.stream # Video
    BY <2>2 DEF Shifted, Packet, TypeOK
  <2> QED
    BY <2>1, <2>2
<1> QED
  BY <1>1, <1>2

LEMMA WritePts ==
  ASSUME TypeOK, PtsInv, SaverWrite, UNCHANGED jobVars
  PROVE  PtsIncrease(output') /\ LeftAreLater'
<1> DEFINE copy == save_replay_packets
           next == Shifted(copy[saveIndex])
<1>1. /\ saveIndex \in 1..Len(copy) /\ saveIndex' = saveIndex + 1
      /\ copy \in Seq(Packet) /\ DOMAIN copy = 1..Len(copy) /\ Len(copy) \in Nat
  BY DEF TypeOK, SaverWrite, PacketsLeft
<1>2. copy' = copy /\ \A j \in DOMAIN copy : Shifted(copy[j])' = Shifted(copy[j])
  BY DEF jobVars, Shifted
<1>3. copy[saveIndex] \in Packet /\ next \in Written /\ next.stream = copy[saveIndex].stream
  <2>1. copy[saveIndex] \in Packet
    BY <1>1
  <2>2. next \in Written
    BY <2>1, ShiftedType
  <2>3. next.stream = copy[saveIndex].stream
    BY <2>1 DEF Shifted, Packet
  <2> QED
    BY <2>1, <2>2, <2>3
<1>4. \A j \in DOMAIN copy : j > saveIndex /\ next.stream = copy[j].stream
                               => next.pts < Shifted(copy[j]).pts
  <2> SUFFICES ASSUME NEW j \in DOMAIN copy, j > saveIndex, next.stream = copy[j].stream
               PROVE  next.pts < Shifted(copy[j]).pts
    OBVIOUS
  <2>1. copy[j] \in Packet
    BY <1>1
  <2>2. copy[saveIndex].stream = copy[j].stream /\ saveIndex \in DOMAIN copy /\ saveIndex < j
    BY <1>1, <1>3
  <2>3. copy[saveIndex].pts < copy[j].pts
    BY <2>2 DEF PtsInv, CopyPts, PtsIncrease
  <2> QED
    BY <1>3, <2>1, <2>2, <2>3, ShiftedOrder
<1>5. CASE UNCHANGED output
  BY <1>1, <1>2, <1>5 DEF PtsInv, LeftAreLater
<1>6. CASE output' = Append(output, next)
  <2> HIDE DEF next
  <2>1. /\ Len(output) \in Nat /\ DOMAIN output = 1..Len(output)
        /\ DOMAIN output' = 1..(Len(output) + 1)
        /\ \A k \in 1..Len(output) : output'[k] = output[k]
        /\ output'[Len(output) + 1] = next
    BY <1>3, <1>6, AppendElements DEF TypeOK
  <2>2. \A k \in 1..Len(output), j \in DOMAIN copy :
          j >= saveIndex /\ output[k].stream = copy[j].stream
            => output[k].pts < Shifted(copy[j]).pts
    BY <2>1 DEF PtsInv, LeftAreLater
  <2>3. LeftAreLater'
    <3> SUFFICES ASSUME NEW k \in DOMAIN output', NEW j \in DOMAIN copy,
                        j >= saveIndex + 1, output'[k].stream = copy[j].stream
                 PROVE  output'[k].pts < Shifted(copy[j]).pts
      BY <1>1, <1>2 DEF LeftAreLater
    <3>1. CASE k \in 1..Len(output)
      BY <1>1, <2>1, <2>2, <3>1
    <3>2. CASE k = Len(output) + 1
      BY <1>1, <1>4, <2>1, <3>2
    <3> QED
      BY <2>1, <3>1, <3>2
  <2>4. PtsIncrease(output')
    <3> SUFFICES ASSUME NEW i \in DOMAIN output', NEW j \in DOMAIN output',
                        i < j, output'[i].stream = output'[j].stream
                 PROVE  output'[i].pts < output'[j].pts
      BY DEF PtsIncrease
    <3>1. i \in 1..Len(output)
      BY <2>1
    <3>2. CASE j \in 1..Len(output)
      BY <2>1, <3>1, <3>2 DEF PtsInv, PtsIncrease
    <3>3. CASE j = Len(output) + 1
      <4>1. output[i].stream = copy[saveIndex].stream
        BY <1>3, <2>1, <3>1, <3>3
      <4> QED
        BY <1>1, <2>1, <2>2, <3>1, <3>3, <4>1 DEF next
    <3> QED
      BY <2>1, <3>2, <3>3
  <2> QED
    BY <2>3, <2>4
<1> QED
  BY <1>5, <1>6 DEF SaverWrite

LEMMA NextPtsInv ==
  ASSUME QueueInv, PtsInv, [Next]_vars
  PROVE  PtsInv'
<1>1. QueuePts'
  <2>1. CASE UNCHANGED queueVars
    BY <2>1 DEF PtsInv, QueuePts, queueVars
  <2> QED
    BY <2>1, QueueSteps, ReceivePts DEF QueueInv, PtsInv
<1>2. CASE NotPublished
  BY <1>1, <1>2 DEF NotPublished, jobVars, fileVars, PtsInv, CopyPts, LeftAreLater, Shifted
<1>3. CASE save_replay_async
  <2>1. save_replay_packets' = frame_data_queue /\ output' = <<>>
    BY <1>3 DEF save_replay_async
  <2>2. DOMAIN output' = {}
    BY <2>1
  <2> QED
    BY <1>1, <2>1, <2>2 DEF PtsInv, QueuePts, CopyPts, PtsIncrease, LeftAreLater
<1>4. CASE Publish
  <2>1. DOMAIN save_replay_packets' = {} /\ DOMAIN output' = {}
    BY <1>4 DEF Publish, SaverReset
  <2> QED
    BY <1>1, <2>1 DEF PtsInv, CopyPts, PtsIncrease, LeftAreLater
<1>5. CASE Saver
  <2>1. UNCHANGED jobVars
    BY <1>5, SaverLeaves DEF QueueInv
  <2>2. CopyPts'
    BY <2>1 DEF PtsInv, CopyPts, jobVars
  <2>3. PtsIncrease(output') /\ LeftAreLater'
    <3>1. CASE SaverWrite
      BY <2>1, <3>1, WritePts DEF QueueInv
    <3>2. CASE UNCHANGED <<saveIndex, output>>
      BY <2>1, <3>2 DEF PtsInv, LeftAreLater, Shifted, jobVars
    <3> QED
      BY <1>5, <3>1, <3>2 DEF Saver, SaverOpen, SaverHeader, SaverTrailer
  <2> QED
    BY <1>1, <2>2, <2>3 DEF PtsInv
<1> QED
  BY <1>2, <1>3, <1>4, <1>5, SaveSteps DEF QueueInv

LEMMA InitPts == Init => PtsInv
<1> SUFFICES ASSUME Init PROVE PtsInv
  OBVIOUS
<1>1. DOMAIN frame_data_queue = {} /\ DOMAIN save_replay_packets = {} /\ DOMAIN output = {}
  BY DEF Init
<1> QED
  BY <1>1 DEF PtsInv, QueuePts, CopyPts, PtsIncrease, LeftAreLater

LEMMA PtsInvariance == Spec => [](QueueInv /\ PtsInv)
<1>1. Init => QueueInv /\ PtsInv
  BY InitQueue, InitPts
<1>2. QueueInv /\ PtsInv /\ [Next]_vars => QueueInv' /\ PtsInv'
  BY NextQueue, NextPtsInv
<1> QED
  BY <1>1, <1>2, PTL DEF Spec

\* In a saved file the timestamps of each stream strictly increase, for any
\* number of audio tracks and also when the disk loses packets.
THEOREM StreamsIncrease == Spec => []PtsIncrease(output)
BY PtsInvariance, PTL DEF PtsInv

-----------------------------------------------------------------------------
(***************************************************************************)
(* One offset serves all the audio tracks: it is the pts of the first      *)
(* audio packet of the file, so nothing is negative if there is one track  *)
(* only.                                                                   *)
(***************************************************************************)
LeftNotNegative ==
  \A j \in DOMAIN save_replay_packets :
    j >= saveIndex => Shifted(save_replay_packets[j]).pts >= 0

FileNotNegative == \A k \in DOMAIN output : output[k].pts >= 0

SignInv == LeftNotNegative /\ FileNotNegative

LEMMA AudioOffsetBelow ==
  ASSUME \A a, b \in Audio : a = b,
         NEW q \in Seq(Packet), PtsIncrease(q), NEW i \in DOMAIN q,
         NEW j \in DOMAIN q, j >= i, q[j].stream # Video
  PROVE  AudioOffset(q, i) <= q[j].pts
<1> DEFINE FirstAudio(k) == /\ k >= i
                            /\ q[k].stream # Video
                            /\ \A m \in DOMAIN q : m \in i..(k - 1) => q[m].stream = Video
           k0 == CHOOSE k \in DOMAIN q : FirstAudio(k)
<1>1. q[j].pts \in Nat /\ q[j].stream \in Audio /\ i \in Nat /\ j \in Nat
  <2>1. q[j] \in Packet
    OBVIOUS
  <2> QED
    BY <2>1 DEF Packet, Streams
<1>2. CASE \E k \in DOMAIN q : FirstAudio(k)
  <2>1. k0 \in DOMAIN q /\ FirstAudio(k0)
    BY <1>2
  <2> HIDE DEF k0
  <2>2. k0 \in Nat /\ q[k0].pts \in Nat /\ q[k0].stream \in Audio
    <3>1. q[k0] \in Packet
      BY <2>1
    <3> QED
      BY <2>1, <3>1 DEF Packet, Streams
  <2>3. q[k0].stream = q[j].stream
    BY <1>1, <2>2
  <2>4. k0 <= j
    <3>1. SUFFICES ASSUME j < k0 PROVE FALSE
      BY <1>1, <2>2
    <3>2. j \in i..(k0 - 1)
      BY <1>1, <2>2, <3>1
    <3> QED
      BY <2>1, <3>2
  <2>5. q[k0].pts <= q[j].pts
    <3>1. CASE k0 = j
      BY <1>1, <3>1
    <3>2. CASE k0 < j
      BY <1>1, <2>1, <2>2, <2>3, <3>2 DEF PtsIncrease
    <3> QED
      BY <1>1, <2>2, <2>4, <3>1, <3>2
  <2> QED
    BY <1>2, <2>5 DEF AudioOffset, k0
<1>3. CASE ~\E k \in DOMAIN q : FirstAudio(k)
  BY <1>1, <1>3 DEF AudioOffset
<1> QED
  BY <1>2, <1>3

\* The offsets are those of the first packets that are copied to the file.
LEMMA SnapshotSign ==
  ASSUME \A a, b \in Audio : a = b, QueueInv, QueuePts, save_replay_async
  PROVE  LeftNotNegative'
<1> DEFINE q == frame_data_queue
<1>1. PICK i \in 1..Len(q) :
        /\ FirstKeyAt(q, i)
        /\ saveIndex' = StartIndex(i)
        /\ videoPtsOffset' = IF erasedArg THEN q[i].pts ELSE 0
        /\ audioPtsOffset' = IF erasedArg THEN AudioOffset(q, i) ELSE 0
  BY CopyTaken
<1>2. save_replay_packets' = q
  BY DEF save_replay_async
<1>3. q \in Seq(Packet) /\ DOMAIN q = 1..Len(q) /\ Len(q) \in Nat /\ PtsIncrease(q)
  BY DEF QueueInv, TypeOK, QueuePts
<1>4. i \in DOMAIN q /\ q[i] \in Packet /\ q[i].stream = Video
  BY <1>1, <1>3 DEF FirstKeyAt, IsVideoKey
<1> SUFFICES ASSUME NEW j \in DOMAIN q, j >= saveIndex'
             PROVE  Shifted(save_replay_packets[j])'.pts >= 0
  BY <1>2 DEF LeftNotNegative
<1> DEFINE offset == IF q[j].stream = Video THEN videoPtsOffset' ELSE audioPtsOffset'
<1>5. q[j] \in Packet /\ q[j].pts \in Nat /\ q[i].pts \in Nat
  <2>1. q[j] \in Packet
    BY <1>3
  <2> QED
    BY <1>4, <2>1 DEF Packet
<1>6. Shifted(save_replay_packets[j])'.pts = q[j].pts - offset
  BY <1>2, <1>5 DEF Shifted, Packet
<1>7. offset \in Nat /\ offset <= q[j].pts
  <2>1. CASE ~erasedArg
    BY <1>1, <1>5, <2>1
  <2>2. CASE erasedArg
    <3>1. saveIndex' = i /\ i \in Nat /\ j \in Nat /\ j >= i
      BY <1>1, <1>3, <2>2 DEF StartIndex
    <3>2. CASE q[j].stream = Video
      <4>1. q[i].pts <= q[j].pts
        <5>1. CASE i = j
          BY <1>5, <5>1
        <5>2. CASE i < j
          BY <1>3, <1>4, <1>5, <3>2, <5>2 DEF PtsIncrease
        <5> QED
          BY <3>1, <5>1, <5>2
      <4> QED
        BY <1>1, <1>5, <2>2, <3>2, <4>1
    <3>3. CASE q[j].stream # Video
      <4>1. AudioOffset(q, i) <= q[j].pts
        BY <1>3, <1>4, <3>1, <3>3, AudioOffsetBelow
      <4>2. AudioOffset(q, i) \in Nat
        BY <1>3, <3>1, AudioOffsetType
      <4> QED
        BY <1>1, <2>2, <3>3, <4>1, <4>2
    <3> QED
      BY <3>2, <3>3
  <2> QED
    BY <2>1, <2>2 DEF QueueInv, TypeOK
<1> HIDE DEF offset
<1> QED
  BY <1>5, <1>6, <1>7

LEMMA NextSign ==
  ASSUME \A a, b \in Audio : a = b, QueueInv, PtsInv, SignInv, [Next]_vars
  PROVE  SignInv'
<1>1. CASE NotPublished
  BY <1>1 DEF NotPublished, jobVars, fileVars, SignInv, LeftNotNegative, FileNotNegative, Shifted
<1>2. CASE save_replay_async
  <2>1. output' = <<>>
    BY <1>2 DEF save_replay_async
  <2>2. DOMAIN output' = {}
    BY <2>1
  <2> QED
    BY <1>2, <2>2, SnapshotSign DEF PtsInv, SignInv, FileNotNegative
<1>3. CASE Publish
  <2>1. DOMAIN save_replay_packets' = {} /\ DOMAIN output' = {}
    BY <1>3 DEF Publish, SaverReset
  <2> QED
    BY <2>1 DEF SignInv, LeftNotNegative, FileNotNegative
<1>4. CASE Saver
  <2>1. UNCHANGED jobVars
    BY <1>4, SaverLeaves DEF QueueInv
  <2>2. CASE UNCHANGED <<saveIndex, output>>
    BY <2>1, <2>2 DEF SignInv, LeftNotNegative, FileNotNegative, Shifted, jobVars
  <2>3. CASE SaverWrite
    <3> DEFINE copy == save_replay_packets
               next == Shifted(copy[saveIndex])
    <3>1. /\ saveIndex \in 1..Len(copy) /\ saveIndex' = saveIndex + 1
          /\ copy \in Seq(Packet) /\ DOMAIN copy = 1..Len(copy)
      BY <2>3 DEF QueueInv, TypeOK, SaverWrite, PacketsLeft
    <3>2. copy[saveIndex] \in Packet
      BY <3>1
    <3>3. next \in Written /\ next.pts >= 0
      BY <3>1, <3>2, ShiftedType DEF QueueInv, SignInv, LeftNotNegative
    <3>4. LeftNotNegative'
      BY <2>1, <3>1 DEF SignInv, LeftNotNegative, Shifted, jobVars
    <3>5. CASE output' = Append(output, next)
      <4> HIDE DEF next
      <4>1. /\ Len(output) \in Nat /\ DOMAIN output = 1..Len(output)
            /\ DOMAIN output' = 1..(Len(output) + 1)
            /\ \A k \in 1..Len(output) : output'[k] = output[k]
            /\ output'[Len(output) + 1] = next
        BY <3>3, <3>5, AppendElements DEF QueueInv, TypeOK
      <4>2. ASSUME NEW k \in DOMAIN output'
            PROVE  output'[k].pts >= 0
        <5>1. CASE k \in 1..Len(output)
          BY <4>1, <5>1 DEF SignInv, FileNotNegative
        <5>2. CASE k = Len(output) + 1
          BY <3>3, <4>1, <5>2
        <5> QED
          BY <4>1, <5>1, <5>2
      <4> QED
        BY <3>4, <4>2 DEF SignInv, FileNotNegative
    <3>6. CASE UNCHANGED output
      BY <3>4, <3>6 DEF SignInv, FileNotNegative
    <3> QED
      BY <2>3, <3>5, <3>6 DEF SaverWrite
  <2> QED
    BY <1>4, <2>2, <2>3 DEF Saver, SaverOpen, SaverHeader, SaverTrailer
<1> QED
  BY <1>1, <1>2, <1>3, <1>4, SaveSteps DEF QueueInv

\* With at most one audio track, whatever it is encoded by, every file has valid
\* timestamps: none is negative and each stream's increase.
THEOREM FilePtsValid ==
  ASSUME \A a, b \in Audio : a = b
  PROVE  Spec => []FilePtsAreValid
<1>1. Init => SignInv
  <2> SUFFICES ASSUME Init PROVE SignInv
    OBVIOUS
  <2>1. DOMAIN save_replay_packets = {} /\ DOMAIN output = {}
    BY DEF Init
  <2> QED
    BY <2>1 DEF SignInv, LeftNotNegative, FileNotNegative
<1>2. QueueInv /\ PtsInv /\ SignInv /\ [Next]_vars => SignInv'
  BY NextSign
<1>3. PtsInv /\ SignInv => FilePtsAreValid
  BY DEF PtsInv, SignInv, PtsIncrease, FileNotNegative, FilePtsAreValid
<1> QED
  BY <1>1, <1>2, <1>3, PtsInvariance, PTL DEF Spec

-----------------------------------------------------------------------------
(***************************************************************************)
(* Key frames.  As long as nothing has been dropped the first video packet *)
(* of the queue is the encoder's first, a key frame.  Without an audio     *)
(* thread only main pushes, so the frames_erased that save_replay_async is *)
(* given is still right when it takes the lock.                            *)
(***************************************************************************)
FirstVideoIsKey(q, i) ==
  \A j \in DOMAIN q :
    /\ j >= i
    /\ q[j].stream = Video
    /\ \A m \in DOMAIN q : m \in i..(j - 1) => q[m].stream # Video
    => q[j].key

QueueKeys ==
  ~frames_erased =>
    /\ FirstVideoIsKey(frame_data_queue, 1)
    /\ (\A j \in DOMAIN frame_data_queue : frame_data_queue[j].stream # Video)
         => nextPts[Video] = 0

ArgIsFresh == mainPc = "snapshot" => erasedArg = frames_erased

FileKeys == fileOk => FirstVideoIsKey(save_replay_packets, FirstWritten)

KeyInv == QueueKeys /\ ArgIsFresh /\ FileKeys

LEMMA ReceiveKeys ==
  ASSUME TypeOK, QueueKeys, NEW s \in Streams, receive_frames(s)
  PROVE  QueueKeys'
<1>1. PICK key \in BOOLEAN :
        /\ (s # Video \/ nextPts[s] = 0) => key
        /\ frame_data_queue' = DropOldest(Append(frame_data_queue,
             [id |-> produced + 1, stream |-> s, key |-> key, pts |-> nextPts[s]]))
  BY DEF receive_frames
<1> DEFINE packet == [id |-> produced + 1, stream |-> s, key |-> key, pts |-> nextPts[s]]
           q == frame_data_queue
           pushed == Append(q, packet)
<1>2. packet \in Packet /\ packet.stream = s /\ packet.key = key /\ q \in Seq(Packet)
  BY DEF TypeOK, Packet
<1>3. nextPts' = [nextPts EXCEPT ![s] = @ + 1] /\ nextPts \in [Streams -> Nat]
  BY DEF TypeOK, receive_frames
<1> HIDE DEF packet
<1>4. /\ Len(q) \in Nat /\ DOMAIN q = 1..Len(q)
      /\ DOMAIN pushed = 1..(Len(q) + 1)
      /\ \A i \in 1..Len(q) : pushed[i] = q[i]
      /\ pushed[Len(q) + 1] = packet
  BY <1>2, AppendElements
<1> HIDE DEF pushed
<1> SUFFICES ASSUME ~frames_erased'
             PROVE  /\ FirstVideoIsKey(frame_data_queue', 1)
                    /\ (\A j \in DOMAIN frame_data_queue' : frame_data_queue'[j].stream # Video)
                         => nextPts'[Video] = 0
  BY DEF QueueKeys, FirstVideoIsKey
<1>5. ~frames_erased /\ ~IsFull
  BY DEF receive_frames
<1>6. frame_data_queue' = pushed
  BY <1>1, <1>5 DEF DropOldest, pushed, packet
<1>7. FirstVideoIsKey(q, 1) /\ ((\A j \in DOMAIN q : q[j].stream # Video) => nextPts[Video] = 0)
  BY <1>5 DEF QueueKeys
<1>8. FirstVideoIsKey(pushed, 1)
  <2> SUFFICES ASSUME NEW j \in DOMAIN pushed, pushed[j].stream = Video,
                      \A m \in DOMAIN pushed : m \in 1..(j - 1) => pushed[m].stream # Video
               PROVE  pushed[j].key
    BY DEF FirstVideoIsKey
  <2>1. CASE j \in 1..Len(q)
    <3>1. \A m \in DOMAIN q : m \in 1..(j - 1) => q[m].stream # Video
      BY <1>4, <2>1
    <3>2. q[j].stream = Video /\ j >= 1 /\ j \in DOMAIN q
      BY <1>4, <2>1
    <3> QED
      BY <1>4, <1>7, <2>1, <3>1, <3>2 DEF FirstVideoIsKey
  <2>2. CASE j = Len(q) + 1
    <3>1. \A m \in DOMAIN q : q[m].stream # Video
      BY <1>4, <2>2
    <3>2. s = Video /\ nextPts[Video] = 0
      BY <1>2, <1>4, <1>7, <2>2, <3>1
    <3> QED
      BY <1>1, <1>2, <1>4, <2>2, <3>2
  <2> QED
    BY <1>4, <2>1, <2>2
<1>9. ASSUME \A j \in DOMAIN pushed : pushed[j].stream # Video
      PROVE  nextPts'[Video] = 0
  <2>1. \A j \in DOMAIN q : q[j].stream # Video
    BY <1>4, <1>9
  <2>2. s # Video
    BY <1>2, <1>4, <1>9
  <2> QED
    BY <1>3, <1>7, <2>1, <2>2 DEF Streams
<1> QED
  BY <1>6, <1>8, <1>9

\* Only main pushes, and not while it takes the copy.
LEMMA NextArg ==
  ASSUME Direct = {}, TypeOK, ArgIsFresh, [Next]_vars
  PROVE  ArgIsFresh'
<1>1. CASE Tick \/ save_replay_handler \/ stop_handler \/ Terminated \/ UNCHANGED vars
  BY <1>1 DEF Tick, save_replay_handler, stop_handler, Terminated, vars, mainVars,
    queueVars, ArgIsFresh
<1>2. CASE Saver
  BY <1>2, SaverLeaves DEF mainVars, queueVars, ArgIsFresh
<1>3. CASE MainRequest
  BY <1>3 DEF MainRequest, MainGoto, queueVars, ArgIsFresh
<1>4. CASE Main /\ ~MainRequest
  <2>1. mainPc' # "snapshot"
    BY <1>4 DEF Main, MainHead, MainDrain, MainVideo, MainPublish, SaveNothing,
      save_replay_async, MainStopping, MainJoin, MainGoto
  <2> QED
    BY <2>1 DEF ArgIsFresh
<1> QED
  BY <1>1, <1>2, <1>3, <1>4 DEF Next

\* The copy is written from its first key frame, or from the encoder's first.
LEMMA SnapshotKeys ==
  ASSUME QueueInv, QueueKeys, ArgIsFresh, save_replay_async
  PROVE  FileKeys'
<1> DEFINE q == frame_data_queue
<1>1. PICK i \in 1..Len(q) : FirstKeyAt(q, i) /\ saveIndex' = StartIndex(i)
  BY CopyTaken
<1>2. /\ save_replay_packets' = q /\ output' = <<>> /\ erasedArg = frames_erased
      /\ DOMAIN q = 1..Len(q) /\ Len(q) \in Nat
  BY DEF save_replay_async, MainGoto, ArgIsFresh, QueueInv, TypeOK
<1>3. FirstVideoIsKey(q, StartIndex(i))
  <2>1. CASE frames_erased
    <3> SUFFICES ASSUME NEW j \in DOMAIN q, j >= i, q[j].stream = Video,
                        \A m \in DOMAIN q : m \in i..(j - 1) => q[m].stream # Video
                 PROVE  q[j].key
      BY <1>2, <2>1 DEF FirstVideoIsKey, StartIndex
    <3>1. q[i].stream = Video /\ q[i].key
      BY <1>1 DEF FirstKeyAt, IsVideoKey
    <3>2. i = j
      <4>1. SUFFICES ASSUME i < j PROVE FALSE
        BY <1>2
      <4>2. i \in DOMAIN q /\ i \in i..(j - 1)
        BY <1>2, <4>1
      <4> QED
        BY <3>1, <4>2
    <3> QED
      BY <3>1, <3>2
  <2>2. CASE ~frames_erased
    BY <1>2, <2>2 DEF QueueKeys, StartIndex
  <2> QED
    BY <2>1, <2>2
<1>4. FirstWritten' = StartIndex(i)
  <2>1. Len(output') = 0
    BY <1>2
  <2>2. StartIndex(i) \in Int
    BY <1>2 DEF StartIndex
  <2>3. FirstWritten' = StartIndex(i) - 0
    BY <1>1, <2>1 DEF FirstWritten
  <2> QED
    BY <2>2, <2>3
<1> QED
  BY <1>2, <1>3, <1>4 DEF FileKeys

\* While the file is good its beginning does not move.
LEMMA FirstStays ==
  ASSUME TypeOK, TypeOK', Saver, fileOk'
  PROVE  fileOk /\ FirstWritten' = FirstWritten /\ UNCHANGED save_replay_packets
<1>1. UNCHANGED save_replay_packets
  BY SaverLeaves DEF jobVars
<1>2. CASE SaverWrite
  <2>1. /\ fileOk
        /\ output' = Append(output, Shifted(save_replay_packets[saveIndex]))
        /\ saveIndex' = saveIndex + 1
    BY <1>2 DEF SaverWrite, TypeOK
  <2>2. /\ save_replay_packets \in Seq(Packet)
        /\ saveIndex \in 1..Len(save_replay_packets)
    BY <1>2 DEF SaverWrite, PacketsLeft, TypeOK
  <2>3. save_replay_packets[saveIndex] \in Packet
    BY <2>2
  <2>4. output \in Seq(Written) /\ Shifted(save_replay_packets[saveIndex]) \in Written
    BY <2>3, ShiftedType DEF TypeOK
  <2>5. Len(output') = Len(output) + 1 /\ Len(output) \in Nat
    BY <2>1, <2>4
  <2> QED
    BY <1>1, <2>1, <2>2, <2>5 DEF FirstWritten
<1>3. CASE SaverOpen \/ SaverHeader \/ SaverTrailer
  BY <1>1, <1>3 DEF SaverOpen, SaverHeader, SaverTrailer, FirstWritten, TypeOK
<1> QED
  BY <1>2, <1>3 DEF Saver

LEMMA NextKeys ==
  ASSUME Direct = {}, QueueInv, QueueInv', KeyInv, [Next]_vars
  PROVE  KeyInv'
<1>1. QueueKeys'
  <2>1. CASE UNCHANGED queueVars
    BY <2>1 DEF KeyInv, QueueKeys, queueVars
  <2> QED
    BY <2>1, QueueSteps, ReceiveKeys DEF QueueInv, KeyInv
<1>2. ArgIsFresh'
  BY NextArg DEF QueueInv, KeyInv
<1>3. FileKeys'
  <2>1. CASE NotPublished
    BY <2>1 DEF NotPublished, jobVars, fileVars, KeyInv, FileKeys, FirstWritten
  <2>2. CASE save_replay_async
    BY <2>2, SnapshotKeys DEF KeyInv
  <2>3. CASE Publish
    BY <2>3 DEF Publish, SaverReset, FileKeys
  <2>4. CASE Saver
    BY <2>4, FirstStays DEF QueueInv, KeyInv, FileKeys
  <2> QED
    BY <2>1, <2>2, <2>3, <2>4, SaveSteps DEF QueueInv
<1> QED
  BY <1>1, <1>2, <1>3 DEF KeyInv

LEMMA InitKeys == Init => KeyInv
<1> SUFFICES ASSUME Init PROVE KeyInv
  OBVIOUS
<1>1. DOMAIN frame_data_queue = {} /\ nextPts[Video] = 0
  BY DEF Init, Streams
<1>2. fileOk = FALSE /\ mainPc = "head"
  BY DEF Init
<1> QED
  BY <1>1, <1>2 DEF KeyInv, QueueKeys, FirstVideoIsKey, ArgIsFresh, FileKeys

\* Without an audio thread, every file the disk takes can be decoded from its
\* first video packet, however the saves fall between the key frames and the
\* moment the buffer fills.
THEOREM StartsAtKeyframe ==
  ASSUME Direct = {}
  PROVE  Spec => [](fileOk => FileStartsAtKeyframe)
<1>1. Init => KeyInv
  BY InitKeys
<1>2. QueueInv /\ QueueInv' /\ KeyInv /\ [Next]_vars => KeyInv'
  BY NextKeys
<1>3. SaveInv /\ KeyInv => (fileOk => FileStartsAtKeyframe)
  <2> SUFFICES ASSUME SaveInv, KeyInv, fileOk, NEW i \in DOMAIN output,
                      output[i].stream = Video,
                      \A j \in 1..(i - 1) : output[j].stream # Video
               PROVE  output[i].key
    BY DEF FileStartsAtKeyframe
  <2> DEFINE copy == save_replay_packets
             at(k) == FirstWritten + k - 1
  <2>1. /\ copy \in Seq(Packet) /\ DOMAIN copy = 1..Len(copy) /\ Len(copy) \in Nat
        /\ Len(output) \in Nat /\ DOMAIN output = 1..Len(output) /\ saveIndex \in Nat
    BY DEF SaveInv, QueueInv, TypeOK
  <2>2. /\ saveIndex <= Len(copy) + 1
        /\ FirstWritten \in 1..Len(copy)
        /\ \A k \in DOMAIN output : output[k] = Shifted(copy[at(k)])
    BY DEF SaveInv, FileIsCopy
  <2>3. ASSUME NEW k \in DOMAIN output
        PROVE  /\ at(k) \in DOMAIN copy
               /\ output[k].stream = copy[at(k)].stream
               /\ output[k].key = copy[at(k)].key
    <3>1. at(k) \in DOMAIN copy
      BY <2>1, <2>2 DEF FirstWritten
    <3>2. copy[at(k)] \in Packet
      BY <2>1, <3>1
    <3> HIDE DEF at
    <3> QED
      BY <2>2, <3>1, <3>2 DEF Shifted, Packet
  <2>4. FirstVideoIsKey(copy, FirstWritten)
    BY DEF KeyInv, FileKeys
  <2>5. ASSUME NEW m \in DOMAIN copy, m \in FirstWritten..(at(i) - 1)
        PROVE  copy[m].stream # Video
    <3> DEFINE k == m - FirstWritten + 1
    <3>1. k \in 1..(i - 1) /\ k \in DOMAIN output /\ at(k) = m
      BY <2>1, <2>2, <2>5
    <3> HIDE DEF k, at
    <3> QED
      BY <2>3, <3>1
  <2>6. at(i) >= FirstWritten /\ copy[at(i)].stream = Video /\ at(i) \in DOMAIN copy
    BY <2>1, <2>2, <2>3
  <2> HIDE DEF at
  <2>7. copy[at(i)].key
    BY <2>4, <2>5, <2>6 DEF FirstVideoIsKey
  <2> QED
    BY <2>3, <2>7
<1> QED
  BY <1>1, <1>2, <1>3, QueueInvariance, SaveInvariance, PTL DEF Spec
=============================================================================
