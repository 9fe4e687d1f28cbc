------------------------------- MODULE Replay -------------------------------
(***************************************************************************)
(* The replay buffer of gpu-screen-recorder in replay mode (option -r):    *)
(* encoded packets are kept in frame_data_queue, the oldest packet is      *)
(* dropped for every new one once the buffer is full, and SIGUSR1 asks the *)
(* main thread to hand a copy of the queue to a thread that muxes it into  *)
(* a file (src/src/main.cpp: receive_frames, save_replay_async, main).     *)
(*                                                                         *)
(* Threads: the main thread (encodes video, drains the mixed audio tracks, *)
(* starts and publishes saves), one audio thread per directly encoded      *)
(* audio track, the thread of the save in flight, and the signal handlers. *)
(* Every push and the snapshot of the queue hold write_output_mutex, so    *)
(* each is one atomic action; everything else interleaves.                 *)
(***************************************************************************)
EXTENDS Integers, Sequences

CONSTANTS
  Video,        \* VIDEO_STREAM_INDEX
  Direct,       \* audio tracks encoded by the audio thread of their device
  Mixed,        \* audio tracks with a filter graph: encoded by the main thread
  ReplaySecs,   \* replay_buffer_size_secs, in ticks of the clock
  DiskCanFail,  \* whether opening or writing the saved file may fail
  MaxTime,      \* bound: last value of the clock
  MaxPackets,   \* bound: packets produced by all the encoders together
  MaxSignals    \* bound: SIGUSR1 signals received

Audio == Direct \cup Mixed
Streams == {Video} \cup Audio

ASSUME StreamsAssumption ==
  /\ Video \notin Audio
  /\ Direct \cap Mixed = {}
ASSUME LimitsAssumption ==
  /\ ReplaySecs \in Nat \ {0}
  /\ MaxTime \in Nat
  /\ MaxPackets \in Nat
  /\ MaxSignals \in Nat
  /\ DiskCanFail \in BOOLEAN

VARIABLES
  clock,               \* monotonic clock minus paused_time_offset
  running,             \* the flag cleared by SIGINT and by the main thread
  save_replay,         \* the flag set by SIGUSR1
  signals,             \* SIGUSR1 signals received so far
  frame_data_queue,    \* the packets kept, oldest first
  frames_erased,       \* a packet has been dropped from the queue
  produced,            \* packets produced so far, by all the encoders
  nextPts,             \* per stream, the pts of its next packet
  mainPc,              \* where the main thread is in its loop
  erasedArg,           \* frames_erased as passed by value to save_replay_async
  audioPc,             \* where each audio thread is in its loop
  saverPc,             \* the save thread; "invalid": save_replay_thread.valid() is false
  save_replay_packets, \* the copy of the queue the save thread reads
  saveIndex,           \* its next packet
  videoPtsOffset, audioPtsOffset, \* what it subtracts from the pts
  output,              \* the packets it has written to the file, in order
  fileOk,              \* every call that wrote the file succeeded
  saves, publishes     \* saves started; files announced on stdout

mainVars == <<mainPc, erasedArg>>
queueVars == <<frame_data_queue, frames_erased, produced, nextPts>>
jobVars == <<save_replay_packets, videoPtsOffset, audioPtsOffset>>
fileVars == <<saveIndex, output, fileOk>>
signalVars == <<running, save_replay, signals>>
countVars == <<saves, publishes>>
vars == <<clock, signalVars, queueVars, mainVars, audioPc, saverPc, jobVars,
          fileVars, countVars>>

(***************************************************************************)
(* id numbers the packets in the order they were pushed: it is not in the  *)
(* code, it is for the properties.                                         *)
(***************************************************************************)
Packet == [id : Nat, stream : Streams, key : BOOLEAN, pts : Nat]
Written == [id : Nat, stream : Streams, key : BOOLEAN, pts : Int]

Init ==
  /\ clock = 0
  /\ running = TRUE
  /\ save_replay = FALSE
  /\ signals = 0
  /\ frame_data_queue = <<>>
  /\ frames_erased = FALSE
  /\ produced = 0
  /\ nextPts = [s \in Streams |-> 0]
  /\ mainPc = "head"
  /\ erasedArg = FALSE
  /\ audioPc = [s \in Direct |-> "head"]
  /\ saverPc = "invalid"
  /\ save_replay_packets = <<>>
  /\ saveIndex = 1
  /\ videoPtsOffset = 0
  /\ audioPtsOffset = 0
  /\ output = <<>>
  /\ fileOk = FALSE
  /\ saves = 0
  /\ publishes = 0

-----------------------------------------------------------------------------
(* The environment: time and signals.                                      *)

Tick ==
  /\ clock < MaxTime
  /\ clock' = clock + 1
  /\ UNCHANGED <<signalVars, queueVars, mainVars, audioPc, saverPc, jobVars,
                 fileVars, countVars>>

save_replay_handler ==
  /\ mainPc # "exited"
  /\ signals < MaxSignals
  /\ signals' = signals + 1
  /\ save_replay' = TRUE
  /\ UNCHANGED <<clock, running, queueVars, mainVars, audioPc, saverPc,
                 jobVars, fileVars, countVars>>

stop_handler ==
  /\ mainPc # "exited"
  /\ running
  /\ running' = FALSE
  /\ UNCHANGED <<clock, save_replay, signals, queueVars, mainVars, audioPc,
                 saverPc, jobVars, fileVars, countVars>>

-----------------------------------------------------------------------------
(***************************************************************************)
(* receive_frames for one packet of stream s: it is appended to the queue  *)
(* and, once the recording is as long as the buffer, the oldest packet is  *)
(* dropped.  The first packet of the video encoder is a key frame and it   *)
(* chooses which of the later ones are; every audio packet has the key     *)
(* flag.                                                                   *)
(***************************************************************************)
IsFull == clock >= ReplaySecs

\* mutation: only a video packet drops another one
DropForVideo(q) == IF IsFull /\ q[Len(q)].stream = Video THEN Tail(q) ELSE q
DropNewest(q) == IF IsFull THEN SubSeq(q, 1, Len(q) - 1) ELSE q  \* mutation: pop_back
DropOldest(q) == IF IsFull THEN Tail(q) ELSE q

receive_frames(s) ==
  /\ produced < MaxPackets
  /\ produced' = produced + 1
  /\ nextPts' = [nextPts EXCEPT ![s] = @ + 1]
  /\ \E key \in BOOLEAN :
       LET packet == [id |-> produced + 1, stream |-> s, key |-> key,
                      pts |-> nextPts[s]]
       IN  /\ (s # Video \/ nextPts[s] = 0) => key
           /\ frame_data_queue' = DropOldest(Append(frame_data_queue, packet))
  /\ frames_erased' = (frames_erased \/ IsFull)

-----------------------------------------------------------------------------
(* The main thread: one loop of main, in the order of its statements.      *)

MainGoto(from, to) ==
  /\ mainPc = from
  /\ mainPc' = to

MainUnchanged == UNCHANGED <<clock, signals, audioPc>>

\* while(running), and the capture that asks the program to stop.
MainHead ==
  /\ \/ running /\ MainGoto("head", "drain") /\ UNCHANGED running
     \/ running /\ MainGoto("head", "stopping") /\ running' = FALSE
     \/ ~running /\ MainGoto("head", "stopping") /\ UNCHANGED running
  /\ MainUnchanged
  /\ UNCHANGED <<save_replay, queueVars, erasedArg, saverPc, jobVars, fileVars,
                 countVars>>

\* The frames of the mixed audio tracks are encoded until the sinks are empty.
MainDrain ==
  /\ \/ mainPc = "drain" /\ UNCHANGED mainPc /\ \E s \in Mixed : receive_frames(s)
     \/ MainGoto("drain", "video") /\ UNCHANGED queueVars
  /\ MainUnchanged
  /\ UNCHANGED <<running, save_replay, erasedArg, saverPc, jobVars, fileVars,
                 countVars>>

\* A due video frame is encoded num_frames times, possibly none.
MainVideo ==
  /\ \/ mainPc = "video" /\ UNCHANGED mainPc /\ receive_frames(Video)
     \/ MainGoto("video", "publish") /\ UNCHANGED queueVars
  /\ MainUnchanged
  /\ UNCHANGED <<running, save_replay, erasedArg, saverPc, jobVars, fileVars,
                 countVars>>

\* The state of the save thread when there is none.
SaverReset ==
  /\ save_replay_packets' = <<>>
  /\ videoPtsOffset' = 0
  /\ audioPtsOffset' = 0
  /\ saveIndex' = 1
  /\ output' = <<>>
  /\ fileOk' = FALSE

\* get(); the path is printed, the script is started, the copy is released.
Publish ==
  /\ saverPc' = "invalid"
  /\ publishes' = publishes + 1
  /\ SaverReset
  /\ UNCHANGED saves

SaverValid == saverPc # "invalid"  \* mutation: wait_for is not asked
SaverReady == saverPc = "done"
NotPublished == UNCHANGED <<saverPc, jobVars, fileVars, countVars>>

MainPublish ==
  /\ MainGoto("publish", "request")
  /\ IF SaverReady THEN Publish ELSE NotPublished
  /\ MainUnchanged
  /\ UNCHANGED <<running, save_replay, queueVars, erasedArg>>

\* The request is taken and the arguments of save_replay_async are evaluated;
\* frames_erased is read here, without the lock.
MainRequest ==
  /\ IF save_replay /\ saverPc = "invalid"
       THEN /\ MainGoto("request", "snapshot")
            /\ save_replay' = FALSE
            /\ erasedArg' = frames_erased
       ELSE MainGoto("request", "head") /\ UNCHANGED <<save_replay, erasedArg>>
  /\ MainUnchanged
  /\ UNCHANGED <<running, queueVars, saverPc, jobVars, fileVars, countVars>>

IsKey(p) == p.key  \* mutation: the stream is not compared
IsVideoKey(p) == p.key /\ p.stream = Video

FirstKeyAt(q, i) ==
  /\ i \in DOMAIN q
  /\ IsVideoKey(q[i])
  /\ \A j \in DOMAIN q : j < i => ~IsVideoKey(q[j])

\* The pts of the first packet of any audio track at or after position i.
AudioOffset(q, i) ==
  LET FirstAudio(k) == /\ k >= i
                       /\ q[k].stream # Video
                       /\ \A j \in DOMAIN q : j \in i..(k - 1) => q[j].stream = Video
  IN  IF \E k \in DOMAIN q : FirstAudio(k)
        THEN q[CHOOSE k \in DOMAIN q : FirstAudio(k)].pts
        ELSE 0

\* mutation: positions counted from 0
StartIndexFrom0(i) == IF erasedArg THEN i ELSE 0
StartIndex(i) == IF erasedArg THEN i ELSE 1

\* save_replay_async under the lock, when the queue holds no key frame.
SaveNothing ==
  /\ MainGoto("snapshot", "head")
  /\ \A i \in DOMAIN frame_data_queue : ~IsVideoKey(frame_data_queue[i])
  /\ erasedArg' = FALSE
  /\ MainUnchanged
  /\ UNCHANGED <<running, save_replay, queueVars, saverPc, jobVars, fileVars,
                 countVars>>

\* save_replay_async: the snapshot under the lock and the start of the thread.
save_replay_async ==
  /\ MainGoto("snapshot", "head")
  /\ \E i \in DOMAIN frame_data_queue :
       /\ FirstKeyAt(frame_data_queue, i)
       /\ saveIndex' = StartIndex(i)
       /\ videoPtsOffset' = IF erasedArg THEN frame_data_queue[i].pts ELSE 0
       /\ audioPtsOffset' = IF erasedArg THEN AudioOffset(frame_data_queue, i) ELSE 0
  /\ save_replay_packets' = frame_data_queue
  /\ saverPc' = "open"
  /\ output' = <<>>
  /\ fileOk' = TRUE
  /\ saves' = saves + 1
  /\ erasedArg' = FALSE
  /\ MainUnchanged
  /\ UNCHANGED <<running, save_replay, queueVars, publishes>>

\* mutation: a save in flight at the end of the loop is abandoned
StoppingAbandonsSave ==
  /\ MainGoto("stopping", "joining")
  /\ NotPublished
  /\ running' = FALSE
  /\ MainUnchanged
  /\ UNCHANGED <<save_replay, queueVars, erasedArg>>

\* After the loop: wait for the save in flight and publish it.
MainStopping ==
  /\ MainGoto("stopping", "joining")
  /\ \/ saverPc = "invalid" /\ NotPublished
     \/ SaverReady /\ Publish
  /\ running' = FALSE
  /\ MainUnchanged
  /\ UNCHANGED <<save_replay, queueVars, erasedArg>>

AudioDetached == TRUE  \* mutation: the threads are not joined
AudioJoined == \A s \in Direct : audioPc[s] = "done"

\* The audio threads are joined before the process exits.
MainJoin ==
  /\ MainGoto("joining", "exited")
  /\ AudioJoined
  /\ MainUnchanged
  /\ UNCHANGED <<running, save_replay, queueVars, erasedArg, saverPc, jobVars,
                 fileVars, countVars>>

Main == \/ MainHead \/ MainDrain \/ MainVideo \/ MainPublish \/ MainRequest
        \/ SaveNothing \/ save_replay_async \/ MainStopping \/ MainJoin

-----------------------------------------------------------------------------
(* The audio thread of track s: while(running) { read; encode; push }.     *)

\* mutation: while(1)
AudioHeadForever(s) ==
  /\ audioPc[s] = "head"
  /\ audioPc' = [audioPc EXCEPT ![s] = "encode"]
  /\ UNCHANGED queueVars

AudioHead(s) ==
  /\ audioPc[s] = "head"
  /\ audioPc' = [audioPc EXCEPT ![s] = IF running THEN "encode" ELSE "done"]
  /\ UNCHANGED queueVars

\* The missing frames and the one that was read are encoded, possibly none; the
\* flag is not looked at in between.
AudioEncode(s) ==
  /\ audioPc[s] = "encode"
  /\ \/ receive_frames(s) /\ UNCHANGED audioPc
     \/ audioPc' = [audioPc EXCEPT ![s] = "head"] /\ UNCHANGED queueVars

AudioThread(s) ==
  /\ AudioHead(s) \/ AudioEncode(s)
  /\ UNCHANGED <<clock, signalVars, mainVars, saverPc, jobVars, fileVars, countVars>>

-----------------------------------------------------------------------------
(* The save thread: open, header, packets, trailer.                        *)

SaverGoto(from, to) ==
  /\ saverPc = from
  /\ saverPc' = to

\* avio_open and avformat_write_header: a failure ends the thread at once.
SaverOpen ==
  /\ \/ SaverGoto("open", "header") /\ UNCHANGED fileOk
     \/ DiskCanFail /\ SaverGoto("open", "done") /\ fileOk' = FALSE
  /\ UNCHANGED <<saveIndex, output>>

SaverHeader ==
  /\ \/ SaverGoto("header", "write") /\ UNCHANGED fileOk
     \/ DiskCanFail /\ SaverGoto("header", "done") /\ fileOk' = FALSE
  /\ UNCHANGED <<saveIndex, output>>

\* mutation: the offset of the video stream for every stream
ShiftedByVideo(p) == [p EXCEPT !.pts = @ - videoPtsOffset]

Shifted(p) ==
  [p EXCEPT !.pts = @ - (IF p.stream = Video THEN videoPtsOffset ELSE audioPtsOffset)]

PacketsLeftButOne == saveIndex < Len(save_replay_packets)  \* mutation: size() - 1
PacketsLeft == saveIndex <= Len(save_replay_packets)

\* av_write_frame: an error is logged and the loop goes on with the next packet.
SaverWrite ==
  /\ saverPc = "write"
  /\ PacketsLeft
  /\ \/ /\ output' = Append(output, Shifted(save_replay_packets[saveIndex]))
        /\ UNCHANGED fileOk
     \/ DiskCanFail /\ fileOk' = FALSE /\ UNCHANGED output
  /\ saveIndex' = saveIndex + 1
  /\ UNCHANGED saverPc

\* av_write_trailer and avio_close; the future becomes ready.
SaverTrailer ==
  /\ ~PacketsLeft
  /\ SaverGoto("write", "done")
  /\ \/ UNCHANGED fileOk
     \/ DiskCanFail /\ fileOk' = FALSE
  /\ UNCHANGED <<saveIndex, output>>

Saver ==
  /\ SaverOpen \/ SaverHeader \/ SaverWrite \/ SaverTrailer
  /\ UNCHANGED <<clock, signalVars, queueVars, mainVars, audioPc, jobVars, countVars>>

-----------------------------------------------------------------------------
Terminated == mainPc = "exited" /\ UNCHANGED vars

Next == \/ Tick \/ save_replay_handler \/ stop_handler
        \/ Main
        \/ \E s \in Direct : AudioThread(s)
        \/ Saver
        \/ Terminated

Spec == Init /\ [][Next]_vars

(***************************************************************************)
(* The operating system schedules every thread, so each of them eventually *)
(* takes its next step.  The encode loops of the main thread are finite    *)
(* (MaxPackets), so weak fairness of the thread is enough.                 *)
(***************************************************************************)
Fairness ==
  /\ WF_vars(Main)
  /\ WF_vars(Saver)
  /\ \A s \in Direct : WF_vars(AudioThread(s))

FairSpec == Spec /\ Fairness
-----------------------------------------------------------------------------
(* Properties                                                              *)

SaverBusy == saverPc \in {"open", "header", "write"}

\* Every variable has a value of its type.
TypeOK ==
  /\ clock \in Nat /\ signals \in Nat /\ produced \in Nat
  /\ saves \in Nat /\ publishes \in Nat
  /\ running \in BOOLEAN /\ save_replay \in BOOLEAN
  /\ frames_erased \in BOOLEAN /\ erasedArg \in BOOLEAN /\ fileOk \in BOOLEAN
  /\ frame_data_queue \in Seq(Packet)
  /\ save_replay_packets \in Seq(Packet)
  /\ output \in Seq(Written)
  /\ nextPts \in [Streams -> Nat]
  /\ mainPc \in {"head", "drain", "video", "publish", "request", "snapshot",
                 "stopping", "joining", "exited"}
  /\ audioPc \in [Direct -> {"head", "encode", "done"}]
  /\ saverPc \in {"invalid", "open", "header", "write", "done"}
  /\ saveIndex \in Nat \ {0}
  /\ videoPtsOffset \in Nat /\ audioPtsOffset \in Nat

\* The queue is exactly the most recent packets, in the order they were pushed
\* by all the threads, and frames_erased tells whether any older one is gone
\* (receive_frames: push_back, pop_front and frames_erased under one lock).
QueueIsRecentWindow ==
  /\ Len(frame_data_queue) <= produced
  /\ \A i \in DOMAIN frame_data_queue :
       frame_data_queue[i].id = produced - Len(frame_data_queue) + i
  /\ frames_erased <=> Len(frame_data_queue) < produced

\* Once a packet has been dropped the memory of the buffer never grows again,
\* whichever thread pushes (receive_frames drops one packet for each one pushed).
BufferStopsGrowing ==
  [][frames_erased => Len(frame_data_queue') <= Len(frame_data_queue)]_vars

\* The packets of a file being saved are a gap-free run of the recorded ones,
\* and a file whose writing succeeded ends with the newest packet of the
\* snapshot: a save neither skips nor repeats a packet while the audio and video
\* threads keep pushing and dropping.
SavedFileIsWindow ==
  fileOk =>
    /\ \A i \in DOMAIN output : output[i].id = output[1].id + i - 1
    /\ saverPc = "done" =>
         /\ output # <<>>
         /\ output[Len(output)].id
              = save_replay_packets[Len(save_replay_packets)].id

\* What the muxer requires of a file: per stream the timestamps strictly
\* increase, and none is negative (the offsets save_replay_async subtracts are
\* those of the first packets written).
FilePtsAreValid ==
  \A i, j \in DOMAIN output :
    /\ output[i].pts >= 0
    /\ i < j /\ output[i].stream = output[j].stream => output[i].pts < output[j].pts

\* The video of a saved replay can be decoded from its first packet: the packets
\* before the first key frame are skipped (src/src/main.cpp:1835, 1076-1101).
FileStartsAtKeyframe ==
  \A i \in DOMAIN output :
    /\ output[i].stream = Video
    /\ \A j \in 1..(i - 1) : output[j].stream # Video
    => output[i].key

\* The copy the save thread reads without a lock does not change under it: not
\* by publishing, not by a second request, not by the shutdown.
SnapshotIsFrozen == [][SaverBusy => UNCHANGED jobVars]_vars

\* A path is announced and the script is started only when the save thread has
\* ended, and then the file holds the snapshot up to its newest packet unless the
\* disk failed (README.md: "The file path to the saved replay is output to
\* stdout", option -sc: "Run a script on the saved video file").
AnnouncedFileIsWritten ==
  [][publishes' # publishes =>
       /\ saverPc = "done"
       /\ fileOk => saveIndex > Len(save_replay_packets) /\ output # <<>>]_vars

\* Both: a save works on what it has copied, and is announced with all of it.
SavesAreWhole == SnapshotIsFrozen /\ AnnouncedFileIsWritten

\* When the process exits every save it started has been announced, once, and
\* no thread is left that could push into the queue main is about to destroy.
ExitIsQuiet ==
  mainPc = "exited" =>
    /\ saves = publishes
    /\ saverPc = "invalid"
    /\ \A s \in Direct : audioPc[s] = "done"

\* A request to save is taken up, also one that arrives during another save,
\* unless the program is stopped first (SIGUSR1).
RequestIsServed == (save_replay /\ running) ~> (~save_replay \/ ~running)

\* Every save that is started is announced, also when the program is stopped
\* while it is in flight (main waits for the future after the loop).
SaveIsAnnounced == (saverPc # "invalid") ~> (saverPc = "invalid")

\* Both: what is asked for is begun, and what is begun is announced.
SavesAreServed == RequestIsServed /\ SaveIsAnnounced

\* The program ends after it is told to stop: no thread waits for ever.
StopEndsTheProgram == ~running ~> (mainPc = "exited")

-----------------------------------------------------------------------------
(***************************************************************************)
(* What the buffer promises, in ReplayWindow.  The position of the first   *)
(* packet of the file is recovered from the progress of the save thread,   *)
(* as long as the disk has taken every packet.                             *)
(***************************************************************************)
FirstSaved == save_replay_packets[1].id + saveIndex - 1 - Len(output)
LastSaved == save_replay_packets[Len(save_replay_packets)].id

Window == INSTANCE ReplayWindow WITH
  newest <- produced,
  dropped <- produced - Len(frame_data_queue),
  last <- IF saverPc = "invalid" THEN 0 ELSE LastSaved,
  first <- IF fileOk THEN FirstSaved ELSE 0,
  written <- IF fileOk THEN Len(output) ELSE 0

\* The buffer with its threads implements the sliding window of ReplayWindow:
\* a save takes one instant's window, and all of it up to the newest packet
\* reaches the file before the file is announced, unless the disk has failed.
ImplementsWindow == Window!Spec
=============================================================================
