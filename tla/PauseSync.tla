------------------------------ MODULE PauseSync ------------------------------
(***************************************************************************)
(* Pausing a recording, and how audio and video keep the same time across  *)
(* it (src/src/main.cpp).  The main thread toggles the pause on SIGUSR2    *)
(* and encodes video; the audio thread of one device fills the gaps of its *)
(* source with silence.  Both subtract paused_time_offset from the clock;  *)
(* paused, paused_time_offset and the clock are read by the audio thread   *)
(* without a lock, one after the other, so every read is a step.           *)
(*                                                                         *)
(* Times are in ticks, the finest difference of time the model tells apart; *)
(* they start at 0 when the recording starts.  A frame of video and a frame *)
(* of audio last a number of ticks each, so what the code rounds to whole   *)
(* frames is rounded here.                                                 *)
(***************************************************************************)
EXTENDS Integers

CONSTANTS
  Setups,       \* pairs: framerate_mode is CONSTANT (otherwise VARIABLE), and
                \* the audio device is connected (otherwise it gives silence)
  VideoTicks,   \* length of a video frame: target_fps
  AudioTicks,   \* length of an audio frame: frame_size samples
  SleepTicks,   \* how long a thread without a device sleeps: timeout_ms
  MaxTime,      \* bound: last value of the clock
  MaxSignals    \* bound: SIGUSR2 signals received

ASSUME BoundsAssumption ==
  /\ MaxTime \in Nat /\ MaxSignals \in Nat
  /\ Setups \subseteq BOOLEAN \X BOOLEAN

ASSUME TicksAssumption ==
  VideoTicks \in Nat \ {0} /\ AudioTicks \in Nat \ {0} /\ SleepTicks \in Nat

\* timeout_ms is 1000000 / sample_rate, 21 ms at 48 kHz, and a frame lasts 20 ms
\* (opus) or 21.3 ms (aac): a thread without a device sleeps more than half of it.
\* A frame of flac is longer, so flac is covered with a device only.
ASSUME SleepAssumption ==
  \A setup \in Setups : ~setup[2] => 2 * SleepTicks >= AudioTicks

VARIABLES
  clock,                 \* clock_get_monotonic_seconds
  toggle_pause,          \* the flag set by SIGUSR2
  signals,               \* SIGUSR2 signals received so far
  paused, paused_time_offset, paused_time_start,
  constantRate,          \* framerate_mode is CONSTANT, for the whole recording
  mainPc,                \* where the main thread is in its loop
  video_pts_counter,     \* frames encoded (kept here at a constant rate only)
  video_prev_pts,        \* pts of the frame before (variable rate)
  lastVideoTime,         \* this_video_frame_time of the last captured frame
  handle,                \* the audio device is connected
  audioPc,               \* where the audio thread is in its loop
  gotAudioData,          \* sound_buffer_size >= 0
  thisAudioTime,         \* this_audio_frame_time
  receivedAudioTime,     \* received_audio_time
  encoded,               \* frames its last turn has given to the encoder
  sleep                  \* how long a thread without a device still sleeps

\* What has happened, for the properties to compare with; no action looks at it.
VARIABLES
  accepted,              \* SIGUSR2 signals that found the flag clear
  flips,                 \* times the pause has been toggled
  recorded,              \* ticks that passed while the recording was not paused
  readAt,                \* clock when this_audio_frame_time was taken
  soundAt                \* readAt of the last turn with data or silence

pauseVars == <<paused, paused_time_offset, paused_time_start>>
signalVars == <<toggle_pause, signals, accepted>>
videoVars == <<constantRate, video_pts_counter, video_prev_pts, lastVideoTime>>
threadVars == <<handle, audioPc, gotAudioData, thisAudioTime, receivedAudioTime,
                encoded, readAt, soundAt>>
audioVars == <<threadVars, sleep>>
vars == <<clock, recorded, signalVars, pauseVars, flips, mainPc, videoVars,
          audioVars>>

Init ==
  /\ clock = 0 /\ recorded = 0
  /\ toggle_pause = FALSE /\ signals = 0 /\ accepted = 0
  /\ paused = FALSE /\ paused_time_offset = 0 /\ paused_time_start = 0
  /\ \E setup \in Setups : constantRate = setup[1] /\ handle = setup[2]
  /\ mainPc = "frame" /\ flips = 0
  /\ video_pts_counter = 0 /\ video_prev_pts = 0
  /\ lastVideoTime = 0
  /\ audioPc = "read" /\ gotAudioData = FALSE
  /\ thisAudioTime = 0 /\ receivedAudioTime = 0 /\ encoded = 0 /\ sleep = 0
  \* a missing device starts with a frame of silence
  /\ readAt = 0 /\ soundAt = IF handle THEN 0 ELSE -AudioTicks

Larger(a, b) == IF a > b THEN a ELSE b

\* mutation: half a frame is left out
RoundedDown(t, unit) == t \div unit

\* std::round of t / unit: the nearest whole number, halves away from zero.
Rounded(t, unit) ==
  IF t >= 0 THEN (2 * t + unit) \div (2 * unit)
            ELSE -((unit - 2 * t) \div (2 * unit))

-----------------------------------------------------------------------------
(* The environment: time and the signal handler.                           *)

\* The time of the recording runs: it is not paused, or the main thread has just
\* added the length of the pause; it stands from the moment the beginning of a
\* pause is noted.
Stamped == mainPc \in {"clear", "flip"}
Recording == paused <=> Stamped

Tick ==
  /\ clock < MaxTime
  /\ clock' = clock + 1
  /\ recorded' = IF Recording THEN recorded + 1 ELSE recorded
  /\ sleep' = Larger(0, sleep - 1)
  /\ UNCHANGED <<signalVars, pauseVars, flips, mainPc, videoVars, threadVars>>

toggle_pause_handler ==
  /\ signals < MaxSignals
  /\ signals' = signals + 1
  /\ accepted' = IF toggle_pause THEN accepted ELSE accepted + 1
  /\ toggle_pause' = TRUE
  /\ UNCHANGED <<clock, recorded, pauseVars, flips, mainPc, videoVars, audioVars>>

-----------------------------------------------------------------------------
(* The main thread.                                                        *)

VideoTime == clock - paused_time_offset

NumFrames ==
  IF constantRate
    THEN Larger(0, Rounded(VideoTime, VideoTicks) - video_pts_counter)
    ELSE 1

\* mutation: the frames of a pause are encoded when it is over
CapturedWhilePaused == NumFrames > 0
Captured == NumFrames > 0 /\ ~paused

\* A frame is captured and encoded NumFrames times, if one is due.
EncodeVideo ==
  /\ Captured
  /\ lastVideoTime' = VideoTime
  /\ video_pts_counter' = IF constantRate THEN video_pts_counter + NumFrames
                                          ELSE video_pts_counter
  /\ video_prev_pts' = IF constantRate THEN video_prev_pts ELSE VideoTime
  /\ UNCHANGED constantRate

\* mutation: the flag is tested only after a captured frame
MainFrameThenTest ==
  /\ mainPc = "frame"
  /\ \/ EncodeVideo /\ mainPc' = IF toggle_pause THEN "stamp" ELSE "frame"
     \/ UNCHANGED <<videoVars, mainPc>>
  /\ UNCHANGED <<clock, recorded, signalVars, pauseVars, flips, audioVars>>

\* One turn of the loop, up to the test of the flag.
MainFrame ==
  /\ mainPc = "frame"
  /\ EncodeVideo \/ UNCHANGED videoVars
  /\ mainPc' = IF toggle_pause THEN "stamp" ELSE "frame"
  /\ UNCHANGED <<clock, recorded, signalVars, pauseVars, flips, audioVars>>

\* mutation: the beginning of the pause is not noted
StampWithoutStart ==
  /\ paused_time_offset' =
       IF paused THEN paused_time_offset + (clock - paused_time_start)
                 ELSE paused_time_offset
  /\ UNCHANGED paused_time_start

\* mutation: the operands of the subtraction are swapped
StampSwapped ==
  IF paused
    THEN /\ paused_time_offset' = paused_time_offset + (paused_time_start - clock)
         /\ UNCHANGED paused_time_start
    ELSE /\ paused_time_start' = clock
         /\ UNCHANGED paused_time_offset

\* The beginning of the pause is noted, or its length is added to the offset.
Stamp ==
  IF paused
    THEN /\ paused_time_offset' = paused_time_offset + (clock - paused_time_start)
         /\ UNCHANGED paused_time_start
    ELSE /\ paused_time_start' = clock
         /\ UNCHANGED paused_time_offset

MainStamp ==
  /\ mainPc = "stamp"
  /\ Stamp
  /\ mainPc' = "clear"
  /\ UNCHANGED <<clock, recorded, signalVars, paused, flips, videoVars, audioVars>>

MainClear ==
  /\ mainPc = "clear"
  /\ toggle_pause' = FALSE
  /\ mainPc' = "flip"
  /\ UNCHANGED <<clock, recorded, signals, accepted, pauseVars, flips, videoVars, audioVars>>

MainFlip ==
  /\ mainPc = "flip"
  /\ paused' = ~paused
  /\ flips' = flips + 1
  /\ mainPc' = "frame"
  /\ UNCHANGED <<clock, recorded, signalVars, paused_time_offset, paused_time_start,
                 videoVars, audioVars>>

Main == MainFrame \/ MainStamp \/ MainClear \/ MainFlip

-----------------------------------------------------------------------------
(* The audio thread.                                                       *)

\* A read of the device gives a frame of data or gives up, and the time is taken.
\* When is left open: data may have waited in the buffers of the sound server and
\* come in a burst.  Without a device the thread has slept instead.
ReadDevice ==
  /\ audioPc = "read" /\ sleep = 0
  /\ gotAudioData' \in {FALSE, handle}
  /\ thisAudioTime' = clock - paused_time_offset
  /\ readAt' = clock
  /\ audioPc' = "paused"
  /\ encoded' = 0
  /\ UNCHANGED <<receivedAudioTime, sleep, soundAt>>

\* mutation: the missing frames include the one that was received
MissingAndReceived ==
  LET frames == Rounded(thisAudioTime - receivedAudioTime, AudioTicks)
  IN  IF ~gotAudioData /\ ~handle THEN Larger(1, frames) ELSE frames

MissingFrames ==
  LET frames == Rounded(thisAudioTime - receivedAudioTime, AudioTicks)
  IN  IF gotAudioData THEN Larger(0, frames - 1)
      ELSE IF handle THEN frames ELSE Larger(1, frames)

FillsGap == MissingFrames >= 5 \/ ~handle

\* The gap is silence, then comes the data.
NewFrames ==
  (IF FillsGap THEN MissingFrames ELSE 0) + (IF gotAudioData THEN 1 ELSE 0)

\* paused is read: during a pause the data is thrown away; otherwise the gap is
\* filled with silence if it is long and the data is encoded.  Without a device
\* the thread goes to sleep.
ReadPaused ==
  /\ audioPc = "paused"
  /\ encoded' = IF paused THEN 0 ELSE NewFrames
  /\ receivedAudioTime' =
       IF gotAudioData \/ (~paused /\ FillsGap) THEN thisAudioTime
                                                ELSE receivedAudioTime
  /\ soundAt' = IF gotAudioData \/ encoded' > 0 THEN readAt ELSE soundAt
  /\ sleep' = IF handle THEN 0 ELSE SleepTicks
  /\ audioPc' = "read"
  /\ gotAudioData' = FALSE /\ thisAudioTime' = 0 /\ readAt' = 0

AudioThread ==
  /\ ReadDevice \/ ReadPaused
  /\ UNCHANGED <<clock, recorded, signalVars, pauseVars, flips, mainPc, videoVars,
                 handle>>

-----------------------------------------------------------------------------
Next == Tick \/ toggle_pause_handler \/ Main \/ AudioThread

Spec == Init /\ [][Next]_vars

\* The main loop does not block: the operating system runs it again and again.
FairSpec == Spec /\ WF_vars(Main)

-----------------------------------------------------------------------------
(* Properties                                                              *)

\* Every variable has a value of its type; the pause never began in the future
\* and the time taken off for pauses is time that has passed.
TypeOK ==
  /\ clock \in Nat /\ recorded \in Nat
  /\ signals \in Nat /\ accepted \in Nat /\ flips \in Nat
  /\ toggle_pause \in BOOLEAN /\ paused \in BOOLEAN
  /\ constantRate \in BOOLEAN /\ handle \in BOOLEAN
  /\ paused_time_start \in Nat /\ paused_time_start <= clock
  /\ paused_time_offset \in Nat /\ paused_time_offset <= clock
  /\ mainPc \in {"frame", "stamp", "clear", "flip"}
  /\ video_pts_counter \in Nat /\ video_prev_pts \in Nat /\ lastVideoTime \in Nat
  /\ audioPc \in {"read", "paused"}
  /\ gotAudioData \in BOOLEAN
  /\ thisAudioTime \in Int /\ receivedAudioTime \in Int 
  /\ sleep \in Nat /\ encoded \in Nat
  /\ readAt \in Nat /\ soundAt \in Int

\* The time given to the captured frames never goes back, however the pauses
\* fall: with a variable frame rate it is the pts, which the muxer requires to
\* increase and main only protects against being equal.
VideoTimeNeverGoesBack == [][lastVideoTime' >= lastVideoTime]_vars

\* With every capture the frames encoded so far amount to the time that has really
\* been recorded, within half a frame at a constant rate and exactly for the pts
\* of a variable one: whatever the pauses, however late the captures and wherever
\* the clock moves on between the statements of a toggle (main.cpp:2504, 2538).
VideoFillsRecordedTime ==
  [][IF constantRate
       THEN video_pts_counter' # video_pts_counter =>
              /\ 2 * VideoTicks * video_pts_counter' <= 2 * recorded + VideoTicks
              /\ 2 * VideoTicks * video_pts_counter' >= 2 * recorded - VideoTicks
       ELSE video_prev_pts' # video_prev_pts => video_prev_pts' = recorded]_vars

\* A turn of the audio thread gives the encoder at least its data, and more only
\* if there was silence.
Fills == encoded' > encoded /\ encoded' > (IF gotAudioData THEN 1 ELSE 0)

\* No gap of the audio source is filled twice or for longer than it lasted: the
\* frames of a turn with silence, the data that ended the gap included, fit but
\* for half a frame of rounding into the time since the last turn with data or
\* silence, in whatever bursts the data comes and however pauses begin and end
\* between the reads of the clock, the offset and paused (main.cpp:2344-2381).
GapsAreFilledOnce ==
  [][Fills => 2 * AudioTicks * encoded' <= 2 * (readAt - soundAt) + AudioTicks]_vars

\* A gap is filled with silence only up to a time that has been recorded: the
\* length of a pause does not become silence when the recording goes on.
SilenceIsRecordedTime ==
  [][Fills /\ encoded' > 1 => thisAudioTime <= clock - paused_time_offset]_vars

\* A request to toggle the pause that finds no other pending toggles it, and does
\* so once, wherever in the loop it arrives.  One that comes while the flag is
\* set, up to the reset after the stamp (main.cpp:2548), is part of that one.
Pending == (IF toggle_pause THEN 1 ELSE 0) + (IF mainPc = "flip" THEN 1 ELSE 0)

RequestsCounted == accepted = flips + Pending

RequestsToggleOnce ==
  /\ []RequestsCounted
  /\ \A n \in 1..MaxSignals : accepted >= n ~> flips >= n
=============================================================================
