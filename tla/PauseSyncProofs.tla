--------------------------- MODULE PauseSyncProofs ---------------------------
(***************************************************************************)
(* Proofs about PauseSync, for any number of pauses and any lengths of the  *)
(* frames and the sleep: what the video and the audio encode, compared with *)
(* the recorded time and the clock, and what becomes of the requests.      *)
(***************************************************************************)
EXTENDS PauseSync, TLAPS

-----------------------------------------------------------------------------
\* Rounding.

LEMMA Division ==
  ASSUME NEW a \in Int, NEW b \in Int, b > 0
  PROVE  /\ a \div b \in Int
         /\ b * (a \div b) <= a /\ a < b * (a \div b) + b
BY SMTT(30)

LEMMA Negated ==
  ASSUME NEW a \in Int, NEW b \in Int
  PROVE  a * (-b) = -(a * b)
BY SMTT(30)

\* A rounded time differs from the time by at most half a unit.
LEMMA Rounding ==
  ASSUME NEW t \in Int, NEW unit \in Nat \ {0}
  PROVE  /\ Rounded(t, unit) \in Int
         /\ 2 * unit * Rounded(t, unit) <= 2 * t + unit
         /\ 2 * unit * Rounded(t, unit) >= 2 * t - unit
<1> DEFINE w == 2 * unit
<1>1. w \in Int /\ w > 0 /\ w = unit + unit
  OBVIOUS
<1>2. CASE t >= 0
  <2>1. 2 * t + unit \in Int
    OBVIOUS
  <2> DEFINE q == (2 * t + unit) \div w
  <2>2. q \in Int /\ w * q <= 2 * t + unit /\ 2 * t + unit < w * q + w
    <3> HIDE DEF w
    <3> QED
      BY <1>1, <2>1, Division DEF q
  <2>3. Rounded(t, unit) = q
    BY <1>2 DEF Rounded
  <2> HIDE DEF q
  <2>4. w * q \in Int
    <3> HIDE DEF w
    <3> QED
      BY <1>1, <2>2
  <2>5. w * q >= 2 * t - unit
    <3> HIDE DEF w
    <3> QED
      BY <1>1, <2>2, <2>4
  <2> QED
    BY <2>2, <2>3, <2>5
<1>3. CASE t < 0
  <2>1. unit - 2 * t \in Int
    OBVIOUS
  <2> DEFINE q == (unit - 2 * t) \div w
  <2>2. q \in Int /\ w * q <= unit - 2 * t /\ unit - 2 * t < w * q + w
    <3> HIDE DEF w
    <3> QED
      BY <1>1, <2>1, Division DEF q
  <2>3. Rounded(t, unit) = -q
    BY <1>3 DEF Rounded
  <2> HIDE DEF q
  <2>4. w * q \in Int /\ w * (-q) = -(w * q)
    <3> HIDE DEF w
    <3> QED
      BY <1>1, <2>2, Negated
  <2>5. w * (-q) <= 2 * t + unit /\ w * (-q) >= 2 * t - unit
    <3> HIDE DEF w
    <3> QED
      BY <1>1, <2>2, <2>4
  <2> QED
    BY <2>2, <2>3, <2>5
<1> QED
  BY <1>2, <1>3

-----------------------------------------------------------------------------
\* Types, and the time of the recording.

\* While the time of the recording runs it is the clock without the offset; from
\* the stamp of a pause's beginning to that of its end it stands at the
\* beginning.  Nothing has been captured later than that.
RecordedInv ==
  /\ Recording => recorded = clock - paused_time_offset
  /\ ~Recording => recorded = paused_time_start - paused_time_offset
  /\ lastVideoTime <= recorded

VideoInv == TypeOK /\ RecordedInv

\* TypeOK in two halves: the provers take the flags and the numbers apart.
Flags ==
  /\ toggle_pause \in BOOLEAN /\ paused \in BOOLEAN
  /\ gotAudioData \in BOOLEAN /\ constantRate \in BOOLEAN /\ handle \in BOOLEAN
Numbers ==
  /\ clock \in Nat /\ recorded \in Nat
  /\ signals \in Nat /\ accepted \in Nat /\ flips \in Nat
  /\ paused_time_start \in Nat /\ paused_time_start <= clock
  /\ paused_time_offset \in Nat /\ paused_time_offset <= clock
  /\ mainPc \in {"frame", "stamp", "clear", "flip"}
  /\ video_pts_counter \in Nat /\ video_prev_pts \in Nat /\ lastVideoTime \in Nat
  /\ audioPc \in {"read", "paused"}
  /\ thisAudioTime \in Int /\ receivedAudioTime \in Int
  /\ sleep \in Nat /\ encoded \in Nat
  /\ readAt \in Nat /\ soundAt \in Int

LEMMA TypeHalves == TypeOK <=> Flags /\ Numbers
BY DEF TypeOK, Flags, Numbers

LEMMA InitVideo == Init => VideoInv
<1> SUFFICES ASSUME Init PROVE VideoInv
  OBVIOUS
<1>1. Flags
  <2>1. PICK setup \in Setups : constantRate = setup[1] /\ handle = setup[2]
    BY DEF Init
  <2>2. setup \in BOOLEAN \X BOOLEAN
    BY <2>1, BoundsAssumption
  <2> QED
    BY <2>1, <2>2 DEF Init, Flags
<1>2. Numbers
  BY TicksAssumption DEF Init, Numbers
<1>3. RecordedInv
  BY DEF Init, RecordedInv, Recording, Stamped
<1> QED
  BY <1>1, <1>2, <1>3, TypeHalves DEF VideoInv

LEMMA FlagsPreserved == Flags /\ [Next]_vars => Flags'
<1> SUFFICES ASSUME Flags, [Next]_vars PROVE Flags'
  OBVIOUS
<1> USE DEF Flags, signalVars, pauseVars, videoVars, audioVars, threadVars
<1>1. CASE Tick \/ toggle_pause_handler \/ UNCHANGED vars
  BY <1>1 DEF Tick, toggle_pause_handler, vars
<1>2. CASE Main
  BY <1>2 DEF Main, MainFrame, EncodeVideo, MainStamp, MainClear, MainFlip
<1>3. CASE AudioThread
  <2>1. gotAudioData' \in BOOLEAN
    BY <1>3 DEF AudioThread, ReadDevice, ReadPaused
  <2> QED
    BY <1>3, <2>1 DEF AudioThread
<1> QED
  BY <1>1, <1>2, <1>3 DEF Next

\* The flags decide whether the recorded time runs; they are abbreviated by
\* Recording in the steps that are about numbers.
LEMMA RecordingSteps ==
  ASSUME VideoInv
  PROVE  /\ MainClear => (Recording' <=> Recording)
         /\ MainFlip => (Recording' <=> Recording)
         /\ MainStamp => (Recording' <=> ~Recording)
         /\ MainStamp => (paused <=> ~Recording)
<1> USE DEF Recording, Stamped, pauseVars
<1>1. MainClear => (Recording' <=> Recording)
  BY DEF MainClear
<1>2. MainFlip => (Recording' <=> Recording)
  BY DEF MainFlip, VideoInv, TypeOK
<1>3. MainStamp => (Recording' <=> ~Recording) /\ (paused <=> ~Recording)
  BY DEF MainStamp
<1> QED
  BY <1>1, <1>2, <1>3

\* The silence and data of one turn, in whole frames.
LEMMA MissingFramesType ==
  ASSUME Numbers
  PROVE  /\ MissingFrames \in Int
         /\ NewFrames \in Nat
<1>1. /\ AudioTicks \in Nat \ {0} /\ thisAudioTime - receivedAudioTime \in Int
  BY TicksAssumption DEF Numbers
<1> DEFINE frames == Rounded(thisAudioTime - receivedAudioTime, AudioTicks)
<1>2. frames \in Int
  BY <1>1, Rounding
<1> HIDE DEF frames
<1>3. MissingFrames = IF gotAudioData THEN Larger(0, frames - 1)
                      ELSE IF handle THEN frames ELSE Larger(1, frames)
  BY DEF MissingFrames, frames
<1>4. MissingFrames \in Int /\ (FillsGap => MissingFrames >= 0)
  BY <1>2, <1>3 DEF Larger, FillsGap
<1> QED
  BY <1>4 DEF NewFrames

LEMMA NumbersPreserved ==
  VideoInv /\ [Next]_vars
    => Numbers' /\ RecordedInv' /\ lastVideoTime' >= lastVideoTime
<1> DEFINE Goal == Numbers' /\ RecordedInv' /\ lastVideoTime' >= lastVideoTime
<1> SUFFICES ASSUME VideoInv, [Next]_vars PROVE Goal
  OBVIOUS
<1>1. Numbers /\ RecordedInv
  BY TypeHalves DEF VideoInv
<1> USE DEF signalVars, pauseVars, videoVars, audioVars, threadVars
<1>2. CASE Tick
  <2>1. Recording' <=> Recording
    BY <1>2 DEF Tick, Recording, Stamped
  <2>2. sleep' \in Nat
    BY <1>1, <1>2 DEF Tick, Larger, Numbers
  <2> QED
    BY <1>1, <1>2, <2>1, <2>2 DEF Tick, Numbers, RecordedInv
<1>3. CASE toggle_pause_handler \/ UNCHANGED vars
  <2>1. Recording' <=> Recording
    BY <1>3 DEF toggle_pause_handler, vars, Recording, Stamped
  <2> QED
    BY <1>1, <1>3, <2>1 DEF toggle_pause_handler, vars, Numbers, RecordedInv
<1>4. CASE MainFrame
  <2>1. /\ Recording' <=> Recording
        /\ mainPc' \in {"frame", "stamp"}
    BY <1>4 DEF MainFrame, Recording, Stamped
  <2>2. CASE EncodeVideo
    <3>1. Recording
      BY <1>4, <2>2 DEF MainFrame, EncodeVideo, Captured, Recording, Stamped
    <3>2. /\ lastVideoTime' = clock - paused_time_offset
          /\ video_prev_pts' \in Nat
      BY <1>1, <2>2 DEF EncodeVideo, VideoTime, Numbers
    <3>3. video_pts_counter' \in Nat
      <4>1. CASE constantRate
        <5>1. VideoTime \in Int /\ VideoTicks \in Nat \ {0}
          BY <1>1, TicksAssumption DEF VideoTime, Numbers
        <5>2. Rounded(VideoTime, VideoTicks) \in Int
          BY <5>1, Rounding
        <5>3. NumFrames \in Nat
          BY <1>1, <4>1, <5>2 DEF NumFrames, Larger, Numbers
        <5> QED
          BY <1>1, <2>2, <4>1, <5>3 DEF EncodeVideo, Numbers
      <4>2. CASE ~constantRate
        BY <1>1, <2>2, <4>2 DEF EncodeVideo, Numbers
      <4> QED
        BY <4>1, <4>2
    <3> QED
      BY <1>1, <1>4, <2>1, <3>1, <3>2, <3>3 DEF MainFrame, Numbers, RecordedInv
  <2>3. CASE UNCHANGED videoVars
    BY <1>1, <1>4, <2>1, <2>3 DEF MainFrame, Numbers, RecordedInv
  <2> QED
    BY <1>4, <2>2, <2>3 DEF MainFrame
<1>5. CASE MainClear \/ MainFlip
  <2>1. Recording' <=> Recording
    BY <1>5, RecordingSteps
  <2>2. /\ UNCHANGED <<clock, recorded, signals, accepted, paused_time_offset,
                       paused_time_start, videoVars, audioVars>>
        /\ flips' \in Nat /\ mainPc' \in {"flip", "frame"}
    BY <1>1, <1>5 DEF MainClear, MainFlip, Numbers
  <2> QED
    BY <1>1, <2>1, <2>2 DEF Numbers, RecordedInv
<1>6. CASE MainStamp
  <2>1. (Recording' <=> ~Recording) /\ (paused <=> ~Recording)
    BY <1>6, RecordingSteps
  <2> QED
    BY <1>1, <1>6, <2>1 DEF MainStamp, Stamp, Numbers, RecordedInv
<1>7. CASE AudioThread
  <2>1. /\ audioPc' \in {"read", "paused"}
        /\ thisAudioTime' \in Int /\ receivedAudioTime' \in Int
        /\ sleep' \in Nat /\ encoded' \in Nat
        /\ readAt' \in Nat /\ soundAt' \in Int
    <3>1. CASE ReadDevice
      BY <1>1, <3>1 DEF ReadDevice, Numbers
    <3>2. CASE ReadPaused
      BY <1>1, <3>2, MissingFramesType, TicksAssumption DEF ReadPaused, Numbers
    <3> QED
      BY <1>7, <3>1, <3>2 DEF AudioThread
  <2>2. UNCHANGED <<clock, recorded, signalVars, pauseVars, flips, mainPc, videoVars>>
    BY <1>7 DEF AudioThread
  <2>3. Recording' <=> Recording
    BY <2>2 DEF Recording, Stamped
  <2> QED
    BY <1>1, <2>1, <2>2, <2>3 DEF Numbers, RecordedInv
<1> QED
  BY <1>2, <1>3, <1>4, <1>5, <1>6, <1>7 DEF Next, Main

LEMMA NextVideo ==
  VideoInv /\ [Next]_vars => VideoInv' /\ lastVideoTime' >= lastVideoTime
<1> SUFFICES ASSUME VideoInv, [Next]_vars
             PROVE  VideoInv' /\ lastVideoTime' >= lastVideoTime
  OBVIOUS
<1>1. Flags'
  BY FlagsPreserved, TypeHalves DEF VideoInv
<1>2. Numbers' /\ RecordedInv' /\ lastVideoTime' >= lastVideoTime
  BY NumbersPreserved
<1>3. TypeOK'
  BY <1>1, <1>2 DEF TypeOK, Flags, Numbers
<1> QED
  BY <1>2, <1>3 DEF VideoInv

LEMMA VideoInvariance == Spec => []VideoInv
BY InitVideo, NextVideo, PTL DEF Spec

\* The clock of the recording never runs backwards and no pause reaches into the
\* future, for any number of pauses, whenever the signals come.
THEOREM PauseTypeCorrect == Spec => []TypeOK
BY VideoInvariance, PTL DEF VideoInv

\* The time of the captured frames never goes back across pauses, so the pts of
\* a recording with a variable frame rate never do.
THEOREM VideoTimeIsMonotone == Spec => VideoTimeNeverGoesBack
<1>1. VideoInv /\ [Next]_vars => [lastVideoTime' >= lastVideoTime]_vars
  BY NextVideo
<1> QED
  BY <1>1, VideoInvariance, PTL DEF Spec, VideoTimeNeverGoesBack

-----------------------------------------------------------------------------
\* The frames of the video.

VideoStep ==
  IF constantRate
    THEN video_pts_counter' # video_pts_counter =>
           /\ 2 * VideoTicks * video_pts_counter' <= 2 * recorded + VideoTicks
           /\ 2 * VideoTicks * video_pts_counter' >= 2 * recorded - VideoTicks
    ELSE video_prev_pts' # video_prev_pts => video_prev_pts' = recorded

\* A capture takes place while the time of the recording runs, and encodes what is
\* missing up to it, rounded to whole frames.
LEMMA NextVideoStep == VideoInv /\ [Next]_vars => VideoStep
<1> SUFFICES ASSUME VideoInv, [Next]_vars PROVE VideoStep
  OBVIOUS
<1>1. CASE UNCHANGED videoVars
  BY <1>1 DEF videoVars, VideoStep
<1>2. CASE MainFrame /\ EncodeVideo
  <2>1. Recording
    BY <1>2 DEF MainFrame, EncodeVideo, Captured, Recording, Stamped
  <2>2. VideoTime = recorded /\ recorded \in Int /\ video_pts_counter \in Int
    BY <2>1 DEF VideoInv, RecordedInv, TypeOK, VideoTime
  <2>3. CASE constantRate
    <3> DEFINE frames == Rounded(VideoTime, VideoTicks)
    <3>1. /\ frames \in Int
          /\ 2 * VideoTicks * frames <= 2 * recorded + VideoTicks
          /\ 2 * VideoTicks * frames >= 2 * recorded - VideoTicks
      BY <2>2, Rounding, TicksAssumption
    <3> HIDE DEF frames
    <3>2. /\ NumFrames = Larger(0, frames - video_pts_counter) /\ NumFrames > 0
          /\ video_pts_counter' = video_pts_counter + NumFrames
      BY <1>2, <2>3 DEF EncodeVideo, Captured, NumFrames, frames
    <3>3. video_pts_counter' = frames
      BY <2>2, <3>1, <3>2 DEF Larger
    <3> QED
      BY <2>3, <3>1, <3>3 DEF VideoStep
  <2>4. CASE ~constantRate
    BY <1>2, <2>2, <2>4 DEF EncodeVideo, VideoStep
  <2> QED
    BY <2>3, <2>4
<1> QED
  BY <1>1, <1>2 DEF Next, Main, Tick, toggle_pause_handler, MainFrame, MainStamp,
                    MainClear, MainFlip, AudioThread, vars

\* With every capture the frames encoded are the time recorded, to half a frame at
\* a constant rate and to the pts at a variable one: a pause leaves no gap and
\* adds no frame, wherever the clock goes on during a toggle, and neither the
\* rounding nor late captures add up.
THEOREM VideoFillsTheTime == Spec => VideoFillsRecordedTime
<1>1. VideoInv /\ [Next]_vars => [VideoStep]_vars
  BY NextVideoStep
<1>2. VideoFillsRecordedTime <=> [][VideoStep]_vars
  BY DEF VideoFillsRecordedTime, VideoStep
<1> QED
  BY <1>1, <1>2, VideoInvariance, PTL DEF Spec

-----------------------------------------------------------------------------
\* The gaps of the audio.

\* The time of the last data or silence, taken back to the clock, is not before the
\* turn that had it, because the offset of the pauses only grows; so what a turn
\* takes for the length of a gap is at most the time since that turn.  A thread
\* without a device has slept for at least half a frame since then.
AudioInv ==
  /\ soundAt <= receivedAudioTime + paused_time_offset
  /\ ~handle => 2 * SleepTicks >= AudioTicks
  /\ ~handle => 2 * ((clock + sleep) - soundAt) >= AudioTicks
  /\ audioPc = "paused" =>
       /\ thisAudioTime <= readAt /\ readAt <= clock
       /\ readAt <= thisAudioTime + paused_time_offset
       /\ thisAudioTime - receivedAudioTime <= readAt - soundAt
       /\ ~handle => ~gotAudioData /\ 2 * (readAt - soundAt) >= AudioTicks

\* The length of a pause is added to the offset, never taken off.
LEMMA OffsetGrows ==
  VideoInv /\ (Tick \/ toggle_pause_handler \/ Main \/ UNCHANGED vars)
    => /\ paused_time_offset' >= paused_time_offset
       /\ clock' >= clock /\ clock' + sleep' >= clock + sleep
       /\ paused_time_offset' \in Nat /\ clock' \in Nat /\ sleep' \in Nat
       /\ UNCHANGED threadVars
<1> SUFFICES ASSUME VideoInv, Tick \/ toggle_pause_handler \/ Main \/ UNCHANGED vars
             PROVE  /\ paused_time_offset' >= paused_time_offset
                    /\ clock' >= clock /\ clock' + sleep' >= clock + sleep
                    /\ paused_time_offset' \in Nat /\ clock' \in Nat /\ sleep' \in Nat
                    /\ UNCHANGED threadVars
  OBVIOUS
<1>1. /\ clock \in Nat /\ paused_time_offset \in Nat /\ paused_time_start \in Nat
      /\ paused_time_start <= clock /\ sleep \in Nat
  BY DEF VideoInv, TypeOK
<1>2. CASE MainStamp
  BY <1>1, <1>2 DEF MainStamp, Stamp, audioVars
<1>3. CASE Tick
  BY <1>1, <1>3 DEF Tick, Larger, pauseVars
<1>4. CASE ~MainStamp /\ ~Tick
  BY <1>1, <1>4 DEF toggle_pause_handler, Main, MainFrame, MainClear, MainFlip,
                    pauseVars, audioVars, vars
<1> QED
  BY <1>2, <1>3, <1>4

LEMMA Shifted == \A a, b, c, d \in Int : a <= b + c /\ d >= c => a <= b + d
OBVIOUS

LEMMA AudioInvPreserved == VideoInv /\ AudioInv /\ [Next]_vars => AudioInv'
<1> SUFFICES ASSUME VideoInv, AudioInv, [Next]_vars PROVE AudioInv'
  OBVIOUS
<1>1. Numbers
  BY TypeHalves DEF VideoInv
<1>2. CASE Tick \/ toggle_pause_handler \/ Main \/ UNCHANGED vars
  <2>1. /\ paused_time_offset' >= paused_time_offset
        /\ clock' >= clock /\ clock' + sleep' >= clock + sleep
        /\ paused_time_offset' \in Nat /\ clock' \in Nat /\ sleep' \in Nat
        /\ UNCHANGED threadVars
    BY <1>2, OffsetGrows
  <2>2. UNCHANGED <<handle, audioPc, gotAudioData, thisAudioTime, receivedAudioTime,
                    readAt, soundAt>>
    BY <2>1 DEF threadVars
  <2>3. /\ clock \in Nat /\ sleep \in Nat /\ paused_time_offset \in Nat
        /\ thisAudioTime \in Int /\ receivedAudioTime \in Int
        /\ readAt \in Nat /\ soundAt \in Int /\ AudioTicks \in Nat
    BY <1>1, TicksAssumption DEF Numbers
  <2>4. soundAt <= receivedAudioTime + paused_time_offset'
    <3>1. soundAt <= receivedAudioTime + paused_time_offset
      BY DEF AudioInv
    <3>2. /\ soundAt \in Int /\ receivedAudioTime \in Int
          /\ paused_time_offset \in Int /\ paused_time_offset' \in Int
      BY <2>1, <2>3
    <3> QED
      BY <2>1, <3>1, <3>2, Shifted
  <2>5. ~handle => 2 * ((clock' + sleep') - soundAt) >= AudioTicks
    <3> SUFFICES ASSUME ~handle
                 PROVE  2 * ((clock' + sleep') - soundAt) >= AudioTicks
      OBVIOUS
    <3>1. 2 * ((clock + sleep) - soundAt) >= AudioTicks
      BY DEF AudioInv
    <3> DEFINE wakes == clock + sleep
               wakesLater == clock' + sleep'
    <3>2. wakes \in Int /\ wakesLater \in Int
      BY <2>1, <2>3
    <3>3. wakesLater >= wakes
      BY <2>1
    <3>4. 2 * (wakes - soundAt) >= AudioTicks
      BY <3>1
    <3> HIDE DEF wakes, wakesLater
    <3>5. 2 * (wakesLater - soundAt) >= AudioTicks
      BY <2>3, <3>2, <3>3, <3>4
    <3> QED
      BY <3>5 DEF wakesLater
  <2>6. audioPc = "paused" =>
          /\ thisAudioTime <= readAt /\ readAt <= clock'
          /\ readAt <= thisAudioTime + paused_time_offset'
    <3> SUFFICES ASSUME audioPc = "paused"
                 PROVE  readAt <= clock' /\ readAt <= thisAudioTime + paused_time_offset'
      BY DEF AudioInv
    <3>1. readAt <= clock /\ readAt <= thisAudioTime + paused_time_offset
      BY DEF AudioInv
    <3>2. /\ readAt \in Int /\ thisAudioTime \in Int
          /\ paused_time_offset \in Int /\ paused_time_offset' \in Int
          /\ clock \in Int /\ clock' \in Int
      BY <2>1, <2>3
    <3>3. readAt <= thisAudioTime + paused_time_offset'
      BY <2>1, <3>1, <3>2, Shifted
    <3>4. readAt <= clock'
      BY <2>1, <3>1, <3>2
    <3> QED
      BY <3>3, <3>4
  <2>7. audioPc = "paused" =>
          /\ thisAudioTime - receivedAudioTime <= readAt - soundAt
          /\ ~handle => ~gotAudioData /\ 2 * (readAt - soundAt) >= AudioTicks
    BY DEF AudioInv
  <2>8. ~handle => 2 * SleepTicks >= AudioTicks
    BY DEF AudioInv
  <2> QED
    BY <2>2, <2>4, <2>5, <2>6, <2>7, <2>8 DEF AudioInv
<1>3. CASE AudioThread
  <2>1. UNCHANGED <<clock, paused_time_offset, handle>>
    BY <1>3 DEF AudioThread, pauseVars
  <2>2. CASE ReadDevice
    <3>1. /\ thisAudioTime' = clock - paused_time_offset /\ readAt' = clock
          /\ sleep = 0 /\ sleep' = 0 /\ audioPc' = "paused"
          /\ UNCHANGED <<receivedAudioTime, soundAt>>
      BY <2>2 DEF ReadDevice
    <3>2. ~handle => ~gotAudioData'
      BY <2>2 DEF ReadDevice
    <3>3. ~handle => 2 * (readAt' - soundAt') >= AudioTicks
      BY <1>1, <3>1, TicksAssumption DEF AudioInv, Numbers
    <3>4. thisAudioTime' - receivedAudioTime' <= readAt' - soundAt'
      BY <1>1, <3>1 DEF AudioInv, Numbers
    <3> QED
      BY <1>1, <2>1, <3>1, <3>2, <3>3, <3>4 DEF AudioInv, Numbers
  <2>3. CASE ReadPaused
    <3>1. /\ audioPc = "paused" /\ audioPc' = "read"
          /\ sleep' = IF handle THEN 0 ELSE SleepTicks
      BY <2>3 DEF ReadPaused
    <3>2. /\ soundAt <= receivedAudioTime + paused_time_offset
          /\ readAt <= thisAudioTime + paused_time_offset
      BY <3>1 DEF AudioInv
    <3>3. soundAt' <= receivedAudioTime' + paused_time_offset
      <4>1. CASE receivedAudioTime' = thisAudioTime
        <5>1. soundAt' = readAt \/ ~(gotAudioData \/ encoded' > 0)
          BY <2>3 DEF ReadPaused
        <5>2. CASE soundAt' = readAt
          BY <3>2, <4>1, <5>2
        <5>3. CASE ~(gotAudioData \/ encoded' > 0)
          <6>1. soundAt' = soundAt /\ ~gotAudioData /\ ~(encoded' > 0)
            BY <2>3, <5>3 DEF ReadPaused
          <6>2. CASE ~paused /\ FillsGap
            <7>1. encoded' = MissingFrames
              BY <1>1, <2>3, <6>1, <6>2, MissingFramesType DEF ReadPaused, NewFrames
            <7>2. MissingFrames > 0
              <8>1. Rounded(thisAudioTime - receivedAudioTime, AudioTicks) \in Int
                BY <1>1, Rounding, TicksAssumption DEF Numbers
              <8> QED
                BY <6>1, <6>2, <8>1 DEF FillsGap, MissingFrames, Larger
            <7> QED
              BY <6>1, <7>1, <7>2
          <6>3. CASE ~(~paused /\ FillsGap)
            BY <2>3, <3>2, <6>1, <6>3 DEF ReadPaused
          <6> QED
            BY <6>2, <6>3
        <5> QED
          BY <5>1, <5>2, <5>3
      <4>2. CASE receivedAudioTime' # thisAudioTime
        <5>1. receivedAudioTime' = receivedAudioTime /\ ~gotAudioData
              /\ ~(~paused /\ FillsGap)
          BY <2>3, <4>2 DEF ReadPaused
        <5>2. encoded' = 0
          BY <2>3, <5>1 DEF ReadPaused, NewFrames
        <5>3. soundAt' = soundAt
          BY <2>3, <5>1, <5>2 DEF ReadPaused
        <5> QED
          BY <3>2, <5>1, <5>3
      <4> QED
        BY <4>1, <4>2
    <3>4. ~handle => 2 * ((clock + sleep') - soundAt') >= AudioTicks
      <4> SUFFICES ASSUME ~handle
                   PROVE  2 * ((clock + sleep') - soundAt') >= AudioTicks
        OBVIOUS
      <4>1. sleep' = SleepTicks /\ soundAt' \in {soundAt, readAt}
        BY <2>3, <3>1 DEF ReadPaused
      <4>2. readAt <= clock
        BY <3>1 DEF AudioInv
      <4>3. 2 * (readAt - soundAt) >= AudioTicks
        BY <3>1 DEF AudioInv
      <4>4. /\ clock \in Nat /\ readAt \in Nat /\ soundAt \in Int
            /\ AudioTicks \in Nat /\ SleepTicks \in Nat
        BY <1>1, TicksAssumption DEF Numbers
      <4>s. 2 * SleepTicks >= AudioTicks
        BY DEF AudioInv
      <4>5. 2 * ((clock + SleepTicks) - soundAt') >= AudioTicks
        <5>1. CASE soundAt' = soundAt
          BY <4>2, <4>3, <4>4, <5>1
        <5>2. CASE soundAt' = readAt
          BY <4>2, <4>4, <4>s, <5>2
        <5> QED
          BY <4>1, <5>1, <5>2
      <4> QED
        BY <4>1, <4>5
    <3> QED
      BY <2>1, <3>1, <3>3, <3>4 DEF AudioInv
  <2> QED
    BY <1>3, <2>2, <2>3 DEF AudioThread
<1> QED
  BY <1>2, <1>3 DEF Next

\* Half a frame of rounding is all that a turn with silence adds to the time since
\* the last one.
GapStep == Fills => 2 * AudioTicks * encoded' <= 2 * (readAt - soundAt) + AudioTicks

LEMMA NextGap == VideoInv /\ AudioInv /\ [Next]_vars => GapStep
<1> SUFFICES ASSUME VideoInv, AudioInv, [Next]_vars, Fills
             PROVE  2 * AudioTicks * encoded' <= 2 * (readAt - soundAt) + AudioTicks
  BY DEF GapStep
<1>1. Numbers
  BY TypeHalves DEF VideoInv
<1>2. encoded \in Nat /\ encoded' > encoded /\ encoded' > (IF gotAudioData THEN 1 ELSE 0)
  BY <1>1 DEF Fills, Numbers
<1>3. ReadPaused
  <2>1. CASE ReadDevice
    BY <1>2, <2>1 DEF ReadDevice
  <2>2. CASE UNCHANGED encoded
    BY <1>2, <2>2
  <2> QED
    BY <2>1, <2>2 DEF Next, Main, Tick, toggle_pause_handler, MainFrame, MainStamp,
                      MainClear, MainFlip, AudioThread, vars, audioVars, threadVars
<1> DEFINE gap == thisAudioTime - receivedAudioTime
           since == readAt - soundAt
           frames == Rounded(gap, AudioTicks)
<1>4. /\ gap \in Int /\ since \in Int /\ gap <= since
      /\ ~handle => ~gotAudioData /\ 2 * since >= AudioTicks
  BY <1>1, <1>3 DEF AudioInv, ReadPaused, Numbers
<1>5. frames \in Int /\ 2 * AudioTicks * frames <= 2 * gap + AudioTicks
  BY <1>4, Rounding, TicksAssumption
<1>6. encoded' = frames \/ (~handle /\ encoded' = 1)
  <2>1. MissingFrames = IF gotAudioData THEN Larger(0, frames - 1)
                        ELSE IF handle THEN frames ELSE Larger(1, frames)
    BY DEF MissingFrames
  <2>2. encoded' = NewFrames /\ NewFrames > 0
    BY <1>2, <1>3, <1>1, MissingFramesType DEF ReadPaused
  <2> HIDE DEF frames
  <2>3. FillsGap
    BY <1>2, <2>2 DEF NewFrames
  <2>4. CASE gotAudioData
    BY <1>2, <1>5, <2>1, <2>2, <2>3, <2>4 DEF NewFrames, Larger
  <2>5. CASE ~gotAudioData
    BY <1>5, <2>1, <2>2, <2>3, <2>5 DEF NewFrames, Larger
  <2> QED
    BY <2>4, <2>5
<1> HIDE DEF gap, since, frames
<1>7. 2 * AudioTicks * encoded' <= 2 * since + AudioTicks
  <2>1. AudioTicks \in Nat
    BY TicksAssumption
  <2>2. CASE encoded' = frames
    <3> DEFINE silence == 2 * AudioTicks * frames
    <3>1. silence \in Int /\ silence <= 2 * gap + AudioTicks
      BY <1>5, <2>1
    <3> HIDE DEF silence
    <3>2. silence <= 2 * since + AudioTicks
      BY <1>4, <2>1, <3>1
    <3> QED
      BY <2>2, <3>2 DEF silence
  <2>3. CASE ~handle /\ encoded' = 1
    BY <1>4, <2>1, <2>3
  <2> QED
    BY <1>6, <2>2, <2>3
<1> QED
  BY <1>7 DEF since

LEMMA InitAudio == Init => AudioInv
<1> SUFFICES ASSUME Init PROVE AudioInv
  OBVIOUS
<1>1. /\ clock = 0 /\ sleep = 0 /\ paused_time_offset = 0 /\ receivedAudioTime = 0
      /\ audioPc = "read" /\ soundAt = IF handle THEN 0 ELSE -AudioTicks
  BY DEF Init
<1>2. ~handle => 2 * SleepTicks >= AudioTicks
  BY SleepAssumption DEF Init
<1> QED
  BY <1>1, <1>2, TicksAssumption DEF AudioInv

LEMMA AudioInvariance == Spec => [](VideoInv /\ AudioInv)
BY InitVideo, NextVideo, InitAudio, AudioInvPreserved, PTL DEF Spec

\* The frames a turn of the audio thread gives for a gap, the data that ended it
\* included, are never more than the time since its last data or silence but for
\* half a frame: for any number of pauses between the reads of the thread, any
\* bursts of the data and any lengths of frames.
THEOREM NoGapIsFilledTwice == Spec => GapsAreFilledOnce
<1>1. VideoInv /\ AudioInv /\ [Next]_vars => [GapStep]_vars
  BY NextGap
<1>2. GapsAreFilledOnce <=> [][GapStep]_vars
  BY DEF GapsAreFilledOnce, GapStep
<1> QED
  BY <1>1, <1>2, AudioInvariance, PTL DEF Spec

-----------------------------------------------------------------------------
\* The requests to toggle the pause.

\* The flag stays set until it is cleared, so what the main thread has begun is
\* the request it found.
RequestInv ==
  /\ toggle_pause \in BOOLEAN /\ accepted \in Nat /\ flips \in Nat
  /\ RequestsCounted
  /\ mainPc \in {"stamp", "clear"} => toggle_pause

LEMMA NextRequest == RequestInv /\ [Next]_vars => RequestInv'
<1> SUFFICES ASSUME RequestInv, [Next]_vars PROVE RequestInv'
  OBVIOUS
<1> USE DEF RequestInv, RequestsCounted, Pending
<1>1. CASE toggle_pause_handler
  BY <1>1 DEF toggle_pause_handler
<1>2. CASE MainFrame
  BY <1>2 DEF MainFrame, signalVars
<1>3. CASE MainStamp
  BY <1>3 DEF MainStamp, signalVars
<1>4. CASE MainClear
  <2>1. Pending = 1 /\ Pending' = 1 /\ UNCHANGED <<accepted, flips>>
    BY <1>4 DEF MainClear
  <2> QED
    BY <1>4, <2>1 DEF MainClear
<1>5. CASE MainFlip
  BY <1>5 DEF MainFlip, signalVars
<1>6. CASE Tick \/ AudioThread \/ UNCHANGED vars
  BY <1>6 DEF Tick, AudioThread, vars, signalVars
<1> QED
  BY <1>1, <1>2, <1>3, <1>4, <1>5, <1>6 DEF Next, Main

\* However many requests come, and wherever in the loop: those that found the flag
\* clear have toggled the pause once each, but for the one still pending.
THEOREM RequestsAreCounted == Spec => []RequestsCounted
<1>1. Init => RequestInv
  <2> SUFFICES ASSUME Init PROVE RequestInv
    OBVIOUS
  <2>1. Pending = 0 + 0 /\ accepted = 0 /\ flips = 0
    BY Zenon DEF Init, Pending
  <2>2. toggle_pause = FALSE /\ mainPc = "frame"
    BY DEF Init
  <2>3. RequestsCounted
    BY <2>1 DEF RequestsCounted
  <2> QED
    BY <2>1, <2>2, <2>3 DEF RequestInv
<1>2. RequestInv => RequestsCounted
  BY DEF RequestInv
<1> QED
  BY <1>1, <1>2, NextRequest, PTL DEF Spec
=============================================================================
