------------------------------- MODULE Startup -------------------------------
(***************************************************************************)
(* From the command line to the recording and its end (main,                *)
(* src/src/main.cpp:1609-2309 and 2574-2629): the options are checked,       *)
(* codecs and capture method settled from what the options ask, the GPU     *)
(* can do and the file can hold, and the parts of the recording set up one   *)
(* after the other.  Each settles or sets up something the later ones build  *)
(* on, and any of them may end the program with _exit, which undoes nothing. *)
(* What a capture on an NVIDIA GPU takes is in CudaSession, the processes of  *)
(* the script for saved recordings in SavedScript.                           *)
(***************************************************************************)
EXTENDS CudaSession, SavedScript, FiniteSets

CONSTANT Options   \* the command lines and machines considered

Families  == {"h264", "hevc", "av1"}
Codecs    == Families \cup {"hevc_hdr", "av1_hdr"}

OptionType ==
  [k : Codecs \cup {"auto"},              \* -k
   ac : {"aac", "opus", "flac"},          \* -ac
   c : BOOLEAN,                           \* -c is given
   o : {"none", "file", "stream"},        \* -o: missing, a file, a live stream
   r : BOOLEAN,                           \* -r is given
   s : BOOLEAN,                           \* -s is given
   w : {"monitor", "window", "focused"},  \* -w
   fm : {"cfr", "vfr"},                   \* -fm
   oc : BOOLEAN,                          \* -oc yes
   sc : BOOLEAN,                          \* -sc is given
   tracks : 0..2,                         \* times -a is given
   amix : BOOLEAN,                        \* one of them merges devices
   ext : {"mp4", "mkv", "flv", "ts", "unknown"}, \* the container's extension
   vendor : {"nvidia", "amd", "intel"},
   wayland : BOOLEAN,
   supported : SUBSET Families]           \* encoders that open on this GPU

ASSUME OptionsAssumption == Options \subseteq OptionType

VARIABLES
  opt,         \* the command line and the machine
  pc,          \* what main does next
  codec,       \* video_codec
  asked,       \* video_codec_to_use: "auto" until it is settled
  encoder,     \* video_codec_f: the encoder's family, or "none"
  audio_codec,
  framerate,   \* framerate_mode
  capture,     \* the capture method
  tracks,      \* requested_audio_inputs
  script,      \* recording_saved_script is set
  opened,      \* audio tracks set up
  reason       \* why the program ended

vars == <<opt, pc, codec, asked, encoder, audio_codec, framerate, capture,
          tracks, script, opened, reason, gpuVars, scriptVars>>

Stages ==
  {"arguments", "mkv", "audio_codec", "auto", "flv", "find", "fallback",
   "capture", "stream", "start", "video", "tracks", "output", "recording",
   "stopping", "script", "exited"}

Captures == {"kms_cuda", "kms_vaapi", "nvfbc", "xcomposite_cuda",
             "xcomposite_vaapi"}

Reasons == {"none", "usage", "container", "encoder", "capture", "start",
            "video", "audio", "output", "done"}

TypeOK ==
  /\ opt \in OptionType
  /\ pc \in Stages
  /\ codec \in Codecs
  /\ asked \in Codecs \cup {"auto"}
  /\ encoder \in Families \cup {"none"}
  /\ audio_codec \in {"aac", "opus", "flac"}
  /\ framerate \in {"cfr", "vfr"}
  /\ capture \in Captures \cup {"none"}
  /\ tracks \in 0..2 /\ opened \in 0..tracks
  /\ script \in BOOLEAN
  /\ reason \in Reasons
  /\ GpuTypeOK /\ ScriptTypeOK

Family(c) == CASE c \in {"hevc", "hevc_hdr"} -> "hevc"
               [] c \in {"av1", "av1_hdr"}   -> "av1"
               [] OTHER                      -> "h264"

(* find_h264_encoder, find_h265_encoder, find_av1_encoder *)
Find(f) == IF f \in opt.supported THEN f ELSE "none"

Nvidia == opt.vendor = "nvidia"

codecs == <<codec, asked, encoder, audio_codec>>
parts  == <<framerate, capture, tracks, script, opened, gpuVars, scriptVars>>

Exit(why) ==
  /\ pc' = "exited" /\ reason' = why
  /\ UNCHANGED <<opt, codecs, parts>>

-----------------------------------------------------------------------------
(* The options that exclude or require one another *)
UsageError ==
  \/ opt.s /\ opt.w # "focused"
  \/ opt.o # "none" /\ opt.r /\ ~opt.c
  \/ opt.o = "none" /\ (opt.r \/ ~opt.c)

CheckArguments ==
  /\ pc = "arguments"
  /\ IF UsageError THEN Exit("usage")
     ELSE IF opt.ext = "unknown" THEN Exit("container")
     ELSE pc' = "mkv" /\ UNCHANGED <<opt, codecs, parts, reason>>

(* mutation: the vendor is not looked at *)
ForceHevcEverywhere ==
  /\ pc = "mkv"
  /\ IF opt.ext = "mkv" /\ asked = "h264"
       THEN asked' = "hevc" /\ codec' = "hevc"
       ELSE UNCHANGED <<asked, codec>>
  /\ pc' = "audio_codec"
  /\ UNCHANGED <<opt, encoder, audio_codec, parts, reason>>

(* mutation: h264 stays as it was asked for *)
ForceNothing ==
  /\ pc = "mkv" /\ pc' = "audio_codec"
  /\ UNCHANGED <<opt, codecs, parts, reason>>

(* h264 in mkv is replaced by hevc on AMD and Intel *)
ForceHevc ==
  /\ pc = "mkv"
  /\ IF ~Nvidia /\ opt.ext = "mkv" /\ asked = "h264"
       THEN asked' = "hevc" /\ codec' = "hevc"
       ELSE UNCHANGED <<asked, codec>>
  /\ pc' = "audio_codec"
  /\ UNCHANGED <<opt, encoder, audio_codec, parts, reason>>

AudioCodec(ac) ==
  IF ac \in {"opus", "flac"} /\ opt.ext \notin {"mp4", "mkv"} THEN "aac"
  ELSE IF ac = "flac" /\ opt.amix THEN "opus"
  ELSE ac

SettleAudioCodec ==
  /\ pc = "audio_codec"
  /\ audio_codec' = AudioCodec(audio_codec)
  /\ pc' = "auto"
  /\ UNCHANGED <<opt, codec, asked, encoder, parts, reason>>

Preferred == IF opt.vendor = "intel" THEN "h264" ELSE "hevc"
Other     == IF opt.vendor = "intel" THEN "hevc" ELSE "h264"

(* No codec was asked for: the preferred one, or the other if the GPU cannot *)
SettleAuto ==
  /\ pc = "auto"
  /\ IF asked = "auto"
       THEN codec' = IF Find(Preferred) # "none" THEN Preferred ELSE Other
       ELSE UNCHANGED codec
  /\ pc' = "flv"
  /\ UNCHANGED <<opt, asked, encoder, audio_codec, parts, reason>>

ForceH264 ==
  /\ pc = "flv"
  /\ codec' = IF opt.ext = "flv" THEN "h264" ELSE codec
  /\ pc' = "find"
  /\ UNCHANGED <<opt, asked, encoder, audio_codec, parts, reason>>

FindEncoder ==
  /\ pc = "find"
  /\ encoder' = Find(Family(codec))
  /\ pc' = "fallback"
  /\ UNCHANGED <<opt, codec, asked, audio_codec, parts, reason>>

Substitute(c) == IF Family(c) = "h264" THEN "hevc" ELSE "h264"

(* A codec that was asked for and cannot be encoded is replaced; without an  *)
(* encoder the program ends.                                                *)
FallBack ==
  /\ pc = "fallback"
  /\ IF encoder = "none" /\ asked # "auto" /\ opt.ext # "flv"
       THEN encoder' = Find(Substitute(codec)) /\ codec' = Substitute(codec)
       ELSE UNCHANGED <<encoder, codec>>
  /\ IF encoder' = "none"
       THEN pc' = "exited" /\ reason' = "encoder"
       ELSE pc' = "capture" /\ UNCHANGED reason
  /\ UNCHANGED <<opt, asked, audio_codec, parts>>

(* create_capture_impl *)
CaptureMethod ==
  IF opt.w = "monitor"
    THEN IF Nvidia THEN (IF opt.wayland THEN "kms_cuda" ELSE "nvfbc")
                   ELSE "kms_vaapi"
    ELSE IF Nvidia THEN "xcomposite_cuda" ELSE "xcomposite_vaapi"

CreateCapture ==
  /\ pc = "capture"
  /\ \/ /\ opt.w # "monitor" => ~opt.wayland
        /\ opt.w = "focused" => opt.s
        /\ capture' = CaptureMethod
        /\ pc' = "stream"
        /\ UNCHANGED <<opt, codecs, framerate, tracks, script, opened,
                       gpuVars, scriptVars, reason>>
     \/ Exit("capture")  \* no such monitor, not a window id, a bad region

Livestream == opt.o = "stream"

(* A live stream gets a silent track, a constant framerate and no script *)
AdaptToLivestream ==
  /\ pc = "stream"
  /\ tracks' = IF Livestream /\ tracks = 0 THEN 1 ELSE tracks
  /\ framerate' = IF Livestream THEN "cfr" ELSE framerate
  /\ script' = (script /\ ~Livestream)
  /\ pc' = "start"
  /\ UNCHANGED <<opt, codecs, capture, opened, gpuVars, scriptVars, reason>>

-----------------------------------------------------------------------------
(* Setting up *)

Others == <<opt, codecs, framerate, capture, tracks, script, opened>>

StartReturns(ok) ==
  /\ IF ok THEN pc' = "video" /\ UNCHANGED reason
           ELSE pc' = "exited" /\ reason' = "start"
  /\ UNCHANGED gpuVars

(* gsr_capture_start: on an NVIDIA GPU step by step.  It may fail earlier. *)
StartCapture ==
  /\ pc = "start"
  /\ \/ capture \notin CudaCaptures /\ \E ok \in BOOLEAN : StartReturns(ok)
     \/ /\ capture \in CudaCaptures
        /\ \/ StartStep(capture, opt.oc) /\ UNCHANGED <<pc, reason>>
           \/ gpuPc \in {"idle", "failed"} /\ StartReturns(FALSE)
           \/ gpuPc = "started" /\ StartReturns(TRUE)
  /\ UNCHANGED <<Others, scriptVars>>

(* open_video *)
OpenVideo ==
  /\ pc = "video"
  /\ \/ pc' = "tracks" /\ UNCHANGED <<opt, codecs, parts, reason>>
     \/ Exit("video")

(* mutation: one track more than asked for *)
OpenTrackTooMany ==
  /\ pc = "tracks" /\ opened <= tracks
  /\ \/ opened' = opened + 1
        /\ UNCHANGED <<opt, pc, codecs, framerate, capture, tracks, script,
                       gpuVars, scriptVars, reason>>
     \/ Exit("audio")

(* One audio track: its codec, filter graph and devices *)
OpenTrack ==
  /\ pc = "tracks" /\ opened < tracks
  /\ \/ opened' = opened + 1
        /\ UNCHANGED <<opt, pc, codecs, framerate, capture, tracks, script,
                       gpuVars, scriptVars, reason>>
     \/ Exit("audio")

TracksOpened ==
  /\ pc = "tracks" /\ opened = tracks
  /\ pc' = "output"
  /\ UNCHANGED <<opt, codecs, parts, reason>>

(* avio_open and avformat_write_header, for a recording *)
OpenOutput ==
  /\ pc = "output"
  /\ \/ pc' = "recording" /\ UNCHANGED <<opt, codecs, parts, reason>>
     \/ ~opt.r /\ Exit("output")

(* A replay has been saved: while recording, or after the loop.             *)
SaveReplay ==
  /\ pc \in {"recording", "stopping"} /\ gpuPc \in {"idle", "started"}
  /\ opt.r /\ script /\ Call
  /\ UNCHANGED <<Others, pc, reason, gpuVars>>

(* The main loop is left: by SIGINT, or because the capture has to stop *)
LeaveLoop ==
  /\ pc = "recording" /\ scriptPc = "none"
  /\ pc' = "stopping"
  /\ UNCHANGED <<opt, codecs, parts, reason>>

(* Threads joined, file finished, gsr_capture_destroy, and for a recording the *)
(* script                                                                    *)
StopCapture ==
  /\ pc = "stopping" /\ scriptPc = "none"
  /\ \/ StopStep /\ UNCHANGED <<pc, scriptVars>>
     \/ /\ gpuPc = "stopped" /\ UNCHANGED gpuVars
        /\ pc' = "script"
        /\ IF script /\ ~opt.r THEN Call ELSE UNCHANGED scriptVars
  /\ UNCHANGED <<Others, reason>>

Finish ==
  /\ pc = "script" /\ scriptPc = "none"
  /\ pc' = "exited" /\ reason' = "done"
  /\ UNCHANGED <<opt, codecs, parts>>

(* A child that is a recorder ends as main does: at once after the script of a *)
(* recording, by SIGINT in the loop; but it waits for ever for audio threads   *)
(* that it does not have.                                                    *)
ChildFinishes ==
  /\ opt.r => opened = 0
  /\ ChildExits
  /\ UNCHANGED <<Others, pc, reason, gpuVars>>

RunScript ==
  /\ ScriptStep
  /\ UNCHANGED <<Others, pc, reason, gpuVars>>

-----------------------------------------------------------------------------
Init ==
  /\ opt \in Options
  /\ pc = "arguments"
  /\ codec = IF opt.k = "auto" THEN "hevc" ELSE opt.k
  /\ asked = opt.k
  /\ encoder = "none"
  /\ audio_codec = opt.ac
  /\ framerate = opt.fm
  /\ capture = "none"
  /\ tracks = opt.tracks
  /\ script = opt.sc
  /\ opened = 0
  /\ reason = "none"
  /\ GpuInit /\ ScriptInit
  /\ settable \in IF Nvidia /\ opt.oc THEN SUBSET Offsets ELSE {{}}

Next ==
  \/ CheckArguments \/ ForceHevc \/ SettleAudioCodec \/ SettleAuto
  \/ ForceH264 \/ FindEncoder \/ FallBack \/ CreateCapture
  \/ AdaptToLivestream \/ StartCapture \/ OpenVideo \/ OpenTrack
  \/ TracksOpened \/ OpenOutput \/ SaveReplay \/ LeaveLoop \/ StopCapture \/ Finish
  \/ RunScript \/ ChildFinishes

Spec == Init /\ [][Next]_vars

(* Processes run; whether a recorder is told to stop is left open.            *)
FairSpec == Spec /\ WF_vars(RunScript) /\ WF_vars(~opt.r /\ ChildFinishes)

-----------------------------------------------------------------------------
(* Properties *)

Settled == capture # "none"

(* What is left of the rule that an mkv has no h264 on AMD and Intel           *)
(* (main.cpp:841 and 1981) when the later rules have been applied: they undo   *)
(* it if there is no encoder for hevc, if the choice was left to an Intel      *)
(* machine, or if av1 was asked for in vain; never otherwise.                *)
MkvRuleHolds ==
  ~Nvidia /\ opt.ext = "mkv" /\ codec = "h264" =>
    \/ "hevc" \notin opt.supported
    \/ opt.k = "auto" /\ opt.vendor = "intel"
    \/ Family(opt.k) = "av1" /\ "av1" \notin opt.supported

(* The video can be encoded by this GPU, with the encoder of the codec that   *)
(* decides about HDR and the container; an flv has h264, and an mkv on AMD and *)
(* Intel only in the cases named.                                           *)
VideoFits ==
  Settled =>
    /\ encoder = Family(codec) /\ encoder \in opt.supported
    /\ opt.ext = "flv" => codec = "h264"
    /\ MkvRuleHolds

(* The audio codec fits the container, and is one that mixed sources allow   *)
(* (main.cpp:1987-2013).                                                    *)
AudioFits ==
  Settled =>
    /\ audio_codec # "aac" => opt.ext \in {"mp4", "mkv"}
    /\ opt.amix => audio_codec # "flac"

(* A live stream is recorded at a constant framerate, with an audio track,   *)
(* and without a script.                                                    *)
LivestreamIsPlayable ==
  pc \in {"recording", "stopping"} /\ Livestream =>
    framerate = "cfr" /\ opened >= 1 /\ ~script

(* What is recorded can be encoded and fits where it goes, as far as the rules *)
(* applied one after the other see to it: the one about h264 in mkv is undone *)
(* by later ones in three cases, the others never.                          *)
RecordingFits == VideoFits /\ AudioFits /\ LivestreamIsPlayable

(* A codec that was asked for is used when the GPU supports it, unless the   *)
(* container forces another one.                                            *)
RequestIsHonoured ==
  /\ Settled
  /\ opt.k # "auto" /\ Family(opt.k) \in opt.supported
  /\ opt.ext # "flv" /\ ~(opt.k = "h264" /\ opt.ext = "mkv" /\ ~Nvidia)
  => codec = opt.k

(* A GPU that encodes h264 is never refused for want of an encoder.          *)
H264IsAlwaysEnough ==
  reason = "encoder" => "h264" \notin opt.supported

(* Both: an encoder is found when there is one to be found, and the one asked *)
(* for if possible.                                                         *)
EncoderIsFound == RequestIsHonoured /\ H264IsAlwaysEnough

(* Whatever step of the capture's start is refused, nothing is ever held      *)
(* without what it needs to be released, and when the start has failed or the *)
(* recording has ended nothing is left: no session, no context, no offset     *)
(* (the NvFBC library stays loaded when the start fails).                    *)
EndRestoresGpu ==
  /\ HeldInOrder
  /\ reason = "start" => held \subseteq {"library"}
  /\ reason = "done" => held = {}

(* One recorder goes on at a time, also when the script cannot be started; a  *)
(* script of a recording starts when the file is finished and the GPU given   *)
(* back, and a live stream starts none.                                     *)
RecorderIsAlone ==
  /\ child = "recorder" => scriptPc = "wait"
  /\ scripts /\ ~opt.r => pc \in {"script", "exited"} /\ held = {}
  /\ scripts => ~Livestream

(* The script runs aside: besides that, starting it returns, except to a      *)
(* replay whose child has become the recorder.                              *)
ScriptRunsAside ==
  [](RecorderIsAlone
     /\ (scriptPc # "none" => <>(scriptPc = "none" \/ (opt.r /\ child = "recorder"))))
=============================================================================
