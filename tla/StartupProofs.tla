---------------------------- MODULE StartupProofs ----------------------------
(***************************************************************************)
(* What holds of Startup for every set of command lines, machines and        *)
(* performance levels.                                                     *)
(***************************************************************************)
EXTENDS Startup, TLAPS

-----------------------------------------------------------------------------
(* The inductive invariant *)

(* The stages in which the codecs are being settled. *)
Early == {"arguments", "mkv", "audio_codec", "auto", "flv", "find", "fallback",
          "capture"}

From(stages) == pc \in stages \/ Settled

(* What has been settled when main has come to a stage. *)
CodecInv ==
  /\ Settled => pc \notin Early
  /\ asked = "auto" <=> opt.k = "auto"
  /\ From({"find", "fallback", "capture"}) /\ opt.ext = "flv" => codec = "h264"
  /\ pc = "fallback" => encoder = Find(Family(codec))
  /\ From({"capture"}) => encoder = Family(codec) /\ encoder \in opt.supported
  /\ From({"auto", "flv", "find", "fallback", "capture"}) =>
       /\ audio_codec # "aac" => opt.ext \in {"mp4", "mkv"}
       /\ opt.amix => audio_codec # "flac"

(* The request that nothing forbids *)
Possible ==
  /\ opt.k # "auto" /\ Family(opt.k) \in opt.supported
  /\ opt.ext # "flv" /\ ~(opt.k = "h264" /\ opt.ext = "mkv" /\ ~Nvidia)

(* How the encoder is found. *)
EncoderInv ==
  /\ Possible => asked = opt.k /\ codec = opt.k
  /\ pc \in {"flv", "find", "fallback"} /\ asked = "auto"
       /\ "h264" \in opt.supported => Family(codec) \in opt.supported
  /\ reason = "encoder" => "h264" \notin opt.supported

(* The tracks of the recording *)
TracksInv ==
  /\ pc \in {"start", "video", "tracks", "output", "recording", "stopping"}
       /\ Livestream => framerate = "cfr" /\ tracks >= 1 /\ ~script
  /\ pc \in {"output", "recording", "stopping"} => opened = tracks

(* What the capture holds when it has come to a step.  An offset that has been *)
(* raised is one that stop sets again.                                      *)
HeldAt ==
  /\ gpuPc \in {"idle", "stopped"} => held = {}
  /\ gpuPc = "failed" => held \subseteq {"library"}
  /\ gpuPc \in {"overclock", "library", "handle", "session", "setup",
                "contexts", "graphics"} => "context" \in held
  /\ gpuPc \in {"handle", "session", "setup"} => "library" \in held
  /\ gpuPc \in {"session", "setup"} => "handle" \in held
  /\ gpuPc \in {"cuda", "overclock", "contexts"} /\ capture = "xcomposite_cuda"
       => "texture" \in held
  /\ gpuPc = "graphics" => "texture" \in held
  /\ gpuPc \in {"library", "handle", "session", "setup"} => capture = "nvfbc"
  /\ \A o \in Offsets : offsets[o] = "raised" =>
       "xnvctrl" \in held /\ o \in settable \cap ({"all"} \cup known)

GpuInv ==
  /\ HeldAt /\ HeldInOrder
  /\ pc \in Early \cup {"stream"} => gpuPc = "idle"
  /\ pc = "start" /\ capture \notin CudaCaptures => gpuPc = "idle"
  /\ pc = "script" => gpuPc = "stopped"
  /\ reason # "none" => pc = "exited"
  /\ reason = "start" => held \subseteq {"library"}
  /\ reason = "done" => held = {}

Inv == TypeOK /\ CodecInv /\ EncoderInv /\ TracksInv /\ GpuInv

-----------------------------------------------------------------------------
(* The rules that settle the codecs *)

Rules == CheckArguments \/ ForceHevc \/ SettleAudioCodec \/ SettleAuto
         \/ ForceH264 \/ FindEncoder \/ FallBack \/ CreateCapture

LEMMA FamilyType ==
  /\ \A c \in Codecs : Family(c) \in Families /\ Family(Family(c)) = Family(c)
  /\ Substitute(codec) \in {"h264", "hevc"}
  /\ Family(Substitute(codec)) = Substitute(codec)
  BY DEF Family, Families, Codecs, Substitute

LEMMA FindType ==
  ASSUME TypeOK, NEW f \in Families
  PROVE  /\ Find(f) \in Families \cup {"none"}
         /\ Find(f) # "none" => Find(f) = f /\ f \in opt.supported
         /\ Find(f) = "none" => f \notin opt.supported
  BY DEF Find, Families, TypeOK, OptionType

(* What a rule leaves alone, and where main goes. *)
LEMMA RulesLeave ==
  ASSUME Rules
  PROVE  /\ UNCHANGED <<opt, framerate, tracks, script, opened, gpuVars, scriptVars>>
         /\ pc \in Early /\ pc' \in Early \cup {"stream", "exited"}
         /\ reason' = reason \/ (reason' \in {"usage", "container", "encoder",
                                              "capture"} /\ pc' = "exited")
         /\ capture' = capture \/ (pc' = "stream" /\ capture' \in Captures)
         /\ pc' = "exited" \/ reason' = reason
  BY DEF Rules, CheckArguments, ForceHevc, SettleAudioCodec, SettleAuto,
         ForceH264, FindEncoder, FallBack, CreateCapture, CaptureMethod, Captures,
         Exit, parts, codecs, Early

LEMMA RulesKeepTypes ==
  ASSUME TypeOK, Rules
  PROVE  TypeOK'
  <1>1. codec' \in Codecs /\ asked' \in Codecs \cup {"auto"}
        /\ encoder' \in Families \cup {"none"}
        /\ audio_codec' \in {"aac", "opus", "flac"}
    <2>0. Preferred \in Codecs /\ Other \in Codecs /\ "h264" \in Codecs
          /\ "hevc" \in Codecs /\ {"h264", "hevc"} \subseteq Families
      BY DEF Preferred, Other, Codecs, Families
    <2>1. /\ Find(Family(codec)) \in Families \cup {"none"}
          /\ Substitute(codec) \in Codecs
          /\ Find(Substitute(codec)) \in Families \cup {"none"}
      BY <2>0, FamilyType, FindType DEF TypeOK
    <2>2. AudioCodec(audio_codec) \in {"aac", "opus", "flac"}
      BY DEF AudioCodec, TypeOK
    <2> QED
      BY <2>0, <2>1, <2>2
      DEF Rules, CheckArguments, ForceHevc, SettleAudioCodec, SettleAuto,
          ForceH264, FindEncoder, FallBack, CreateCapture, Exit, codecs, TypeOK
  <1>2. pc' \in Stages /\ reason' \in Reasons /\ capture' \in Captures \cup {"none"}
    BY RulesLeave DEF TypeOK, Early, Stages, Reasons
  <1> QED
    BY <1>1, <1>2, RulesLeave
    DEF TypeOK, GpuTypeOK, ScriptTypeOK, gpuVars, scriptVars

LEMMA RulesKeepCodecs ==
  ASSUME Inv, Rules
  PROVE  CodecInv' /\ EncoderInv'
  <1> USE DEF Inv
  <1>0. /\ ~Settled /\ pc # "exited" /\ reason # "encoder"
        /\ opt' = opt
        /\ codec \in Codecs /\ Family(codec) \in Families
        /\ (capture' # "none" => pc' = "stream" \/ capture' = capture)
    BY RulesLeave, FamilyType
    DEF CodecInv, GpuInv, TypeOK, Settled, Early, Captures
  <1> DEFINE Same == UNCHANGED <<opt, codecs, parts>>
  <1>1. CASE CheckArguments
    <2>1. /\ UNCHANGED <<opt, codec, asked, encoder, audio_codec, capture>>
          /\ pc' \in {"mkv", "exited"}
          /\ reason' \in {reason, "usage", "container"}
      BY <1>1 DEF CheckArguments, Exit, codecs, parts
    <2> QED
      BY <1>0, <2>1
      DEF CodecInv, EncoderInv, Settled, From, Early, Possible, Nvidia
  <1>2. CASE ForceHevc
    <2>1. /\ UNCHANGED <<opt, encoder, audio_codec, capture, reason>>
          /\ pc' = "audio_codec"
          /\ \/ ~Nvidia /\ opt.ext = "mkv" /\ asked = "h264" /\ asked' = "hevc"
             \/ UNCHANGED <<asked, codec>>
      BY <1>2 DEF ForceHevc, parts
    <2> QED
      BY <1>0, <2>1
      DEF CodecInv, EncoderInv, Settled, From, Early, Possible, Nvidia
  <1>3. CASE SettleAudioCodec
    <2>1. /\ UNCHANGED <<opt, codec, asked, encoder, capture, reason>>
          /\ pc' = "auto" /\ audio_codec' = AudioCodec(audio_codec)
      BY <1>3 DEF SettleAudioCodec, parts
    <2>2. /\ audio_codec' # "aac" => opt.ext \in {"mp4", "mkv"}
          /\ opt.amix => audio_codec' # "flac"
      BY <2>1 DEF AudioCodec, TypeOK
    <2> QED
      BY <1>0, <2>1, <2>2
      DEF CodecInv, EncoderInv, Settled, From, Early, Possible, Nvidia
  <1>4. CASE SettleAuto
    <2>1. /\ UNCHANGED <<opt, asked, encoder, audio_codec, capture, reason>>
          /\ pc = "auto" /\ pc' = "flv"
          /\ codec' = IF asked = "auto"
                        THEN IF Find(Preferred) # "none" THEN Preferred ELSE Other
                        ELSE codec
      BY <1>4 DEF SettleAuto, parts
    <2>2. asked = "auto" /\ "h264" \in opt.supported =>
            Family(codec') \in opt.supported
      <3>1. {Preferred, Other} = {"h264", "hevc"}
        BY DEF Preferred, Other
      <3>2. Family("h264") = "h264" /\ Family("hevc") = "hevc"
        BY DEF Family
      <3>3. Preferred \in Families /\ "none" \notin Families
        BY <3>1 DEF Families
      <3> QED
        BY <2>1, <3>1, <3>2, <3>3, FindType
    <2> QED
      BY <1>0, <2>1, <2>2
      DEF CodecInv, EncoderInv, Settled, From, Early, Possible, Nvidia
  <1>5. CASE ForceH264
    <2>1. /\ UNCHANGED <<opt, asked, encoder, audio_codec, capture, reason>>
          /\ pc = "flv" /\ pc' = "find"
          /\ codec' = IF opt.ext = "flv" THEN "h264" ELSE codec
      BY <1>5 DEF ForceH264, parts
    <2>2. Family("h264") = "h264"
      BY DEF Family
    <2> QED
      BY <1>0, <2>1, <2>2
      DEF CodecInv, EncoderInv, Settled, From, Early, Possible, Nvidia
  <1>6. CASE FindEncoder
    <2>1. /\ UNCHANGED <<opt, codec, asked, audio_codec, capture, reason>>
          /\ pc = "find" /\ pc' = "fallback"
          /\ encoder' = Find(Family(codec))
      BY <1>6 DEF FindEncoder, parts
    <2> QED
      BY <1>0, <2>1
      DEF CodecInv, EncoderInv, Settled, From, Early, Possible, Nvidia, Find
  <1>7. CASE FallBack
    <2>1. /\ UNCHANGED <<opt, asked, audio_codec, capture>>
          /\ pc = "fallback"
          /\ \/ encoder' = "none" /\ pc' = "exited" /\ reason' = "encoder"
             \/ encoder' # "none" /\ pc' = "capture" /\ UNCHANGED reason
      BY <1>7 DEF FallBack, parts
    <2>2. encoder = Find(Family(codec))
      BY <2>1 DEF CodecInv
    <2>3. \/ /\ encoder = "none" /\ asked # "auto" /\ opt.ext # "flv"
             /\ encoder' = Find(Substitute(codec)) /\ codec' = Substitute(codec)
          \/ /\ ~(encoder = "none" /\ asked # "auto" /\ opt.ext # "flv")
             /\ UNCHANGED <<encoder, codec>>
      BY <1>7 DEF FallBack
    <2>4. /\ encoder' # "none" => encoder' = Family(codec') /\ encoder' \in opt.supported
          /\ opt.ext = "flv" => codec' = "h264"
      <3>1. opt.ext = "flv" => codec = "h264"
        BY <2>1 DEF CodecInv, From
      <3>2. Substitute(codec) \in Families
        BY FamilyType DEF Families
      <3> QED
        BY <1>0, <2>2, <2>3, <3>1, <3>2, FindType, FamilyType
    <2>5. encoder' = "none" => "h264" \notin opt.supported
      <3> SUFFICES ASSUME encoder' = "none", "h264" \in opt.supported
                   PROVE  FALSE
        OBVIOUS
      <3>1. encoder = "none" /\ Family(codec) \notin opt.supported
        BY <1>0, <2>2, <2>3, FamilyType, FindType
      <3>2. asked # "auto"
        BY <2>1, <3>1 DEF EncoderInv
      <3>3. opt.ext # "flv"
        BY <2>1, <3>1 DEF CodecInv, From, Family
      <3>4. Substitute(codec) = "h264"
        BY <3>1 DEF Substitute
      <3> QED
        BY <2>3, <3>1, <3>2, <3>3, <3>4, FindType DEF Families
    <2>6. Possible => codec' = codec
      <3>1. Possible => Family(codec) \in opt.supported
        BY DEF EncoderInv, Possible
      <3> QED
        BY <1>0, <2>2, <2>3, <3>1, FindType DEF Families
    <2>7. CodecInv'
      BY <1>0, <2>1, <2>4 DEF CodecInv, Settled, From, Early
    <2>8. EncoderInv'
      BY <1>0, <2>1, <2>5, <2>6 DEF EncoderInv, Possible, Nvidia
    <2> QED
      BY <2>7, <2>8
  <1>8. CASE CreateCapture
    <2>1. /\ UNCHANGED <<opt, codec, asked, encoder, audio_codec>>
          /\ pc = "capture" /\ pc' \in {"stream", "exited"}
          /\ reason' \in {reason, "capture"}
          /\ pc' = "exited" => capture' = capture
      BY <1>8 DEF CreateCapture, Exit, codecs, parts
    <2> QED
      BY <1>0, <2>1
      DEF CodecInv, EncoderInv, Settled, From, Early, Possible, Nvidia
  <1> QED
    BY <1>1, <1>2, <1>3, <1>4, <1>5, <1>6, <1>7, <1>8 DEF Rules

LEMMA RulesKeepInv ==
  ASSUME Inv, Rules
  PROVE  Inv'
  <1>1. pc # "exited" /\ reason = "none" /\ gpuPc = "idle"
    BY RulesLeave DEF Inv, GpuInv, Early
  <1>2. TypeOK' /\ CodecInv' /\ EncoderInv'
    BY RulesKeepTypes, RulesKeepCodecs DEF Inv
  <1>3. TracksInv'
    BY RulesLeave DEF Inv, TracksInv, Early, Livestream
  <1>4. HeldAt' /\ HeldInOrder'
    BY <1>1, RulesLeave DEF Inv, GpuInv, HeldAt, HeldInOrder, gpuVars
  <1>5. GpuInv'
    BY <1>1, <1>4, RulesLeave DEF Inv, GpuInv, gpuVars, Early
  <1> QED
    BY <1>2, <1>3, <1>5 DEF Inv

-----------------------------------------------------------------------------
(* The GPU *)

(* What taking a resource and going on leaves. *)
LEMMA AcquireKeeps ==
  ASSUME HeldAt, HeldInOrder, NEW at, NEW r, NEW next, Acquire(at, r, next)
  PROVE  /\ gpuPc = at /\ UNCHANGED <<settable, offsets, known>>
         /\ \/ held' = held \cup r /\ gpuPc' = next
            \/ held' = held /\ gpuPc' = "cleanup"
         /\ \A o \in Offsets : offsets'[o] = "raised" =>
              "xnvctrl" \in held' /\ o \in settable' \cap ({"all"} \cup known')
  BY DEF Acquire, HeldAt

LEMMA OffsetsSet ==
  ASSUME offsets \in [Offsets -> {"found", "raised", "zero"}],
         NEW levels, NEW value \in {"raised", "zero"}, SetOffsets(levels, value)
  PROVE  /\ offsets' \in [Offsets -> {"found", "raised", "zero"}]
         /\ \A o \in Offsets :
              offsets'[o] = IF o \in settable \cap ({"all"} \cup levels)
                              THEN value ELSE offsets[o]
  BY DEF SetOffsets

(* HeldInOrder without its quantifier *)
LEMMA NeedsMet ==
  HeldInOrder <=>
    /\ "session" \in held => {"handle", "context"} \subseteq held
    /\ "handle" \in held => "library" \in held
    /\ "contexts" \in held => "context" \in held
    /\ "graphics" \in held => {"context", "texture"} \subseteq held
    /\ \A o \in Offsets : offsets[o] = "raised" => "xnvctrl" \in held
  BY DEF HeldInOrder, Needs

(* The same after a step *)
LEMMA NeedsMetNext ==
  /\ "session" \in held' => {"handle", "context"} \subseteq held'
  /\ "handle" \in held' => "library" \in held'
  /\ "contexts" \in held' => "context" \in held'
  /\ "graphics" \in held' => {"context", "texture"} \subseteq held'
  /\ \A o \in Offsets : offsets'[o] = "raised" => "xnvctrl" \in held'
  => HeldInOrder'
  BY DEF HeldInOrder, Needs

(* One thing released, or the last of them *)
LEMMA ReleaseKeeps ==
  ASSUME HeldAt, HeldInOrder, GpuTypeOK, capture' = capture,
         gpuPc \in {"cleanup", "stopping"}, Release \/ Released
  PROVE  HeldAt' /\ HeldInOrder' /\ GpuTypeOK'
  <1> USE DEF HeldAt
  <1>0. /\ held \subseteq Resources /\ settable \subseteq Offsets
        /\ known \subseteq Levels
        /\ offsets \in [Offsets -> {"found", "raised", "zero"}]
    BY DEF GpuTypeOK
  <1>1. CASE Released
    <2>1. /\ UNCHANGED <<settable, offsets, known>> /\ held \subseteq {"library"}
          /\ \/ gpuPc' = "failed" /\ held' = held
             \/ gpuPc' = "stopped" /\ held' = {}
      BY <1>1 DEF Released
    <2>2. \A o \in Offsets : offsets[o] # "raised"
      BY <2>1
    <2>3. HeldInOrder'
      BY <2>1, <2>2, NeedsMetNext
    <2> QED
      BY <1>0, <2>1, <2>2, <2>3 DEF GpuTypeOK, GpuPcs
  <1>2. CASE Release
    <2>1. PICK i \in DOMAIN Order :
            /\ IsNext(i) /\ held' = held \ {Order[i]}
            /\ IF Order[i] = "xnvctrl" THEN SetOffsets(known, "zero")
                                      ELSE UNCHANGED offsets
      BY <1>2 DEF Release
    <2>2. UNCHANGED <<gpuPc, settable, known>>
      BY <1>2 DEF Release
    <2>3. /\ i \in 1..7
          /\ Order[1] = "graphics" /\ Order[2] = "texture" /\ Order[3] = "session"
          /\ Order[4] = "handle" /\ Order[5] = "contexts" /\ Order[6] = "xnvctrl"
          /\ Order[7] = "context"
      BY DEF Order
    <2>4. \A j \in 1..(i - 1) : Order[j] \notin held
      BY <2>1 DEF IsNext
    <2>5. /\ offsets' \in [Offsets -> {"found", "raised", "zero"}]
          /\ \A o \in Offsets : offsets'[o] = "raised" =>
               "xnvctrl" \in held' /\ o \in settable' \cap ({"all"} \cup known')
      <3>1. CASE Order[i] = "xnvctrl"
        <4>1. /\ offsets' \in [Offsets -> {"found", "raised", "zero"}]
              /\ \A o \in Offsets : offsets'[o] =
                   IF o \in settable \cap ({"all"} \cup known) THEN "zero"
                                                            ELSE offsets[o]
          BY <1>0, <2>1, <3>1, OffsetsSet
        <4> QED
          BY <4>1
      <3>2. CASE Order[i] # "xnvctrl"
        BY <1>0, <2>1, <2>2, <3>2
      <3> QED
        BY <3>1, <3>2
    <2>6. /\ "session" \in held' => {"handle", "context"} \subseteq held'
          /\ "handle" \in held' => "library" \in held'
          /\ "contexts" \in held' => "context" \in held'
          /\ "graphics" \in held' => {"context", "texture"} \subseteq held'
      BY <2>1, <2>3, <2>4, NeedsMet
    <2>7. HeldInOrder'
      BY <2>5, <2>6, NeedsMetNext
    <2>8. HeldAt'
      BY <2>2, <2>5
    <2> QED
      BY <1>0, <2>1, <2>2, <2>5, <2>7, <2>8 DEF GpuTypeOK
  <1> QED
    BY <1>1, <1>2

LEMMA StartStepKeeps ==
  ASSUME HeldAt, HeldInOrder, GpuTypeOK, capture \in CudaCaptures, capture' = capture,
         NEW do_overclock, StartStep(capture, do_overclock)
  PROVE  HeldAt' /\ HeldInOrder' /\ GpuTypeOK'
  <1> USE DEF HeldAt
  <1>0. gpuPc' \in GpuPcs /\ held \subseteq Resources /\ settable \subseteq Offsets
        /\ known \subseteq Levels
        /\ offsets \in [Offsets -> {"found", "raised", "zero"}]
    <2>1. gpuPc' \in GpuPcs
      BY DEF StartStep, BeginStart, TargetTexture, CudaLoad, Overclock, LoadNvfbc,
             CreateHandle, CreateCaptureSession, ToCudaSetUp, CreateContexts,
             RegisterTexture, Release, Released, Acquire, AfterCuda, GpuPcs
    <2> QED
      BY <2>1 DEF GpuTypeOK
  <1>1. CASE BeginStart(capture)
    <2>1. /\ UNCHANGED <<held, settable, offsets, known>>
          /\ gpuPc' \in {"texture", "cuda"}
          /\ gpuPc' = "cuda" => capture # "xcomposite_cuda"
      BY <1>1 DEF BeginStart
    <2>2. HeldInOrder'
      BY <2>1 DEF HeldInOrder
    <2> QED
      BY <1>0, <2>1, <2>2 DEF GpuTypeOK
  <1>2. CASE Overclock(capture)
    <2>1. /\ gpuPc = "overclock" /\ gpuPc' = AfterCuda(capture)
          /\ settable' = settable
          /\ held' \in {held, held \cup {"xnvctrl"}}
          /\ \/ UNCHANGED <<offsets, known>>
             \/ "xnvctrl" \in held' /\ known' = Levels /\ SetOffsets(Levels, "raised")
      BY <1>2 DEF Overclock
    <2>2. /\ gpuPc' \in {"library", "contexts"}
          /\ gpuPc' = "library" <=> capture = "nvfbc"
      BY <2>1 DEF AfterCuda
    <2>3. /\ offsets' \in [Offsets -> {"found", "raised", "zero"}]
          /\ known' \subseteq Levels
          /\ \A o \in Offsets : offsets'[o] = "raised" =>
               "xnvctrl" \in held' /\ o \in settable' \cap ({"all"} \cup known')
      <3>1. CASE UNCHANGED <<offsets, known>>
        BY <1>0, <2>1, <3>1
      <3>2. CASE "xnvctrl" \in held' /\ known' = Levels /\ SetOffsets(Levels, "raised")
        BY <1>0, <2>1, <3>2, OffsetsSet
      <3> QED
        BY <2>1, <3>1, <3>2
    <2>4. HeldInOrder'
      BY <2>1, <2>3, NeedsMet, NeedsMetNext
    <2>5. HeldAt'
      BY <2>1, <2>2, <2>3
    <2> QED
      BY <1>0, <2>1, <2>3, <2>4, <2>5 DEF GpuTypeOK, Resources
  <1>3. ASSUME NEW at, NEW r, NEW next, Acquire(at, {r}, next), r \in Resources,
               at \in {"texture", "cuda", "library", "handle", "session", "contexts",
                      "graphics"},
               r = CASE at = "texture" -> "texture" [] at = "cuda" -> "context"
                     [] at = "library" -> "library" [] at = "handle" -> "handle"
                     [] at = "session" -> "session" [] at = "contexts" -> "contexts"
                     [] at = "graphics" -> "graphics",
               next \in CASE at = "texture" -> {"cuda"}
                          [] at = "cuda" -> {"overclock", AfterCuda(capture)}
                          [] at = "library" -> {"handle"} [] at = "handle" -> {"session"}
                          [] at = "session" -> {"setup"}
                          [] at = "contexts" ->
                               {IF capture = "xcomposite_cuda" THEN "graphics" ELSE "started"}
                          [] at = "graphics" -> {"started"}
        PROVE  HeldAt' /\ HeldInOrder' /\ GpuTypeOK'
    <2>1. /\ gpuPc = at /\ UNCHANGED <<settable, offsets, known>>
          /\ \/ held' = held \cup {r} /\ gpuPc' = next
             \/ held' = held /\ gpuPc' = "cleanup"
          /\ \A o \in Offsets : offsets'[o] = "raised" =>
               "xnvctrl" \in held' /\ o \in settable' \cap ({"all"} \cup known')
      BY <1>3, AcquireKeeps
    <2>2. HeldInOrder'
      BY <1>3, <2>1, NeedsMet, NeedsMetNext
    <2>3. HeldAt'
      BY <1>3, <2>1 DEF AfterCuda
    <2> QED
      BY <1>0, <1>3, <2>1, <2>2, <2>3 DEF GpuTypeOK
  <1>4. CASE TargetTexture \/ CudaLoad(capture, do_overclock)
    BY <1>3, <1>4 DEF TargetTexture, CudaLoad, Resources
  <1>5. CASE LoadNvfbc \/ CreateHandle \/ CreateCaptureSession
    BY <1>3, <1>5 DEF LoadNvfbc, CreateHandle, CreateCaptureSession, Resources
  <1>6. CASE CreateContexts(capture) \/ RegisterTexture
    BY <1>3, <1>6 DEF CreateContexts, RegisterTexture, Resources
  <1>7. CASE ToCudaSetUp
    <2>1. /\ gpuPc = "setup" /\ UNCHANGED <<settable, offsets, known>>
          /\ held' = held /\ gpuPc' \in {"contexts", "cleanup"}
          /\ \A o \in Offsets : offsets'[o] = "raised" =>
               "xnvctrl" \in held' /\ o \in settable' \cap ({"all"} \cup known')
      BY <1>7, AcquireKeeps DEF ToCudaSetUp
    <2>2. HeldInOrder'
      BY <2>1 DEF HeldInOrder
    <2> QED
      BY <1>0, <2>1, <2>2 DEF GpuTypeOK
  <1>8. CASE gpuPc = "cleanup" /\ (Release \/ Released)
    BY <1>8, ReleaseKeeps
  <1> QED
    BY <1>1, <1>2, <1>4, <1>5, <1>6, <1>7, <1>8 DEF StartStep

LEMMA StopStepKeeps ==
  ASSUME HeldAt, HeldInOrder, GpuTypeOK, capture' = capture, StopStep
  PROVE  HeldAt' /\ HeldInOrder' /\ GpuTypeOK'
  <1>1. CASE BeginStop
    <2>1. gpuPc' = "stopping" /\ UNCHANGED <<held, settable, offsets, known>>
      BY <1>1 DEF BeginStop
    <2>2. HeldInOrder'
      BY <2>1 DEF HeldInOrder
    <2> QED
      BY <2>1, <2>2 DEF HeldAt, GpuTypeOK, GpuPcs
  <1>2. CASE gpuPc = "stopping" /\ (Release \/ Released)
    BY <1>2, ReleaseKeeps
  <1> QED
    BY <1>1, <1>2 DEF StopStep

LEMMA GpuStays ==
  ASSUME HeldAt, HeldInOrder, GpuTypeOK, UNCHANGED <<capture, gpuVars>>
  PROVE  HeldAt' /\ HeldInOrder' /\ GpuTypeOK'
  <1>1. UNCHANGED <<gpuPc, held, settable, offsets, known>>
    BY DEF gpuVars
  <1>2. HeldInOrder'
    BY <1>1 DEF HeldInOrder
  <1> QED
    BY <1>1, <1>2 DEF HeldAt, GpuTypeOK

-----------------------------------------------------------------------------
(* Setting up, recording and ending *)

Setup == AdaptToLivestream \/ StartCapture \/ OpenVideo \/ OpenTrack
         \/ TracksOpened \/ OpenOutput \/ SaveReplay \/ LeaveLoop \/ StopCapture
         \/ Finish

Aside == RunScript \/ ChildFinishes

(* What these steps leave alone, and where main goes. *)
LEMMA SetupLeaves ==
  ASSUME Setup
  PROVE  /\ UNCHANGED <<opt, codec, asked, encoder, audio_codec, capture>>
         /\ pc \in Stages \ (Early \cup {"exited"})
         /\ pc' \in Stages \ (Early \cup {"stream"})
         /\ \/ reason' = reason /\ pc' # "exited"
            \/ pc' = "exited" /\ reason' \in {"start", "video", "audio", "output", "done"}
  BY DEF Setup, AdaptToLivestream, StartCapture, StartReturns, OpenVideo, OpenTrack,
         TracksOpened, OpenOutput, SaveReplay, LeaveLoop, StopCapture, Finish, Exit,
         Others, parts, codecs, Early, Stages

LEMMA ScriptKeepsTypes ==
  ASSUME ScriptTypeOK, Call \/ ScriptStep \/ ChildExits \/ UNCHANGED scriptVars
  PROVE  ScriptTypeOK'
  BY DEF ScriptTypeOK, Call, ScriptStep, Fork, ForkAgain, Waited, ChildExits,
         scriptVars

(* The tracks and what else a live stream changes *)
LEMMA SetupKeepsTracks ==
  ASSUME TypeOK, TracksInv, Setup
  PROVE  /\ TracksInv'
         /\ framerate' \in {"cfr", "vfr"} /\ script' \in BOOLEAN
         /\ tracks' \in 0..2 /\ opened' \in 0..tracks'
  <1>0. /\ framerate \in {"cfr", "vfr"} /\ script \in BOOLEAN
        /\ tracks \in 0..2 /\ opened \in 0..tracks
    BY DEF TypeOK
  <1>1. opt' = opt /\ (Livestream' <=> Livestream)
    BY SetupLeaves DEF Livestream
  <1>2. CASE AdaptToLivestream
    <2>1. /\ tracks' = IF Livestream /\ tracks = 0 THEN 1 ELSE tracks
          /\ framerate' = IF Livestream THEN "cfr" ELSE framerate
          /\ script' = (script /\ ~Livestream)
          /\ pc' = "start" /\ opened' = opened
      BY <1>2 DEF AdaptToLivestream
    <2>2. script' \in BOOLEAN
      BY <2>1
    <2>3. tracks' \in 0..2 /\ opened' \in 0..tracks' /\ framerate' \in {"cfr", "vfr"}
      BY <1>0, <2>1
    <2>4. Livestream => framerate' = "cfr" /\ tracks' >= 1 /\ ~script'
      <3>1. CASE Livestream
        <4>1. tracks' >= 1 /\ framerate' = "cfr"
          BY <1>0, <2>1, <3>1
        <4>2. ~script'
          BY <2>1, <3>1, Zenon
        <4> QED
          BY <4>1, <4>2
      <3> QED
        BY <3>1
    <2> QED
      BY <1>1, <2>1, <2>2, <2>3, <2>4 DEF TracksInv
  <1>3. CASE OpenTrack
    <2>1. /\ pc = "tracks" /\ opened < tracks
          /\ UNCHANGED <<framerate, tracks, script>>
          /\ \/ opened' = opened + 1 /\ pc' = pc
             \/ opened' = opened /\ pc' = "exited"
      BY <1>3 DEF OpenTrack, Exit, parts
    <2> QED
      BY <1>0, <1>1, <2>1 DEF TracksInv
  <1>4. CASE TracksOpened
    BY <1>0, <1>1, <1>4 DEF TracksOpened, parts, TracksInv
  <1>5. CASE StartCapture \/ OpenVideo \/ OpenOutput \/ SaveReplay \/ LeaveLoop
             \/ StopCapture \/ Finish
    <2>1. /\ UNCHANGED <<framerate, tracks, script, opened>>
          /\ \/ pc' = pc
             \/ pc' \in {"script", "exited"}
             \/ pc = "start" /\ pc' = "video"
             \/ pc = "video" /\ pc' = "tracks"
             \/ pc = "output" /\ pc' = "recording"
             \/ pc = "recording" /\ pc' = "stopping"
      BY <1>5 DEF StartCapture, StartReturns, OpenVideo, OpenOutput, SaveReplay,
                  LeaveLoop, StopCapture, Finish, Exit, Others, parts
    <2> QED
      BY <1>0, <1>1, <2>1 DEF TracksInv
  <1> QED
    BY <1>2, <1>3, <1>4, <1>5 DEF Setup

LEMMA SetupKeepsGpu ==
  ASSUME TypeOK, GpuInv, Setup
  PROVE  GpuInv' /\ GpuTypeOK'
  <1>0. HeldAt /\ HeldInOrder /\ GpuTypeOK /\ capture' = capture
        /\ reason = "none"
    BY SetupLeaves DEF GpuInv, TypeOK, Stages, Reasons
  <1>1. CASE StartCapture
    <2>1. CASE UNCHANGED gpuVars
      <3>1. /\ pc = "start"
            /\ \/ pc' = "video" /\ reason' = reason
               \/ /\ pc' = "exited" /\ reason' = "start"
                  /\ capture \notin CudaCaptures \/ gpuPc \in {"idle", "failed"}
               \/ pc' = pc /\ reason' = reason
        BY <1>1 DEF StartCapture, StartReturns
      <3>2. reason' = "start" => held \subseteq {"library"}
        BY <1>0, <3>1 DEF GpuInv, HeldAt
      <3> QED
        BY <1>0, <2>1, <3>1, <3>2, GpuStays DEF GpuInv, gpuVars, Early
    <2>2. CASE ~UNCHANGED gpuVars
      <3>1. /\ pc = "start" /\ capture \in CudaCaptures
            /\ StartStep(capture, opt.oc) /\ UNCHANGED <<pc, reason>>
        BY <1>1, <2>2 DEF StartCapture, StartReturns
      <3>2. HeldAt' /\ HeldInOrder' /\ GpuTypeOK'
        BY <1>0, <3>1, StartStepKeeps
      <3> QED
        BY <1>0, <3>1, <3>2 DEF GpuInv, Early
    <2> QED
      BY <2>1, <2>2
  <1>2. CASE StopCapture
    <2>1. CASE StopStep /\ UNCHANGED <<pc, scriptVars>>
      <3>1. pc = "stopping" /\ pc' = pc /\ reason' = reason
        BY <1>2, <2>1 DEF StopCapture
      <3>2. HeldAt' /\ HeldInOrder' /\ GpuTypeOK'
        BY <1>0, <2>1, StopStepKeeps
      <3> QED
        BY <1>0, <3>1, <3>2 DEF GpuInv, Early
    <2>2. CASE gpuPc = "stopped" /\ UNCHANGED gpuVars /\ pc' = "script"
      <3>1. reason' = reason
        BY <1>2 DEF StopCapture
      <3> QED
        BY <1>0, <2>2, <3>1, GpuStays DEF GpuInv, gpuVars, Early
    <2> QED
      BY <1>2, <2>1, <2>2 DEF StopCapture
  <1>3. CASE Finish
    <2>1. /\ pc = "script" /\ pc' = "exited" /\ reason' = "done" /\ UNCHANGED gpuVars
      BY <1>3 DEF Finish, parts
    <2>2. held = {}
      BY <2>1 DEF GpuInv, HeldAt
    <2> QED
      BY <1>0, <2>1, <2>2, GpuStays DEF GpuInv, gpuVars, Early
  <1>4. CASE AdaptToLivestream \/ OpenVideo \/ OpenTrack \/ TracksOpened
             \/ OpenOutput \/ SaveReplay \/ LeaveLoop
    <2>1. /\ UNCHANGED gpuVars
          /\ pc' # "script"
          /\ pc' = "start" => pc = "stream"
          /\ reason' # "start" /\ reason' # "done"
      BY <1>0, <1>4 DEF AdaptToLivestream, OpenVideo, OpenTrack, TracksOpened,
                        OpenOutput, SaveReplay, LeaveLoop, Exit, parts
    <2> QED
      BY <1>0, <2>1, GpuStays, SetupLeaves DEF GpuInv, gpuVars, Early
  <1> QED
    BY <1>1, <1>2, <1>3, <1>4 DEF Setup

LEMMA SetupKeepsInv ==
  ASSUME Inv, Setup
  PROVE  Inv'
  <1>1. CodecInv' /\ EncoderInv'
    BY SetupLeaves
    DEF Inv, CodecInv, EncoderInv, Settled, From, Early, Possible, Nvidia, Find
  <1>2. TracksInv' /\ GpuInv' /\ GpuTypeOK'
    BY SetupKeepsTracks, SetupKeepsGpu DEF Inv
  <1>3. ScriptTypeOK'
    <2>1. Call \/ UNCHANGED scriptVars
      BY DEF Setup, AdaptToLivestream, StartCapture, OpenVideo, OpenTrack,
             TracksOpened, OpenOutput, SaveReplay, LeaveLoop, StopCapture, Finish,
             Exit, parts
    <2> QED
      BY <2>1, ScriptKeepsTypes DEF Inv, TypeOK
  <1>4. TypeOK'
    BY <1>2, <1>3, SetupLeaves, SetupKeepsTracks DEF Inv, TypeOK, Reasons
  <1> QED
    BY <1>1, <1>2, <1>4 DEF Inv

LEMMA AsideKeepsInv ==
  ASSUME Inv, Aside \/ UNCHANGED vars
  PROVE  Inv'
  <1>1. /\ UNCHANGED <<opt, pc, codecs, framerate, capture, tracks, script, opened,
                       reason, gpuVars>>
        /\ ScriptStep \/ ChildExits \/ UNCHANGED scriptVars
    BY DEF Aside, RunScript, ChildFinishes, Others, vars, codecs
  <1>2. ScriptTypeOK'
    BY <1>1, ScriptKeepsTypes DEF Inv, TypeOK
  <1>3. HeldAt' /\ HeldInOrder' /\ GpuTypeOK'
    BY <1>1, GpuStays DEF Inv, GpuInv, TypeOK
  <1>4. TypeOK'
    BY <1>1, <1>2, <1>3 DEF Inv, TypeOK, codecs
  <1>5. CodecInv' /\ EncoderInv'
    BY <1>1
    DEF Inv, CodecInv, EncoderInv, Settled, From, Possible, Nvidia, codecs, Find
  <1>6. TracksInv'
    BY <1>1 DEF Inv, TracksInv, Livestream
  <1>7. GpuInv'
    BY <1>1, <1>3 DEF Inv, GpuInv, gpuVars
  <1> QED
    BY <1>4, <1>5, <1>6, <1>7 DEF Inv

-----------------------------------------------------------------------------
(* The invariant and the theorems *)

LEMMA InitIsInv == Init => Inv
  <1> SUFFICES ASSUME Init PROVE Inv
    OBVIOUS
  <1>1. opt \in OptionType /\ opt.k \in Codecs \cup {"auto"}
    BY OptionsAssumption DEF Init, OptionType
  <1>2. codec \in Codecs
    BY <1>1 DEF Init, Codecs, Families
  <1>3. settable \subseteq Offsets
    BY DEF Init
  <1>4. GpuTypeOK
    BY <1>3 DEF Init, GpuInit, GpuTypeOK, GpuPcs
  <1>5. ScriptTypeOK
    BY DEF Init, ScriptInit, ScriptTypeOK
  <1>6. opt.ac \in {"aac", "opus", "flac"} /\ opt.fm \in {"cfr", "vfr"}
        /\ opt.tracks \in 0..2 /\ opt.sc \in BOOLEAN
    BY <1>1 DEF OptionType
  <1>7. TypeOK
    BY <1>1, <1>2, <1>4, <1>5, <1>6 DEF Init, TypeOK, Stages, Reasons
  <1>8. HeldAt /\ HeldInOrder
    BY DEF Init, GpuInit, HeldAt, HeldInOrder
  <1>9. CodecInv /\ EncoderInv /\ TracksInv /\ GpuInv
    BY <1>8
    DEF Init, GpuInit, CodecInv, EncoderInv, TracksInv, GpuInv, From, Settled,
        Possible, Early
  <1> QED
    BY <1>7, <1>9 DEF Inv

LEMMA NextKeepsInv == Inv /\ [Next]_vars => Inv'
  <1> SUFFICES ASSUME Inv, [Next]_vars PROVE Inv'
    OBVIOUS
  <1>1. Rules \/ Setup \/ Aside \/ UNCHANGED vars
    BY DEF Next, Rules, Setup, Aside
  <1> QED
    BY <1>1, RulesKeepInv, SetupKeepsInv, AsideKeepsInv

LEMMA Invariance == Spec => []Inv
  BY InitIsInv, NextKeepsInv, PTL DEF Spec

-----------------------------------------------------------------------------
(* The rule about h264 in mkv *)

Mkv == ~Nvidia /\ opt.ext = "mkv"

(* h264 gets past the rule of ForceHevc only by SettleAuto and FallBack.       *)
MkvInv ==
  /\ pc \in {"arguments", "mkv"} =>
       asked = opt.k /\ codec = (IF opt.k = "auto" THEN "hevc" ELSE opt.k)
  /\ pc \in Early \ {"capture"} /\ Family(codec) = "av1" => codec = opt.k
  /\ pc \in {"audio_codec", "auto"} /\ Mkv => codec # "h264"
  /\ pc \in {"flv", "find", "fallback"} /\ Mkv /\ codec = "h264" =>
       opt.k = "auto" /\ (opt.vendor = "intel" \/ "hevc" \notin opt.supported)
  /\ From({"capture"}) => MkvRuleHolds

LEMMA NamesDiffer ==
  /\ Family("h264") = "h264" /\ Family("hevc") = "hevc"
  /\ \A c \in Codecs : Family(c) = "h264" <=> c = "h264"
  BY DEF Family, Codecs, Families

LEMMA InitIsMkv == Init => MkvInv
  <1> SUFFICES ASSUME Init PROVE MkvInv
    OBVIOUS
  <1>1. pc = "arguments" /\ asked = opt.k /\ ~Settled
        /\ codec = (IF opt.k = "auto" THEN "hevc" ELSE opt.k)
    BY DEF Init, Settled
  <1>2. Family(codec) = "av1" => codec = opt.k
    BY <1>1, NamesDiffer
  <1> QED
    BY <1>1, <1>2 DEF MkvInv, From

LEMMA RulesKeepMkv ==
  ASSUME Inv, MkvInv, Rules
  PROVE  MkvInv'
  <1>0. /\ ~Settled /\ opt' = opt /\ codec \in Codecs
        /\ (capture' # "none" => pc' = "stream" \/ capture' = capture)
        /\ Nvidia' <=> Nvidia
    BY RulesLeave DEF Inv, CodecInv, TypeOK, Settled, Early, Captures, Nvidia
  <1> USE DEF MkvInv, Mkv, MkvRuleHolds, From, Settled, Early
  <1>1. CASE CheckArguments
    <2>1. /\ UNCHANGED <<opt, codec, asked, capture>>
          /\ pc = "arguments" /\ pc' \in {"mkv", "exited"}
      BY <1>1 DEF CheckArguments, Exit, codecs, parts
    <2> QED
      BY <1>0, <2>1
  <1>2. CASE ForceHevc
    <2>1. /\ pc = "mkv" /\ pc' = "audio_codec" /\ UNCHANGED <<opt, capture>>
          /\ \/ codec' = "hevc"
             \/ UNCHANGED codec /\ ~(Mkv /\ asked = "h264")
      BY <1>2 DEF ForceHevc, parts
    <2>2. CASE codec' = "hevc"
      BY <1>0, <2>1, <2>2, NamesDiffer
    <2>3. CASE UNCHANGED codec /\ ~(Mkv /\ asked = "h264")
      BY <1>0, <2>1, <2>3
    <2> QED
      BY <2>1, <2>2, <2>3
  <1>3. CASE SettleAudioCodec
    <2>1. UNCHANGED <<opt, codec, capture>> /\ pc = "audio_codec" /\ pc' = "auto"
      BY <1>3 DEF SettleAudioCodec, parts
    <2> QED
      BY <1>0, <2>1
  <1>4. CASE SettleAuto
    <2>1. /\ UNCHANGED <<opt, capture>> /\ pc = "auto" /\ pc' = "flv"
          /\ codec' = IF asked = "auto"
                        THEN IF Find(Preferred) # "none" THEN Preferred ELSE Other
                        ELSE codec
      BY <1>4 DEF SettleAuto, parts
    <2>2. CASE asked # "auto"
      BY <1>0, <2>1, <2>2
    <2>3. CASE asked = "auto"
      <3>1. opt.k = "auto" /\ codec' \in {"h264", "hevc"}
        BY <2>1, <2>3 DEF Inv, CodecInv, Preferred, Other
      <3>2. codec' = "h264" => opt.vendor = "intel" \/ "hevc" \notin opt.supported
        <4>1. CASE opt.vendor = "intel"
          BY <4>1
        <4>2. CASE opt.vendor # "intel"
          <5>1. Preferred = "hevc" /\ "hevc" \in Families
            BY <4>2 DEF Preferred, Families
          <5> QED
            BY <2>1, <2>3, <5>1, FindType DEF Inv
        <4> QED
          BY <4>1, <4>2
      <3>3. Family(codec') # "av1"
        BY <3>1, NamesDiffer
      <3> QED
        BY <1>0, <2>1, <3>1, <3>2, <3>3
    <2> QED
      BY <2>2, <2>3
  <1>5. CASE ForceH264
    <2>1. /\ UNCHANGED <<opt, capture>> /\ pc = "flv" /\ pc' = "find"
          /\ codec' = IF opt.ext = "flv" THEN "h264" ELSE codec
      BY <1>5 DEF ForceH264, parts
    <2> QED
      BY <1>0, <2>1, NamesDiffer
  <1>6. CASE FindEncoder
    <2>1. UNCHANGED <<opt, codec, capture>> /\ pc = "find" /\ pc' = "fallback"
      BY <1>6 DEF FindEncoder, parts
    <2> QED
      BY <1>0, <2>1
  <1>7. CASE FallBack
    <2>1. /\ UNCHANGED <<opt, capture>>
          /\ pc = "fallback" /\ pc' \in {"exited", "capture"}
          /\ \/ encoder = "none" /\ codec' = Substitute(codec)
             \/ UNCHANGED codec
      BY <1>7 DEF FallBack, parts
    <2>2. CASE UNCHANGED codec
      BY <1>0, <2>1, <2>2
    <2>3. CASE encoder = "none" /\ codec' = Substitute(codec)
      <3>1. Family(codec) \in Families /\ Family(codec) \notin opt.supported
        BY <1>0, <2>1, <2>3, FamilyType, FindType DEF Inv, CodecInv
      <3>2. CASE Family(codec) = "av1"
        BY <1>0, <2>1, <2>3, <3>1, <3>2
      <3>3. CASE Family(codec) = "hevc"
        BY <1>0, <2>1, <2>3, <3>1, <3>3
      <3>4. CASE Family(codec) = "h264"
        BY <1>0, <2>1, <2>3, <3>4 DEF Substitute
      <3> QED
        BY <3>1, <3>2, <3>3, <3>4 DEF Families
    <2> QED
      BY <2>1, <2>2, <2>3
  <1>8. CASE CreateCapture
    <2>1. /\ UNCHANGED <<opt, codec>>
          /\ pc = "capture" /\ pc' \in {"stream", "exited"}
      BY <1>8 DEF CreateCapture, Exit, codecs, parts
    <2> QED
      BY <1>0, <2>1
  <1> QED
    BY <1>1, <1>2, <1>3, <1>4, <1>5, <1>6, <1>7, <1>8 DEF Rules

LEMMA MkvPreserved ==
  ASSUME Inv, MkvInv, [Next]_vars
  PROVE  MkvInv'
  <1>1. Rules \/ Setup \/ Aside \/ UNCHANGED vars
    BY DEF Next, Rules, Setup, Aside
  <1>2. CASE Setup
    <2>1. UNCHANGED <<opt, codec, capture>> /\ pc' \notin Early /\ pc \notin Early
      BY <1>2, SetupLeaves DEF codecs, Early
    <2> QED
      BY <2>1 DEF MkvInv, Mkv, MkvRuleHolds, From, Settled, Early, Nvidia
  <1>3. CASE Aside \/ UNCHANGED vars
    <2>1. UNCHANGED <<opt, pc, codec, asked, capture>>
      BY <1>3 DEF Aside, RunScript, ChildFinishes, Others, vars, codecs
    <2> QED
      BY <2>1 DEF MkvInv, Mkv, MkvRuleHolds, From, Settled, Nvidia
  <1> QED
    BY <1>1, <1>2, <1>3, RulesKeepMkv

LEMMA MkvInvariance == Spec => []MkvInv
  BY InitIsMkv, MkvPreserved, Invariance, PTL DEF Spec

(* The variables keep their types. *)
THEOREM StartupTypeCorrect == Spec => []TypeOK
  <1>1. Inv => TypeOK
    BY DEF Inv
  <1> QED
    BY <1>1, Invariance, PTL

(* Whatever is asked for and whatever the GPU can do: what is recorded can be *)
(* encoded, an flv has h264 and an mkv on AMD and Intel has it only without an *)
(* encoder for hevc, by the choice of auto on Intel or in place of av1; the    *)
(* audio fits too, and a live stream can be played.                          *)
THEOREM WhatIsRecordedFits == Spec => []RecordingFits
  <1>1. Inv /\ MkvInv => RecordingFits
    BY DEF Inv, MkvInv, TypeOK, CodecInv, TracksInv, From, RecordingFits, VideoFits,
           AudioFits, LivestreamIsPlayable
  <1> QED
    BY <1>1, Invariance, MkvInvariance, PTL

(* An encoder that there is gets found, and a request that nothing forbids is *)
(* honoured.                                                                *)
THEOREM EncoderGetsFound == Spec => []EncoderIsFound
  <1>1. Inv => EncoderIsFound
    BY DEF Inv, EncoderInv, EncoderIsFound, RequestIsHonoured, H264IsAlwaysEnough,
           Possible
  <1> QED
    BY <1>1, Invariance, PTL

(* Whichever step of the capture's start is refused: nothing is held without  *)
(* what it needs, and in the end nothing is held.                           *)
THEOREM GpuIsRestored == Spec => []EndRestoresGpu
  <1>1. Inv => EndRestoresGpu
    BY DEF Inv, GpuInv, EndRestoresGpu
  <1> QED
    BY <1>1, Invariance, PTL

-----------------------------------------------------------------------------
(* The script *)

(* The recorder waits exactly as long as its child has not been waited for,   *)
(* and only what may have a script has called one, when it may.              *)
ScriptInv ==
  /\ child = "none" <=> scriptPc # "wait"
  /\ scriptPc # "none" \/ scripts =>
       /\ ~Livestream
       /\ ~opt.r => pc \in {"script", "exited"} /\ held = {}

(* The steps that do not touch the script: once it has been called for a      *)
(* recording, main has only the end to go to.                               *)
LEMMA ScriptLeft ==
  ASSUME Inv, ScriptInv, UNCHANGED <<opt, scriptVars>>,
         \/ pc \notin {"script", "exited"}
         \/ UNCHANGED <<pc, gpuVars>>
         \/ pc' = "exited" /\ UNCHANGED gpuVars
  PROVE  ScriptInv'
  <1>1. Livestream' <=> Livestream
    BY DEF Livestream
  <1> QED
    BY <1>1 DEF ScriptInv, scriptVars, gpuVars

LEMMA ScriptCalled ==
  ASSUME Inv, ScriptInv, Call, opt' = opt, script,
         pc \in {"recording", "stopping"},
         ~opt.r => pc' = "script" /\ held' = {}
  PROVE  ScriptInv'
  <1>1. ~Livestream'
    BY DEF Inv, TracksInv, Livestream
  <1> QED
    BY <1>1 DEF ScriptInv, Call

LEMMA ScriptProcesses ==
  ASSUME Inv, ScriptInv, ScriptStep \/ ChildExits,
         UNCHANGED <<opt, pc, gpuVars>>
  PROVE  ScriptInv'
  <1>1. Livestream' <=> Livestream
    BY DEF Livestream
  <1>2. CASE Fork
    BY <1>1, <1>2 DEF Fork, ScriptInv, gpuVars
  <1>3. CASE ForkAgain
    BY <1>1, <1>3 DEF ForkAgain, ScriptInv, gpuVars
  <1>4. CASE Waited
    BY <1>1, <1>4 DEF Waited, ScriptInv, gpuVars
  <1>5. CASE ChildExits
    BY <1>1, <1>5 DEF ChildExits, ScriptInv, gpuVars
  <1> QED
    BY <1>2, <1>3, <1>4, <1>5 DEF ScriptStep

LEMMA NextKeepsScript == Inv /\ ScriptInv /\ [Next]_vars => ScriptInv'
  <1> SUFFICES ASSUME Inv, ScriptInv, [Next]_vars PROVE ScriptInv'
    OBVIOUS
  <1>1. CASE Rules
    <2>1. pc \in Early /\ UNCHANGED <<opt, scriptVars>>
      BY <1>1, RulesLeave
    <2> QED
      BY <2>1, ScriptLeft DEF Early
  <1>2. CASE StopCapture
    <2>1. pc = "stopping" /\ opt' = opt
      BY <1>2 DEF StopCapture, Others
    <2>2. CASE UNCHANGED scriptVars
      BY <2>1, <2>2, ScriptLeft
    <2>3. CASE ~UNCHANGED scriptVars
      <3>1. /\ gpuPc = "stopped" /\ UNCHANGED gpuVars
            /\ pc' = "script" /\ script /\ Call
        BY <1>2, <2>3 DEF StopCapture
      <3>2. held' = {}
        BY <3>1 DEF Inv, GpuInv, HeldAt, gpuVars
      <3> QED
        BY <2>1, <3>1, <3>2, ScriptCalled
    <2> QED
      BY <2>2, <2>3
  <1>3. CASE SaveReplay
    BY <1>3, ScriptCalled DEF SaveReplay, Others
  <1>4. CASE Finish
    BY <1>4, ScriptLeft DEF Finish, parts
  <1>5. CASE AdaptToLivestream \/ StartCapture \/ OpenVideo \/ OpenTrack
             \/ TracksOpened \/ OpenOutput \/ LeaveLoop
    <2>1. pc \notin {"script", "exited"} /\ UNCHANGED <<opt, scriptVars>>
      BY <1>5 DEF AdaptToLivestream, StartCapture, OpenVideo, OpenTrack,
                  TracksOpened, OpenOutput, LeaveLoop, Exit, Others, parts
    <2> QED
      BY <2>1, ScriptLeft
  <1>6. CASE Aside
    BY <1>6, ScriptProcesses DEF Aside, RunScript, ChildFinishes, Others
  <1>7. CASE UNCHANGED vars
    BY <1>7, ScriptLeft DEF vars
  <1> QED
    BY <1>1, <1>2, <1>3, <1>4, <1>5, <1>6, <1>7 DEF Next, Rules, Aside

(* The safety half of ScriptRunsAside: the child that could not start the     *)
(* script records only while its parent waits for it, so there are never two *)
(* recorders; a recording's script runs after the file is finished and the   *)
(* GPU given back, and a live stream has none.                              *)
THEOREM OneRecorderAtATime == Spec => []RecorderIsAlone
  <1>1. Init => ScriptInv
    BY DEF Init, ScriptInit, ScriptInv
  <1>2. ScriptInv => RecorderIsAlone
    BY DEF ScriptInv, RecorderIsAlone
  <1> QED
    BY <1>1, <1>2, NextKeepsScript, Invariance, PTL DEF Spec
=============================================================================
