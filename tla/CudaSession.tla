----------------------------- MODULE CudaSession -----------------------------
(***************************************************************************)
(* What a capture on an NVIDIA GPU takes and gives back: the CUDA context,   *)
(* the offset of the memory transfer rate, the NvFBC session, FFmpeg's       *)
(* contexts and the texture (src/src/capture/nvfbc.c, xcomposite_cuda.c,     *)
(* kms_cuda.c, src/src/cuda.c, overclock.c).  One step takes or releases one *)
(* thing; any of them may be refused, and then all of them are released.     *)
(***************************************************************************)
EXTENDS Naturals, Sequences

CONSTANT Levels   \* performance levels of the GPU

VARIABLES
  gpuPc,     \* what the capture does next
  held,      \* what it holds
  settable,  \* the offsets this machine lets the program set, all along
  offsets,   \* the offsets: as found, raised or zero
  known      \* num_performance_levels: the levels gsr_overclock_start found

gpuVars == <<gpuPc, held, settable, offsets, known>>

(* One offset for all levels (newer GPUs), and one for each *)
Offsets == {"all"} \cup Levels

CudaCaptures == {"nvfbc", "xcomposite_cuda", "kms_cuda"}

Resources == {"context", "xnvctrl", "library", "handle", "session", "texture",
              "contexts", "graphics"}

(* What is of no use, or dangling, without something else.  That the encoder *)
(* also uses the context, until the process has ended, is left out.          *)
Needs(r) ==
  CASE r = "session"  -> {"handle", "context"}
    [] r = "handle"   -> {"library"}
    [] r = "contexts" -> {"context"}
    [] r = "graphics" -> {"context", "texture"}
    [] OTHER          -> {}

GpuPcs == {"idle", "texture", "cuda", "overclock", "library", "handle",
           "session", "setup", "contexts", "graphics", "started",
           "cleanup", "failed", "stopping", "stopped"}

GpuTypeOK ==
  /\ gpuPc \in GpuPcs
  /\ held \subseteq Resources
  /\ settable \subseteq Offsets /\ known \subseteq Levels
  /\ offsets \in [Offsets -> {"found", "raised", "zero"}]

GpuInit ==
  /\ gpuPc = "idle" /\ held = {} /\ known = {}
  /\ offsets = [o \in Offsets |-> "found"]

(* Takes r and goes on with next, or is refused it. *)
Acquire(at, r, next) ==
  /\ gpuPc = at
  /\ \/ held' = held \cup r /\ gpuPc' = next
     \/ gpuPc' = "cleanup" /\ UNCHANGED held
  /\ UNCHANGED <<settable, offsets, known>>

-----------------------------------------------------------------------------
(* start *)

BeginStart(method) ==
  /\ gpuPc = "idle"
  /\ gpuPc' = IF method = "xcomposite_cuda" THEN "texture" ELSE "cuda"
  /\ UNCHANGED <<held, settable, offsets, known>>

TargetTexture == Acquire("texture", {"texture"}, "cuda")

AfterCuda(method) == IF method = "nvfbc" THEN "library" ELSE "contexts"

(* gsr_cuda_load.  kms_cuda does not overclock. *)
CudaLoad(method, do_overclock) ==
  Acquire("cuda", {"context"},
          IF do_overclock /\ method # "kms_cuda" THEN "overclock"
                                                 ELSE AfterCuda(method))

(* xnvctrl_set_attribute_offset: whether one could be set is ignored *)
SetOffsets(levels, value) ==
  offsets' = [o \in Offsets |-> IF o \in settable \cap ({"all"} \cup levels)
                                  THEN value ELSE offsets[o]]

(* gsr_overclock_load and gsr_overclock_start: a failure is only a warning, and *)
(* the library stays loaded if it is the start that fails.                   *)
Overclock(method) ==
  /\ gpuPc = "overclock"
  /\ \/ UNCHANGED <<held, offsets, known>>
     \/ held' = held \cup {"xnvctrl"} /\ UNCHANGED <<offsets, known>>
     \/ /\ held' = held \cup {"xnvctrl"}
        /\ known' = Levels
        /\ SetOffsets(Levels, "raised")
  /\ gpuPc' = AfterCuda(method)
  /\ UNCHANGED settable

LoadNvfbc == Acquire("library", {"library"}, "handle")

(* nvFBCCreateHandle, tried twice *)
CreateHandle == Acquire("handle", {"handle"}, "session")

(* nvFBCGetStatus, the monitor to capture, nvFBCCreateCaptureSession *)
CreateCaptureSession == Acquire("session", {"session"}, "setup")

(* nvFBCToCudaSetUp *)
ToCudaSetUp == Acquire("setup", {}, "contexts")

(* FFmpeg's device and frames contexts *)
CreateContexts(method) ==
  Acquire("contexts", {"contexts"},
          IF method = "xcomposite_cuda" THEN "graphics" ELSE "started")

(* cuda_register_opengl_texture *)
RegisterTexture == Acquire("graphics", {"graphics"}, "started")

-----------------------------------------------------------------------------
(* The end *)

(* mutation: CUDA is unloaded first *)
OrderCudaFirst ==
  <<"graphics", "texture", "xnvctrl", "context", "session", "handle", "contexts">>

(* The order of stop, error_cleanup and destroy with gsr_cuda_unload at its end *)
Order == <<"graphics", "texture", "session", "handle", "contexts", "xnvctrl",
           "context">>

IsNext(i) == Order[i] \in held /\ \A j \in 1..(i - 1) : Order[j] \notin held

(* One thing is released; xnvctrl after the offsets have been set to 0. *)
Release ==
  /\ gpuPc \in {"cleanup", "stopping"}
  /\ \E i \in DOMAIN Order :
       /\ IsNext(i)
       /\ held' = held \ {Order[i]}
       /\ IF Order[i] = "xnvctrl" THEN SetOffsets(known, "zero")
                                  ELSE UNCHANGED offsets
  /\ UNCHANGED <<gpuPc, settable, known>>

(* The library of NvFBC stays loaded after a start that fails. *)
Released ==
  /\ gpuPc \in {"cleanup", "stopping"} /\ held \subseteq {"library"}
  /\ \/ gpuPc = "cleanup" /\ gpuPc' = "failed" /\ UNCHANGED held
     \/ gpuPc = "stopping" /\ gpuPc' = "stopped" /\ held' = {}
  /\ UNCHANGED <<settable, offsets, known>>

(* destroy *)
BeginStop ==
  /\ gpuPc \in {"idle", "started"}
  /\ gpuPc' = "stopping"
  /\ UNCHANGED <<held, settable, offsets, known>>

\* A step of gsr_capture_start, of gsr_capture_destroy
StartStep(method, do_overclock) ==
  \/ BeginStart(method) \/ TargetTexture \/ CudaLoad(method, do_overclock)
  \/ Overclock(method) \/ LoadNvfbc \/ CreateHandle \/ CreateCaptureSession
  \/ ToCudaSetUp \/ CreateContexts(method) \/ RegisterTexture
  \/ gpuPc = "cleanup" /\ (Release \/ Released)

StopStep == BeginStop \/ (gpuPc = "stopping" /\ (Release \/ Released))

-----------------------------------------------------------------------------
(* Nothing is held without what it needs, and an offset that has been raised *)
(* can still be reset.                                                       *)
HeldInOrder ==
  /\ \A r \in held : Needs(r) \subseteq held
  /\ (\E o \in Offsets : offsets[o] = "raised") => "xnvctrl" \in held
=============================================================================
