------------------------------ MODULE MCStartup ------------------------------
(* The command lines and machines TLC goes through. *)
EXTENDS Startup

Base ==
  [k |-> "auto", ac |-> "opus", c |-> TRUE, o |-> "file", r |-> FALSE,
   s |-> FALSE, w |-> "monitor", fm |-> "vfr", oc |-> FALSE, sc |-> TRUE,
   tracks |-> 1, amix |-> FALSE, ext |-> "mkv", vendor |-> "amd",
   wayland |-> FALSE, supported |-> Families]

(* Every codec option, container, vendor and set of encoders *)
CodecOptions ==
  {[Base EXCEPT !.k = k, !.ac = ac, !.ext = ext, !.vendor = v,
                !.supported = sup, !.amix = amix] :
     k \in Codecs \cup {"auto"}, ac \in {"aac", "opus", "flac"},
     ext \in {"mp4", "mkv", "flv", "ts"}, v \in {"nvidia", "amd", "intel"},
     sup \in SUBSET Families, amix \in BOOLEAN}

(* Every way to name source and output, on X11 and Wayland *)
SetupOptions ==
  {[Base EXCEPT !.c = c, !.o = o, !.r = r, !.s = s, !.w = w, !.fm = fm,
                !.oc = oc, !.sc = sc, !.tracks = t, !.vendor = v,
                !.wayland = wl, !.ext = ext] :
     c \in BOOLEAN, o \in {"none", "file", "stream"}, r \in BOOLEAN,
     s \in BOOLEAN, w \in {"monitor", "window", "focused"},
     fm \in {"cfr", "vfr"}, oc \in BOOLEAN, sc \in BOOLEAN, t \in {0, 2},
     v \in {"nvidia", "amd"}, wl \in BOOLEAN, ext \in {"mkv", "unknown"}}

MCOptions == CodecOptions \cup SetupOptions
=============================================================================
