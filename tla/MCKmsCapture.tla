----------------------------- MODULE MCKmsCapture -----------------------------
(* Two monitors with a screen and a cursor plane each, the second the larger. *)
EXTENDS KmsCapture

MCPlanes ==
  LET plane(c, cursor, size) == [crtc |-> c, cursor |-> cursor, size |-> size]
  IN  <<plane("crtc1", TRUE, 1), plane("crtc1", FALSE, 2),
        plane("crtc2", FALSE, 3), plane("crtc2", TRUE, 1)>>

=============================================================================
