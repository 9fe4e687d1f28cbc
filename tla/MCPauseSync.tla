----------------------------- MODULE MCPauseSync -----------------------------
(* The frame rate mode concerns the main thread only, the device the audio    *)
(* thread only: two setups show each of the four cases.                      *)
EXTENDS PauseSync

MCSetups == {<<TRUE, TRUE>>, <<FALSE, FALSE>>}

MCNoDevice == {<<FALSE, FALSE>>}

=============================================================================
