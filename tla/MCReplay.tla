------------------------------ MODULE MCReplay ------------------------------
(* Small instances of Replay: the values are given by the .cfg files.      *)
EXTENDS Replay
=============================================================================
