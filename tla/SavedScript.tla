----------------------------- MODULE SavedScript -----------------------------
(***************************************************************************)
(* Starting the user's script for a saved recording                         *)
(* (run_recording_saved_script_async, src/src/main.cpp:970-1007).  The       *)
(* recorder forks, the child forks again and ends, so that the script is     *)
(* nobody's child; the recorder waits for the first child.  When the second  *)
(* fork fails the first child returns from the function and goes on as       *)
(* another recorder, without the threads of the first.                      *)
(***************************************************************************)
EXTENDS Naturals

VARIABLES
  scriptPc,  \* where the recorder is in the function, if it is
  child,     \* what the first child does
  scripts    \* a script has been started

scriptVars == <<scriptPc, child, scripts>>

ScriptTypeOK ==
  /\ scriptPc \in {"none", "fork", "wait"}
  /\ child \in {"none", "forked", "recorder", "ended"}
  /\ scripts \in BOOLEAN

ScriptInit == scriptPc = "none" /\ child = "none" /\ scripts = FALSE

Call ==
  /\ scriptPc = "none"
  /\ scriptPc' = "fork"
  /\ UNCHANGED <<child, scripts>>

(* mutation: the recorder does not wait *)
ForkAndGoOn ==
  /\ scriptPc = "fork"
  /\ scriptPc' = "none"
  /\ child' \in {child, "forked"}
  /\ UNCHANGED scripts

Fork ==
  /\ scriptPc = "fork"
  /\ \/ scriptPc' = "wait" /\ child' = "forked"
     \/ scriptPc' = "none" /\ UNCHANGED child
  /\ UNCHANGED scripts

(* The child becomes its own session and forks. *)
ForkAgain ==
  /\ child = "forked"
  /\ \/ child' = "ended" /\ scripts' = TRUE
     \/ child' = "recorder" /\ UNCHANGED scripts
  /\ UNCHANGED scriptPc

ChildExits ==
  /\ child = "recorder"
  /\ child' = "ended"
  /\ UNCHANGED <<scriptPc, scripts>>

(* waitpid, which a signal does not end: signal() restarts it *)
Waited ==
  /\ scriptPc = "wait" /\ child = "ended"
  /\ scriptPc' = "none" /\ child' = "none"
  /\ UNCHANGED scripts

ScriptStep == Fork \/ ForkAgain \/ Waited
=============================================================================
