---------------------------- MODULE ReplayWindow ----------------------------
(***************************************************************************)
(* What the replay buffer promises its user: a window over the stream of   *)
(* recorded packets (numbered 1, 2, ...) that slides forward, and saves    *)
(* that each write one gap-free part of it, ending with the newest packet  *)
(* at the time of the save.  A file the disk fails to take promises no     *)
(* packet, but its save ends like any other.                               *)
(***************************************************************************)
EXTENDS Integers

CONSTANT DiskCanFail  \* whether writing a file may fail

VARIABLES
  newest,       \* the number of the newest packet recorded
  dropped,      \* the packets 1..dropped are gone from the buffer
  last,         \* the newest packet of the save in flight; 0 when there is none
  first,        \* the first packet of its file; 0 when there is no good file
  written       \* how many packets are in the good file

vars == <<newest, dropped, last, first, written>>

Init ==
  /\ newest = 0
  /\ dropped = 0
  /\ first = 0
  /\ last = 0
  /\ written = 0

\* A packet is recorded; once the buffer is full another one goes for it.
Record ==
  /\ newest' = newest + 1
  /\ \/ dropped = 0 /\ dropped' = 0
     \/ dropped' = dropped + 1
  /\ UNCHANGED <<first, last, written>>

\* A save takes the end of the buffer, from some packet still in it.
Save ==
  /\ last = 0
  /\ first' \in (dropped + 1)..newest
  /\ last' = newest
  /\ written' = 0
  /\ UNCHANGED <<newest, dropped>>

Write ==
  /\ first # 0
  /\ first + written <= last
  /\ written' = written + 1
  /\ UNCHANGED <<newest, dropped, first, last>>

\* The disk fails: what is in the file does not count any more.
Fail ==
  /\ DiskCanFail
  /\ first # 0
  /\ first' = 0
  /\ written' = 0
  /\ UNCHANGED <<newest, dropped, last>>

\* The save is announced when all of it is written, or the disk has failed.
Announce ==
  /\ last # 0
  /\ first = 0 \/ first + written = last + 1
  /\ first' = 0
  /\ last' = 0
  /\ written' = 0
  /\ UNCHANGED <<newest, dropped>>

Next == Record \/ Save \/ Write \/ Fail \/ Announce

Spec == Init /\ [][Next]_vars
=============================================================================
