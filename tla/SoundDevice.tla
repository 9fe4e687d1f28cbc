----------------------------- MODULE SoundDevice -----------------------------
(***************************************************************************)
(* Reading an audio device (src/src/sound.cpp): PulseAudio hands over        *)
(* fragments of any size, with holes, and pa_sound_device_read turns them    *)
(* into chunks of exactly output_length, giving up when a chunk takes        *)
(* longer than the time it lasts.  What a call that gives up has read, and   *)
(* the part of a fragment that did not fit, is kept for the next call.       *)
(*                                                                         *)
(* The samples of the device are numbered 1, 2, ... in the order PulseAudio  *)
(* hands them over; a hole has no samples.                                  *)
(***************************************************************************)
EXTENDS Naturals

CONSTANTS
  Length,       \* output_length, in samples
  MaxFragment,  \* bound: samples in one fragment
  Timeout,      \* timeout_ms
  MaxSamples    \* bound: samples the device produces

ASSUME SoundAssumption ==
  /\ Length \in Nat \ {0}
  /\ MaxFragment \in Nat
  /\ Timeout \in Nat \ {0}
  /\ MaxSamples \in Nat

VARIABLES
  pc,           \* "idle" between calls, "loop" at the head of the while loop
  elapsed,      \* milliseconds since the call began
  lost,         \* the connection to PulseAudio has broken down
  peeked,       \* samples handed over so far
  read_data,    \* a fragment is being read
  first,        \* its first sample
  read_index,   \* samples already copied from it
  read_length,  \* samples still to be copied from it
  output,       \* output_data
  output_index, \* samples copied to output_data
  chunks,       \* chunks returned so far
  result        \* what the last call returned

vars == <<pc, elapsed, lost, peeked, read_data, first, read_index, read_length,
          output, output_index, chunks, result>>

fragment == <<read_data, first, read_index, read_length>>
buffer   == <<output, output_index>>

TypeOK ==
  /\ pc \in {"idle", "loop"}
  /\ elapsed \in 0..Timeout
  /\ lost \in BOOLEAN /\ read_data \in BOOLEAN
  /\ peeked \in 0..MaxSamples
  /\ first \in Nat /\ read_index \in Nat /\ read_length \in Nat
  /\ output \in [0..Length - 1 -> Nat]
  /\ output_index \in 0..Length - 1
  /\ chunks \in Nat
  /\ result \in {"none", "chunk", "failed"}

-----------------------------------------------------------------------------
Fail == pc' = "idle" /\ result' = "failed"

(* The call begins: CHECK_DEAD_GOTO, and the loop's condition *)
Call ==
  /\ pc = "idle"
  /\ IF lost
       THEN Fail /\ UNCHANGED elapsed
       ELSE pc' = "loop" /\ elapsed' = 0 /\ result' = "none"
  /\ UNCHANGED <<lost, peeked, fragment, buffer, chunks>>

(* The clock goes on *)
Tick ==
  /\ pc = "loop" /\ elapsed < Timeout
  /\ elapsed' = elapsed + 1
  /\ UNCHANGED <<pc, lost, peeked, fragment, buffer, chunks, result>>

(* mutation: the loop goes on when the time has passed *)
GiveUpNever == pc = "loop" /\ elapsed >= Timeout /\ UNCHANGED vars

(* The time of a chunk has passed without the chunk: return -1 *)
GiveUp ==
  /\ pc = "loop" /\ elapsed >= Timeout
  /\ Fail
  /\ UNCHANGED <<elapsed, lost, peeked, fragment, buffer, chunks>>

Polling == pc = "loop" /\ elapsed < Timeout /\ ~read_data

(* The main loop of PulseAudio runs for a millisecond and pa_stream_peek     *)
(* finds nothing, a hole, or a fragment without samples; the last two are    *)
(* dropped.                                                                 *)
PollNothing ==
  /\ Polling
  /\ elapsed' = elapsed + 1
  /\ UNCHANGED <<pc, lost, peeked, fragment, buffer, chunks, result>>

(* ... finds the connection gone *)
PollLost ==
  /\ Polling
  /\ lost' = TRUE
  /\ Fail
  /\ UNCHANGED <<elapsed, peeked, fragment, buffer, chunks>>

(* ... finds a fragment of n samples *)
PollFragment(n) ==
  /\ Polling
  /\ peeked + n <= MaxSamples
  /\ peeked' = peeked + n
  /\ read_data' = TRUE
  /\ first' = peeked + 1
  /\ read_length' = n
  /\ UNCHANGED <<pc, elapsed, lost, read_index, buffer, chunks, result>>

space_free == Length - output_index

(* memcpy of n samples from the fragment to the output buffer *)
Copied(n) ==
  [i \in 0..Length - 1 |->
     IF i \in output_index..output_index + n - 1
       THEN first + read_index + (i - output_index)
       ELSE output[i]]

Copying == pc = "loop" /\ elapsed < Timeout /\ read_data

ReturnChunk ==
  /\ pc' = "idle"
  /\ result' = "chunk"
  /\ chunks' = chunks + 1
  /\ output_index' = 0

(* mutation: the next call reads the fragment from its beginning again *)
CopyPartFromStart ==
  /\ Copying /\ space_free < read_length
  /\ output' = Copied(space_free)
  /\ ReturnChunk
  /\ read_length' = read_length - space_free
  /\ UNCHANGED <<elapsed, lost, peeked, read_data, first, read_index>>

(* The fragment holds more than fits: fill the chunk, keep the rest *)
CopyPart ==
  /\ Copying /\ space_free < read_length
  /\ output' = Copied(space_free)
  /\ ReturnChunk
  /\ read_index' = read_index + space_free
  /\ read_length' = read_length - space_free
  /\ UNCHANGED <<elapsed, lost, peeked, read_data, first>>

(* mutation: a full buffer is only noticed when a fragment does not fit *)
CopyAllAndGoOn ==
  /\ Copying /\ space_free >= read_length
  /\ output' = Copied(read_length)
  /\ read_data' = FALSE
  /\ read_length' = 0
  /\ read_index' = 0
  /\ output_index' = output_index + read_length
  /\ UNCHANGED <<pc, result, chunks, elapsed, lost, peeked, first>>

(* The fragment is copied whole and dropped; the chunk may be full *)
CopyAll ==
  /\ Copying /\ space_free >= read_length
  /\ output' = Copied(read_length)
  /\ read_data' = FALSE
  /\ read_length' = 0
  /\ read_index' = 0
  /\ IF output_index + read_length = Length
       THEN ReturnChunk
       ELSE /\ output_index' = output_index + read_length
            /\ UNCHANGED <<pc, result, chunks>>
  /\ UNCHANGED <<elapsed, lost, peeked, first>>

-----------------------------------------------------------------------------
Init ==
  /\ pc = "idle"
  /\ elapsed = 0
  /\ lost = FALSE
  /\ peeked = 0
  /\ read_data = FALSE
  /\ first = 0 /\ read_index = 0 /\ read_length = 0
  /\ output = [i \in 0..Length - 1 |-> 0]
  /\ output_index = 0
  /\ chunks = 0
  /\ result = "none"

Loop ==
  \/ GiveUp \/ PollNothing \/ PollLost
  \/ (\E n \in 1..MaxFragment : PollFragment(n))
  \/ CopyPart \/ CopyAll

Next == Call \/ Tick \/ Loop

Spec == Init /\ [][Next]_vars

(* The clock goes on, and the thread runs. *)
FairSpec == Spec /\ WF_vars(Tick) /\ WF_vars(Loop)

-----------------------------------------------------------------------------
(* Properties *)

(* A chunk that is returned holds the samples that follow those of the chunk *)
(* before: none lost, none twice, across calls that gave up, fragments that  *)
(* were split and fragments that were joined.                               *)
ChunksAreTheStream ==
  pc = "idle" /\ result = "chunk" =>
    \A i \in 0..Length - 1 : output[i] = (chunks - 1) * Length + i + 1

(* Every sample handed over is in a returned chunk, in the output buffer or  *)
(* in the fragment being read.                                              *)
NothingIsLost == peeked = chunks * Length + output_index + read_length

(* Both: what the recorder reads is what PulseAudio has handed over.          *)
ReadsTheStream == ChunksAreTheStream /\ NothingIsLost

(* A read returns, whatever the device does (sound.cpp:156: "or if ... data  *)
(* is not available within the time frame").                                *)
ReadReturns == pc = "loop" ~> pc = "idle"

=============================================================================
