-------------------------- MODULE SoundDeviceProofs --------------------------
(***************************************************************************)
(* Proofs about SoundDevice, for chunks, fragments and timeouts of any size: *)
(* type correctness, that no sample is lost, and that the chunks returned    *)
(* are the stream of samples.                                               *)
(***************************************************************************)
EXTENDS SoundDevice, TLAPS

(* Samples in the chunks returned. *)
Base == chunks * Length

(* The fragment, when there is one, begins with the sample that follows the  *)
(* ones already copied.                                                     *)
FragmentFollows ==
  IF read_data
    THEN read_length > 0 /\ first + read_index = Base + output_index + 1
    ELSE read_length = 0 /\ read_index = 0

(* The buffer holds the first samples of the next chunk. *)
BufferFollows ==
  \A i \in 0..Length - 1 : i < output_index => output[i] = Base + i + 1

Inv ==
  /\ TypeOK
  /\ FragmentFollows
  /\ NothingIsLost
  /\ BufferFollows
  /\ ChunksAreTheStream
  /\ result = "chunk" => pc = "idle" /\ chunks > 0

LEMMA Distributes == \A c, l \in Nat : (c + 1) * l = c * l + l /\ c * l \in Nat
  OBVIOUS

LEMMA BaseNat == TypeOK => Base \in Nat
  BY SoundAssumption, Distributes DEF TypeOK, Base

LEMMA InitInv == Init => Inv
  <1> SUFFICES ASSUME Init PROVE Inv
    OBVIOUS
  <1>1. TypeOK
    <2>1. output \in [0..Length - 1 -> Nat]
      BY DEF Init
    <2>2. /\ elapsed \in 0..Timeout /\ peeked \in 0..MaxSamples
          /\ output_index \in 0..Length - 1
      BY SoundAssumption DEF Init
    <2> QED BY <2>1, <2>2 DEF Init, TypeOK
  <1>2. Base = 0
    BY SoundAssumption DEF Init, Base
  <1>3. FragmentFollows
    BY DEF Init, FragmentFollows
  <1>4. NothingIsLost
    BY SoundAssumption DEF Init, NothingIsLost
  <1>5. BufferFollows
    BY SoundAssumption DEF Init, BufferFollows
  <1>6. ChunksAreTheStream /\ (result = "chunk" => pc = "idle" /\ chunks > 0)
    BY DEF Init, ChunksAreTheStream
  <1> QED BY <1>1, <1>3, <1>4, <1>5, <1>6 DEF Inv

(* Steps that leave fragment, buffer and chunks alone. *)
LEMMA OtherStepsKeepInv ==
  ASSUME Inv, UNCHANGED <<peeked, fragment, buffer, chunks>>, TypeOK',
         result' # "chunk" \/ (result' = result /\ pc' = pc)
  PROVE  Inv'
  <1>1. FragmentFollows'
    BY DEF Inv, FragmentFollows, Base, fragment, buffer
  <1>2. NothingIsLost'
    BY DEF Inv, NothingIsLost, fragment, buffer
  <1>3. BufferFollows'
    BY DEF Inv, BufferFollows, Base, buffer
  <1>4. ChunksAreTheStream' /\ (result' = "chunk" => pc' = "idle" /\ chunks' > 0)
    BY DEF Inv, ChunksAreTheStream, buffer
  <1> QED BY <1>1, <1>2, <1>3, <1>4 DEF Inv

LEMMA PollFragmentKeepsInv ==
  ASSUME Inv, NEW n \in 1..MaxFragment, PollFragment(n)
  PROVE  Inv'
  <1>1. n \in Nat /\ n > 0
    BY SoundAssumption
  <1>2. TypeOK'
    BY <1>1, SoundAssumption DEF Inv, TypeOK, PollFragment, buffer, Polling
  <1>3. Base' = Base /\ Base \in Nat
    BY BaseNat DEF Inv, PollFragment, Base
  <1>4. read_length = 0 /\ read_index = 0 /\ peeked = Base + output_index
    BY <1>3 DEF Inv, PollFragment, Polling, FragmentFollows, NothingIsLost, Base,
           TypeOK
  <1>5. FragmentFollows'
    BY <1>1, <1>3, <1>4 DEF Inv, PollFragment, FragmentFollows, TypeOK, buffer
  <1>6. NothingIsLost'
    BY <1>1, <1>3, <1>4 DEF Inv, PollFragment, NothingIsLost, Base, TypeOK, buffer
  <1>7. BufferFollows'
    BY <1>3 DEF Inv, PollFragment, BufferFollows, buffer
  <1>8. ChunksAreTheStream' /\ (result' = "chunk" => pc' = "idle" /\ chunks' > 0)
    BY DEF Inv, PollFragment, Polling, ChunksAreTheStream, buffer
  <1> QED BY <1>2, <1>5, <1>6, <1>7, <1>8 DEF Inv

(* What a copy of n samples into the buffer puts there. *)
LEMMA CopyFollows ==
  ASSUME Inv, read_data, NEW n \in Nat, n <= Length - output_index
  PROVE  /\ Copied(n) \in [0..Length - 1 -> Nat]
         /\ \A i \in 0..Length - 1 :
              i < output_index + n => Copied(n)[i] = Base + i + 1
  <1>1. Base \in Nat /\ output_index \in Nat /\ Length \in Nat
    BY BaseNat, SoundAssumption DEF Inv, TypeOK
  <1>2. first + read_index = Base + output_index + 1
    BY DEF Inv, FragmentFollows
  <1>3. ASSUME NEW i \in 0..Length - 1
        PROVE  /\ Copied(n)[i] \in Nat
               /\ i < output_index + n => Copied(n)[i] = Base + i + 1
    <2>1. CASE i \in output_index..output_index + n - 1
      <3>1. Copied(n)[i] = first + read_index + (i - output_index)
        BY <2>1 DEF Copied
      <3>2. Copied(n)[i] = Base + i + 1
        BY <1>1, <1>2, <3>1 DEF Inv, TypeOK
      <3> QED BY <1>1, <3>2
    <2>2. CASE i \notin output_index..output_index + n - 1
      <3>1. Copied(n)[i] = output[i]
        BY <2>2 DEF Copied
      <3>2. i < output_index + n => i < output_index
        BY <1>1, <2>2
      <3>3. output[i] \in Nat
        BY DEF Inv, TypeOK
      <3> QED BY <3>1, <3>2, <3>3 DEF Inv, BufferFollows
    <2> QED BY <2>1, <2>2
  <1>4. Copied(n) = [i \in 0..Length - 1 |-> Copied(n)[i]]
    BY DEF Copied
  <1> QED BY <1>3, <1>4

(* A chunk is returned: the buffer is full, and the next chunk starts empty. *)
LEMMA ReturnKeepsInv ==
  ASSUME Inv, ReturnChunk, TypeOK',
         \A i \in 0..Length - 1 : output'[i] = Base + i + 1
  PROVE  /\ Base' = Base + Length
         /\ BufferFollows'
         /\ ChunksAreTheStream'
         /\ result' = "chunk" => pc' = "idle" /\ chunks' > 0
  <1>1. chunks \in Nat /\ Length \in Nat /\ Base \in Nat
    BY SoundAssumption, BaseNat DEF Inv, TypeOK
  <1>2. Base' = Base + Length
    BY <1>1, Distributes DEF ReturnChunk, Base
  <1>3. BufferFollows'
    BY DEF ReturnChunk, BufferFollows
  <1>4. (chunks' - 1) * Length = Base
    <2>1. chunks' - 1 = chunks
      BY <1>1 DEF ReturnChunk
    <2> QED BY <2>1 DEF Base
  <1>5. ChunksAreTheStream'
    BY <1>4 DEF ChunksAreTheStream
  <1>6. pc' = "idle" /\ chunks' > 0
    BY <1>1 DEF ReturnChunk
  <1> QED BY <1>2, <1>3, <1>5, <1>6

LEMMA CopyPartKeepsInv ==
  ASSUME Inv, CopyPart
  PROVE  Inv'
  <1>1. /\ Length \in Nat /\ output_index \in Nat /\ output_index < Length
        /\ read_index \in Nat /\ read_length \in Nat /\ first \in Nat
        /\ Base \in Nat /\ space_free < read_length
    BY SoundAssumption, BaseNat DEF Inv, TypeOK, CopyPart
  <1>2. space_free \in Nat /\ space_free <= Length - output_index
        /\ output_index + space_free = Length
    BY <1>1 DEF space_free
  <1>3. /\ output' \in [0..Length - 1 -> Nat]
        /\ \A i \in 0..Length - 1 : output'[i] = Base + i + 1
    <2>1. read_data /\ output' = Copied(space_free)
      BY DEF CopyPart, Copying
    <2>2. \A i \in 0..Length - 1 : i < output_index + space_free
      BY <1>1, <1>2
    <2> QED BY <1>2, <2>1, <2>2, CopyFollows
  <1>4. /\ read_index' = read_index + space_free
        /\ read_length' = read_length - space_free
        /\ output_index' = 0 /\ chunks' = chunks + 1
        /\ pc' = "idle" /\ result' = "chunk"
        /\ UNCHANGED <<elapsed, lost, peeked, read_data, first>>
    BY DEF CopyPart, ReturnChunk
  <1>5. TypeOK'
    <2>1. read_index' \in Nat /\ read_length' \in Nat /\ chunks' \in Nat
      BY <1>1, <1>2, <1>4 DEF Inv, TypeOK
    <2>2. output_index' \in 0..Length - 1
      BY <1>4, SoundAssumption
    <2> QED BY <1>3, <1>4, <2>1, <2>2 DEF Inv, TypeOK
  <1>6. /\ Base' = Base + Length /\ BufferFollows' /\ ChunksAreTheStream'
        /\ result' = "chunk" => pc' = "idle" /\ chunks' > 0
    BY <1>3, <1>5, ReturnKeepsInv DEF CopyPart
  <1>7. FragmentFollows'
    <2>1. read_data /\ first + read_index = Base + output_index + 1
      BY DEF Inv, FragmentFollows, CopyPart, Copying
    <2> QED BY <1>1, <1>2, <1>4, <1>6, <2>1 DEF FragmentFollows
  <1>8. NothingIsLost'
    <2>1. peeked = Base + output_index + read_length
      BY DEF Inv, NothingIsLost, Base
    <2>2. peeked' = Base' + output_index' + read_length'
      BY <1>1, <1>2, <1>4, <1>6, <2>1
    <2> QED BY <2>2 DEF NothingIsLost, Base
  <1> QED BY <1>5, <1>6, <1>7, <1>8 DEF Inv

LEMMA CopyAllKeepsInv ==
  ASSUME Inv, CopyAll
  PROVE  Inv'
  <1>1. /\ Length \in Nat /\ output_index \in Nat /\ output_index < Length
        /\ read_length \in Nat /\ Base \in Nat
        /\ output_index + read_length <= Length
    BY SoundAssumption, BaseNat DEF Inv, TypeOK, CopyAll, space_free
  <1>2. /\ output' \in [0..Length - 1 -> Nat]
        /\ \A i \in 0..Length - 1 :
             i < output_index + read_length => output'[i] = Base + i + 1
    <2>1. read_data /\ output' = Copied(read_length)
      BY DEF CopyAll, Copying
    <2>2. read_length <= Length - output_index
      BY <1>1
    <2> QED BY <1>1, <2>1, <2>2, CopyFollows
  <1>3. /\ ~read_data' /\ read_length' = 0 /\ read_index' = 0
        /\ UNCHANGED <<elapsed, lost, peeked, first>>
    BY DEF CopyAll
  <1>4. FragmentFollows'
    BY <1>3 DEF FragmentFollows
  <1>5. peeked = Base + output_index + read_length
    BY DEF Inv, NothingIsLost, Base
  <1>6. CASE output_index + read_length = Length
    <2>1. ReturnChunk
      BY <1>6 DEF CopyAll
    <2>2. TypeOK'
      <3>1. output_index' \in 0..Length - 1 /\ chunks' \in Nat
        BY <2>1, SoundAssumption DEF ReturnChunk, Inv, TypeOK
      <3>2. read_data' = FALSE
        BY DEF CopyAll
      <3> QED BY <1>2, <1>3, <2>1, <3>1, <3>2 DEF Inv, TypeOK, ReturnChunk
    <2>3. \A i \in 0..Length - 1 : output'[i] = Base + i + 1
      BY <1>1, <1>2, <1>6
    <2>4. /\ Base' = Base + Length /\ BufferFollows' /\ ChunksAreTheStream'
          /\ result' = "chunk" => pc' = "idle" /\ chunks' > 0
      BY <2>1, <2>2, <2>3, ReturnKeepsInv
    <2>5. NothingIsLost'
      <3>1. peeked' = Base' + output_index' + read_length'
        BY <1>1, <1>3, <1>5, <1>6, <2>1, <2>4 DEF ReturnChunk
      <3> QED BY <3>1 DEF NothingIsLost, Base
    <2> QED BY <1>4, <2>2, <2>4, <2>5 DEF Inv
  <1>7. CASE output_index + read_length # Length
    <2>1. /\ output_index' = output_index + read_length
          /\ UNCHANGED <<pc, result, chunks>>
      BY <1>7 DEF CopyAll
    <2>2. TypeOK'
      <3>1. output_index' \in 0..Length - 1
        BY <1>1, <1>7, <2>1
      <3>2. read_data' = FALSE
        BY DEF CopyAll
      <3> QED BY <1>2, <1>3, <2>1, <3>1, <3>2 DEF Inv, TypeOK
    <2>3. Base' = Base
      BY <2>1 DEF Base
    <2>4. BufferFollows'
      BY <1>1, <1>2, <2>1, <2>3 DEF BufferFollows
    <2>5. NothingIsLost'
      <3>1. peeked' = Base' + output_index' + read_length'
        BY <1>1, <1>3, <1>5, <2>1, <2>3
      <3> QED BY <3>1 DEF NothingIsLost, Base
    <2>6. pc' = "loop" /\ result' # "chunk"
      BY <2>1 DEF CopyAll, Copying, Inv
    <2> QED BY <1>4, <2>2, <2>4, <2>5, <2>6 DEF Inv, ChunksAreTheStream
  <1> QED BY <1>6, <1>7

LEMMA NextInv == Inv /\ [Next]_vars => Inv'
  <1> SUFFICES ASSUME Inv, [Next]_vars PROVE Inv'
    OBVIOUS
  <1>t. TypeOK /\ Timeout \in Nat \ {0}
    BY SoundAssumption DEF Inv
  <1>1. CASE Call
    <2>1. TypeOK'
      BY <1>1, <1>t DEF Call, Fail, TypeOK, fragment, buffer
    <2>2. result' # "chunk" /\ UNCHANGED <<peeked, fragment, buffer, chunks>>
      BY <1>1 DEF Call, Fail
    <2> QED BY <2>1, <2>2, OtherStepsKeepInv
  <1>2. CASE Tick \/ PollNothing
    <2>1. TypeOK'
      BY <1>2, <1>t DEF Tick, PollNothing, Polling, TypeOK, fragment, buffer
    <2>2. /\ result' = result /\ pc' = pc
          /\ UNCHANGED <<peeked, fragment, buffer, chunks>>
      BY <1>2 DEF Tick, PollNothing
    <2> QED BY <2>1, <2>2, OtherStepsKeepInv
  <1>3. CASE GiveUp \/ PollLost
    <2>1. TypeOK'
      BY <1>3, <1>t DEF GiveUp, PollLost, Fail, TypeOK, fragment, buffer
    <2>2. result' # "chunk" /\ UNCHANGED <<peeked, fragment, buffer, chunks>>
      BY <1>3 DEF GiveUp, PollLost, Fail
    <2> QED BY <2>1, <2>2, OtherStepsKeepInv
  <1>4. CASE \E n \in 1..MaxFragment : PollFragment(n)
    BY <1>4, PollFragmentKeepsInv
  <1>5. CASE CopyPart
    BY <1>5, CopyPartKeepsInv
  <1>6. CASE CopyAll
    BY <1>6, CopyAllKeepsInv
  <1>7. CASE UNCHANGED vars
    <2>1. TypeOK'
      BY <1>7, <1>t DEF vars, TypeOK, fragment, buffer
    <2>2. /\ result' = result /\ pc' = pc
          /\ UNCHANGED <<peeked, fragment, buffer, chunks>>
      BY <1>7 DEF vars, fragment, buffer
    <2> QED BY <2>1, <2>2, OtherStepsKeepInv
  <1> QED BY <1>1, <1>2, <1>3, <1>4, <1>5, <1>6, <1>7 DEF Next, Loop

(* The variables have their types: in particular the buffer's index stays    *)
(* inside the buffer.                                                       *)
THEOREM SoundTypeCorrect == Spec => []TypeOK
  <1>1. Inv => TypeOK
    BY DEF Inv
  <1> QED BY <1>1, InitInv, NextInv, PTL DEF Spec

(* Every chunk returned holds exactly the samples that follow the chunk      *)
(* before it, and no sample is lost or counted twice between the device and  *)
(* the chunks.                                                              *)
THEOREM StreamIsRead == Spec => []ReadsTheStream
  <1>1. Inv => ReadsTheStream
    BY DEF Inv, ReadsTheStream
  <1> QED BY <1>1, InitInv, NextInv, PTL DEF Spec

=============================================================================
