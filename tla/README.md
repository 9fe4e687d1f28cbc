# gpu-screen-recorder: models and proofs

TLA+ models of gpu-screen-recorder, the TLC configurations that check them on
small instances, and theorems about them checked by TLAPS. Line numbers refer to
the sources beside this directory; `main.cpp` is `src/main.cpp`, `sound.cpp` is
`src/sound.cpp`, `kms_client.c` is `kms/client/kms_client.c` and `kms_server.c`
is `kms/server/kms_server.c`. `PROJECT.json` maps every definition to the lines it
models.

    tlc -config KmsConnection.cfg KmsProtocol.tla     # one run
    tlapm ReplayProofs.tla                            # one module of proofs

## The system

gpu-screen-recorder records a monitor or a window on Linux. One process captures
and encodes video in its main thread and has one thread per audio device. A
second, privileged process, gsr-kms-server, reads the planes of the screen from
the kernel. A third kind, a user's script, is started when a recording is saved.

| Component | State | Operations | Interacts by | Correct when |
|---|---|---|---|---|
| Main loop (`main.cpp` 2455-2584) | `running`, `paused`, `toggle_pause`, `save_replay`, frame times and pts | capture and encode the due frame, drain the mixed audio, serve a pause, publish and start saves, leave | signals set flags; audio threads share the queue and the pause times | time never goes back; a request toggles the pause once, a save asked for is made; it ends when told to |
| Replay buffer (128-201, 1065-1195) | `frame_data_queue`, `frames_erased`, `save_replay_packets`, the future of the save | push and drop, snapshot, write, publish | `write_output_mutex`; the save thread reads its copy without it | a file is a gap-free window that starts with a key frame; memory is bounded |
| Pause and clock (2271-2550) | `paused`, `paused_time_offset`, `paused_time_start` | stamp, flip; read by the audio threads | plain variables, no lock | recorded time excludes pauses, for video and audio alike |
| Audio threads (2311-2444) | `received_audio_time`, the frame's pts | read, fill a gap with silence, encode | push to the queue; `running`, `paused` | a gap is filled once, and for no longer than it lasted |
| Argument and codec resolution (1609-2169) | the settled codec, container, capture | one rule after another | - | what is recorded can be encoded and fits the container |
| Setup and end (2157-2309, 2574-2629) | what has been set up | open capture, encoders, tracks, output; tear down | every step may `_exit` | an orderly end undoes what was done |
| KMS client (`kms_client.c`) | the socketpair, the listening socket, the server's pid | init, replace connection, get_kms, deinit | messages with descriptors over Unix sockets, fork and exec, kill | every request is answered or the end of the server is noticed |
| KMS server (`kms_server.c`) | `socket_fd`, the card, the map of CRTCs to connectors, the response being filled | connect, receive, read the planes, answer, end | the same; descriptors of framebuffers travel with a response | it ends after its client; it keeps no framebuffer open |
| KMS capture (`capture/kms_vaapi.c`, `kms_cuda.c`) | `kms_response` and its descriptors, `monitor_id`, the encoder's surface, should_stop | start, tick, capture, capture_end, stop | asks the KMS client once per frame; shares the descriptor table with every other thread | every descriptor received is closed once, nobody else's is; the picture is the monitor's |
| X11 window capture (`capture/xcomposite_*.c`, `window_texture.c`) | window size, pixmap and texture, resize timer | start, tick, capture, stop | X events | the texture belongs to a live pixmap |
| NvFBC capture (`capture/nvfbc.c`) | session and capture handles | start, capture, stop | NvFBC library | sessions are released on every failure |
| Sound device (`sound.cpp`) | fragment, its offset, the output buffer | read the next chunk | PulseAudio's main loop | chunks are the stream, without loss |
| CUDA, overclocking (`cuda.c`, `overclock.c`, `xnvctrl.c`) | the offset set on the GPU | load, unload | XNVCtrl | the offset is reset |
| Saved-recording script (970-1007) | processes | double fork, exec, wait | fork | the recorder goes on alone |
| Monitor enumeration (`utils.c`), EGL, shaders, colour conversion, library loading | none after start | - | - | - |

What is hard here: the main thread, audio threads and a save thread share the
queue; signal handlers set plain flags that the loop tests and resets; the pause
variables are read without a lock, one after the other; two processes find each
other over a socket file, then hold both ends of one socketpair, and either may
be killed; PulseAudio hands over fragments that fit no chunk; rules that settle
the codec undo each other; each setup step may end the program. `PROJECT.json`
lists these hazards one by one at their lines.

## Modules

### Replay, ReplayWindow, MCReplay, ReplayProofs, ReplaySaveProofs

`Replay` has one process per thread. The main thread's program counter `mainPc`
follows the loop: `head` (`while(running)`, the capture's should_stop), `drain` (mixed
tracks), `video` (the due frame), `publish` (lines 2552-2560), `request` (2562-2564,
where the arguments of `save_replay_async` are evaluated), `snapshot` (1074-1117, under
`write_output_mutex`), and after the loop `stopping`, `joining`, `exited`. An audio
thread is `head`, `encode` or `done`. The save thread is `saverPc`: `open`, `header`,
`write`, `done`; `"invalid"` is a future that is not valid. `receive_frames` is one
action because all of it is under the mutex. `frames_erased` is read at 2564
*before* the lock is taken and is passed by value; `erasedArg` holds it across the
gap. What is abstracted: an encoder gives one packet at a time and the packets are
records of stream, key flag and pts; the encode loops give any number of them;
`clock` is the monotonic clock minus `paused_time_offset`; a push in flight when a
pause ends is ignored; the file is the sequence of packets written.

`ReplayWindow` is what this promises: a window that slides over the recorded
packets, saves that each take the end of it at one instant and write all of it
before they are announced, unless the disk fails: then the save still ends, but no packet
of its file is promised. It knows no queue, thread or lock. `ImplementsWindow` checks
the refinement: the newest number is `produced`, what is dropped is recovered from the
queue's length, and the first packet of the file, while it is good, from the save
thread's progress.

### PauseSync, MCPauseSync, PauseSyncProofs

SIGUSR2, the main loop's frame and pause steps (2488-2550) and one audio thread
(2337-2438). The unit of time is a tick; a frame of video lasts `VideoTicks` and a frame of
audio `AudioTicks`, so that `Rounded`, which is `std::round`, has something to round both
in the main loop (2505) and in the audio thread (2363). Shared variables are read and written
in steps of their own where another thread can come between: the main thread encodes a frame and tests the flag
(`MainFrame`; it is the only one that writes `paused`), notes the beginning or adds the
length of the pause (`MainStamp`), resets the flag (`MainClear`) and flips `paused` (`MainFlip`);
the audio thread gets something from its device and takes the time, from the clock and the offset
(`ReadDevice`, 2344), and then reads `paused` and fills or encodes (`ReadPaused`, 2346-2438).
The clock and the offset are read as one: an offset that grew in between would only make the time, and so
the silence, less.

A read of the device may return at any time, also at once, with a frame that had been waiting or without one
after the timeout: data may come in bursts, also late and on top of the
silence that has replaced it. A thread without a device sleeps `SleepTicks`, of which
`SleepAssumption` says that it is at least half a frame: it is 21 ms, and a frame of opus 20 ms and of AAC 21.3 ms. `constantRate`
and `handle` are chosen at the start from `Setups`.

History, which no step reads, says what is compared: `recorded` counts the ticks outside of
pauses, `accepted` and `flips` the requests and what became of them, `readAt` and `soundAt` the clock at
the turn of the audio thread and at its last one with data or silence.

What the properties do not promise, because the code does not:

* Data that comes late is encoded behind the silence that was put in its place, so the audio
  can be ahead of the clock by what was late, for good. `GapsAreFilledOnce` is about each gap:
  its silence is no longer than it.
* The part of a frame that rounding leaves over at a gap is dropped with it, and a device that is not
  connected gets at least a frame per turn, which is 0.3 ms more than it slept with the AAC codec.
  Both add up over a recording. With flac, whose frames are several times longer than the sleep, a track without a device
  gets several times the silence it should: for it `SleepAssumption` does not hold, and a
  track of flac is covered with a device only.
* Data that is thrown away in a pause sets `received_audio_time` to a time that does not stand
  still during the pause while the recorded time does; a gap right
  after the pause is filled later than it should be. The properties bound silence from above only.
* A SIGUSR2 that comes while the flag is set, up to its reset at 2548, is lost.

### KmsProtocol, KmsProtocolProofs

Client and server as two programs, with the kernel's part of the connection: which
process holds which descriptor (`cfds`, `sfds`) decides whether a `recvmsg` returns 0,
messages are queued at an end and carry descriptors, closing an end that nobody else
holds destroys what is unread. The server starts directly, and then inherits every
descriptor of the client (nothing is close-on-exec), or through pkexec, which closes them
and gives a server that the client cannot kill. `same` says whether both programs speak
the same protocol version. `ServerDies`, `ClientExits` and `Interrupt` are enabled at
any time; SIGINT typed at a terminal reaches the server as well. Five seconds of
connecting are abstracted to "no client listens". pkexec is a server that is at its `"prompt"`:
the user may answer it, refuse it or never look at it. Each step before the server runs may fail
(`ClientSetupFails`), and so may accept. A script that was started for a saved replay has inherited what
the client had open (`kfds`) and may run for as long as it likes. The flatpak proxy is not modelled.

### KmsCapture, MCKmsCapture, KmsCaptureProofs

What travels over that connection. `ServerFindsPlane` and `ServerSkipsPlane` are
`kms_get_fb` plane by plane, with at most `GSR_KMS_MAX_PLANES` in a response; the map
from CRTCs to connectors, `c2crtc`, is made once, when the server starts, while the screen
(`Modeset`, `CursorMoves`) changes at any time, also between two planes. The client is the
capture of `kms_vaapi.c` and `kms_cuda.c`, which share this code: `StartServer`,
`ListConnectors` and `FindMonitor` (start: the monitors are read twice), `Tick` and
`TickFails`, `CaptureBegins`, `CaptureReceives`, `CaptureEnds`, `Stop`. `table` is the
client's table of descriptors, in which `OtherOpens` and `OtherCloses` are the threads
that write files and read audio: `recvmsg` installs as many framebuffers as there is room
for, at the lowest free numbers. Without any room, `recv_msg_from_server` has `close_fds`
close the numbers the server has written into the response, which mean other files in the
client; `closedOurs` remembers that. An entry carries as history (`of`) whose
picture it is. Abstracted: pixels, positions, rotation, HDR, the copy to CUDA;
`is_combined_plane`, which the server never sets; the result and the error text, which the
capture only prints. Without `DRM_CLIENT_CAP_ATOMIC` the program finds no monitor, so
this branch of the server is left out. No monitor is mirrored, and a plane keeps its
CRTC. The server always answers: how the connection fails is in `KmsProtocol`.

### SoundDevice, SoundDeviceProofs

`pa_sound_device_read` (168-222) with the state that outlives a call: the fragment
PulseAudio has given and how much of it has been copied, and the output buffer and how
full it is. Samples are numbers; a read ends with a chunk, by giving up after the
timeout, or with a lost connection.

### WindowCapture, WindowCaptureProofs

Recording a window on X11: the two captures `xcomposite_vaapi.c` and
`xcomposite_cuda.c`, which share nearly all of their steps (`variant` says which one it is),
and `window_texture.c`. The X server is half of the module: windows that are resized,
unmapped, mapped, destroyed and focused between any two steps of the program (`Screen`),
and the events it sends of those the program has selected. The program's steps are its
round trips to the server: `StartAttributes`, `StartTexture` (the selection of events and
the texture), `StartGpu`; in a tick `HandleEvent` for each event, `EventsRead`, `ReadFocus`,
`MakeTexture` for a new window, `ResizeTexture` after the second of quiet, `CreateFrame`; then
`Capture` or `Stop`. `live` holds the names of the textures there are, so that a name deleted by
a failed `window_texture_on_resize` and kept in `texture_id` can be given out again.
`current` is history: the texture is of the pixmap the window has now. So is `gaveUp`: the last try to make it
failed although the window was viewable, which it may do at each of the three steps that have a result of
their own in `window_texture_on_resize` - the name, the image, the binding of the image to the
texture (70-99). `window_resized` is cleared before the try (xcomposite_vaapi.c:285), so nothing
repeats it until the window changes again. Abstracted: pixels, positions, the size of the video; the X
server sends a program's events in the order of the changes; the Composite extension is there, as
the program has checked before. Left out are changes that give a window
another pixmap without any event the program selects, such as a window manager that reparents it: `src/TODO` (2, 35)
reports that a workspace switch can break the recording of a window. The model has the
unmapping and mapping of such a switch, after which the texture is made again on the Expose event,
and it has the failure of that one try, which does leave the recording with the old picture (`gaveUp`).

### CudaSession, SavedScript, Startup, MCStartup, StartupProofs

`Startup` is `main` from the options to the recording and its end as a chain of stages, in
the order of the code: each rule that settles codec, audio codec and capture method, each
step of the setup with its `_exit`, the end. FFmpeg and the GPU are a set of encoders that
open and steps that succeed or fail. The options are those that interact. The rule that an mkv has no h264 on AMD and
Intel is applied once (1981) and undone by later ones in three cases, which `MkvRuleHolds` names: the GPU has no encoder for hevc,
"auto" on an Intel machine settles on h264 (2020-2029), or av1 was asked for and is missing. Two modules are
composed into it:

* `CudaSession` is what the three captures for NVIDIA GPUs take one by one while `StartCapture` is
  at work, and give back when a step fails or the recording ends: context, NvFBC
  library, handle and session, FFmpeg's contexts, textures registered with CUDA, and the
  offset of the memory's transfer rate for each performance level (`offsets`, of which
  the machine lets the program set those in `settable`).
* `SavedScript` is the double fork of `run_recording_saved_script_async`: the recorder
  (`scriptPc`), its first child (`child`) and whether the script has started. Either fork may
  fail. It is called by a replay while it records (`SaveReplay`) and by a recording after the end of
  the capture (`StopCapture`).

## Runs

Passing runs; `CHECK_DEADLOCK FALSE` stands where the programs end or the clock is
bounded, so that a state without a successor is expected.

| Run | What is asked | Bounds and why they are enough |
|---|---|---|
| `ReplaySafety` | One producing thread (video and a mixed track): a file starts at a key frame and its timestamps are valid | 5 packets, one save: several drops before, between and after the snapshot, key frames at any place |
| `ReplayThreads` | An audio thread between any two steps of main, a disk that fails anywhere, two requests: window, bounded memory, a snapshot nobody touches, its announcement, the refinement of the window, and the liveness of requests, saves and the end | 3 packets: the queue is full and drops from two threads; 2 signals: one falls into a save |
| `Pause` | Video time is monotone and is the recorded time, at a constant rate and a variable one; no gap of the audio is filled twice or for too long, with a device and without; a request toggles once | 2 signals: a pause and its end, or one that falls on the other; frames of 3 and 2 ticks, so that times fall between frames and on halves; a clock of 11 has room for a gap of the 5 frames from which it is filled, before, after and across a pause |
| `KmsConnection` | Everything about the connection, with all faults on, a prompt that may stay unanswered and scripts that keep descriptors | 3 frames: the state repeats after one |
| `KmsFrames` | Descriptors, the choice of the picture and the end of a frame, with cursors, one modeset, unreadable planes, other threads and failures of start and tick | two monitors with a cursor plane each, two planes in a response: any two of four compete for the room; three descriptors: none, one or both framebuffers fit beside what is open; two frames: one begins where another ended |
| `SoundReads` | Chunks are the stream; a read returns | fragments shorter than, equal to and longer than a chunk, 16 samples: five chunks |
| `WindowCapture` | The textures, the reasons a recording ends, that the capture catches up with the screen, and that it ends with its window | two windows of two sizes, both captures, one window and the focused one; three changes of the screen at any time: a resize there and back and one other, or a window that goes while another is focused; three names of textures, as many as are ever used at once |
| `Startup` | Settling of codecs, setup with its failures, what the GPU is left with, the processes of the script | every codec, audio codec, container, vendor and set of encoders; every combination of the options that interact; one performance level beside the offset of all; any number of saved replays |

Runs that find a disagreement with what the program says of itself (PROJECT.json
`findings`):

* `ReplayStaleErased`: `frames_erased` is read before the lock. If an audio thread drops the
  first packet in between, the file starts where it cannot be decoded.
* `PauseStaleOffset`: the audio thread reads the offset before and `paused` after
  the end of a pause and fills the whole pause with silence.
* `KmsServerDies`: the client holds the server's end of the socketpair itself. A server that
  dies while the client waits for a response is not noticed.
* `KmsFallback`: a modeset that gives the monitor another CRTC, while it is on, makes the capture
  fall back to the largest plane of any monitor, for good, because the server's map is
  made only once. The comment in the code expects that of a disconnected monitor only.

Disagreements seen while modelling for which there is no run of its own:

* A server of another protocol version drops the request (kms_server.c:498), and
  `gsr_kms_client_replace_connection` waits for ever; so does a client whose server was
  killed by the Ctrl+C that should stop it. Both are `Stuck` in `KmsProtocol`, and the
  liveness properties say that it is the only wait that does not end.
* A server started directly holds the client's end and survives a client that
  does not call `gsr_kms_client_deinit`: `ServerFollowsClient`, a part of `ProgramsEnd`, leaves
  out this one case.
* With the same stale map another monitor's picture, on the CRTC that was the target's, is
  taken for the target's. `PictureIsTheTargets` holds until the target's first modeset,
  and has that as a condition.
* A monitor that lights up between the two looks of `start` (kms_vaapi.c:152, 154) is found by the
  second and unknown to the first: the capture falls back for good.
* When cursors are shown on two monitors the first in the response is looked at, and if it is not
  the target's none is drawn (kms_vaapi.c:501-507).
* A client without a free descriptor closes numbers that are not its own (kms_client.c:108).
  `OthersKeepTheirs` has `~closedOurs` as a condition.
* A save whose file could not be opened or written is announced, and given to the script,
  as a good one (main.cpp:1133, 2552). `AnnouncedFileIsWritten`, a part of `SavesAreWhole`,
  has `fileOk` as a condition for it.
* The buffer drops one packet for each one pushed, so packets older than the buffer stay
  when the rate falls, against "only the last seconds" (main.cpp:835).
* A SIGUSR2 between the test (2538) and the reset (2548) of the flag is lost. `RequestsToggleOnce`
  is about the requests that found the flag clear.
* h264 in mkv on AMD and Intel is replaced only if it was asked for (1981), not if
  "auto" or the fallback settles on it later, against the usage text (841). `MkvRuleHolds`, a
  part of `RecordingFits`, names the three cases.
* The loop that waits for the server (kms_client.c:273-305) looks neither at the clock nor at `running`:
  while the password prompt of pkexec is open, SIGINT does not end the program, against the usage text
  (874). `StopEndsClient` and `InitReturns` leave out an unanswered prompt.
* A script that outlives a recorder keeps the recorder's end of the connection, and with it the
  server; `ServerFollowsClient` leaves out the time it runs.
* A setup step that fails after the capture has started leaves the GPU overclocked
  (798): `EndRestoresGpu` is about orderly ends and failed starts only.
* The end of a recording sets the offset of every level it has found to 0, also one that the user had
  set before and one that it could not raise itself (overclock.c); a start of NvFBC that
  fails leaves its library loaded.
* The CUDA context is destroyed before the encoder that uses it (main.cpp:2618 leaves
  the encoder to the end of the process).
* NvFBC's failure to take a frame is returned by the capture and ignored by main, which encodes
  the last frame again.
* When the second fork of the script fails, the first child returns into `main`
  (main.cpp:996) as a recorder without threads. The recorder waits for it: after a
  recording only until the child has ended too, in a replay until the child is told to stop, and
  for ever if there are audio threads to join. `ScriptReturns`, a part of
  `ScriptRunsAside`, leaves out the replay.
* When the first tick of `xcomposite_vaapi` finds no pixmap - it follows the focus and no focused
  window has one, or the window has been unmapped since start - the first frame is drawn with a
  colour conversion that is not initialized (xcomposite_vaapi.c:289; the two lines that would end the
  recording are commented out). `EndsForAReason` says that this can only
  happen before the first texture.
* Following the focus, start of `xcomposite_vaapi` uses the attributes of `params.window`, which is None, uninitialized if the
  call fails (130-139); its comment says that this belongs in tick. Nothing but the first
  size of the video depends on it, and tick reads the size again.
* A window resized after start has read its size and before it has selected its events is not seen to
  be resized back: `CatchesUp` leaves out this window (`missed`).
* A texture that could not be made is not tried again before the window's next event. A window that was not viewable
  is exposed when it is mapped; for one that was, the old picture stays, which
  `CatchesUp` leaves out (`gaveUp`).
* The usage text says of SIGINT both that it stops and saves the recording (874) and,
  for replays, that it stops without saving (836); the code does the second.

### Fairness

`Replay`: weak fairness of the main thread, the save thread and each audio thread: the
kernel schedules threads that can run. Signals, time and the capture's wish to stop
are never forced. `PauseSync`: of the main loop, which does not block. `KmsProtocol`: of
both programs as long as they can go on; that a frame is due, that a signal comes, that
a process dies, that the user answers the prompt or that a script ends is not assumed. `KmsCapture`: of the server while it reads planes, and of the
capture while it waits and while it ends a frame; the screen, the other threads and the beginning of
a frame are not forced. `SoundDevice`: of the reading loop and of the clock,
which passes; PulseAudio need not give anything. `WindowCapture`: of the program, whose main
thread does not block here, and of the second after a resize; the screen may stay as it is, and
that it stays so long enough is part of the property (`<>[]`). `Startup`: of the processes of the script
and of a child that is a recorder after the end of a recording; a recorder that is in its loop
need not be told to stop.

### Mutations

Each property is shown to depend on the code by a mutation that breaks it:
operators commented "mutation:" next to the definition they replace (an unlocked
push that drops the newest packet, a future that is not consumed, a read that starts anew
after a timeout, and so on). They are part of no specification.

## Proofs

| Theorem | For every | Argument |
|---|---|---|
| `TypeCorrect`, `QueueWindow`, `BufferBounded` (`ReplayProofs`) | set of direct and mixed tracks, buffer length, number of packets | `QueueInv`: types; the ids in the queue are the last ones in order; a packet has been erased exactly if the queue is shorter than what was produced; and it can only have been erased after the buffer was full (`ErasedWhenFull`), which makes pushing without dropping impossible from then on |
| `SavedFile`, `QuietExit`, `WholeSaves` (`ReplaySaveProofs`) | the same, and a disk that fails or not | `SaveInv`: the copy is a gap-free part of the queue's past that ends with what was the newest packet (`CopyIsWindow`); the file is the part of the copy before `saveIndex`, as long as nothing was lost (`FileIsCopy`); saves and announcements differ by the one under way (`SavesCounted`), of which there is none where a new one begins (`NoSaveAt`) |
| `ImplementsReplayWindow` (`ReplaySaveProofs`) | set of tracks, buffer length, number of packets and saves, and a disk that fails or not | `SaveInv`, and that the positions it speaks of are numbers (`BoundsInv`); initial states map to initial states, each `receive_frames` to a push (`PushRecords`), the snapshot to the beginning of a save, a packet written to a packet of the file, `publish` to its announcement, the first thing the disk refuses to the window's `Fail` (`LosingFails`), and all else to a stutter. With `DiskCanFail = FALSE` the window has no `Fail` either, so that every file is whole |
| `StreamsIncrease` (`ReplaySaveProofs`) | set of tracks, disk | in the queue the packets of one stream have increasing pts not later than its encoder's last one; a copy, and its part in the file, inherit it, since what is subtracted is the same for all packets of a stream |
| `FilePtsValid` (`ReplaySaveProofs`) | audio track, direct or mixed, but at most one; disk | the offset subtracted from a stream is 0 or the pts of its first packet from the key frame on, and those after it are later (`PtsInv`), so neither what is written nor what is left can become negative (`SignInv`). The code keeps one `audio_pts_offset` for all audio streams (1071, 1090-1097), which is why the theorem has at most one track: with two, the first audio packet need not have the smallest pts |
| `StartsAtKeyframe` (`ReplaySaveProofs`) | set of mixed tracks, no audio thread of its own (`Direct = {}`); files that were written without an error | `KeyInv`: as long as nothing has been dropped the first video packet in the queue is the encoder's first, a key frame (`QueueKeys`); without an audio thread only main pushes, so `frames_erased` as passed to the save is still right under the lock (`ArgIsFresh`), and a queue that has dropped packets is written from its first key frame on (`FileKeys`). With an audio thread `ArgIsFresh` fails, which is the finding of `ReplayStaleErased` |
| `PauseTypeCorrect`, `VideoTimeIsMonotone` (`PauseSyncProofs`) | number of pauses, rate, clock | `VideoInv`: the last captured time is at most the recorded time. The recorded time is `clock - offset`, except between stamp and flip, where `paused` does not say yet what the stamp has done: there it stands at `paused_time_start - offset` |
| `VideoFillsTheTime` (`PauseSyncProofs`) | the same, and any lengths of frames | a capture takes place while the recorded time runs, when it is `clock - offset` (`RecordedInv`); what the counter is set to is that time in frames, and a rounded time is within half a unit of the time (`Rounding`, for any unit and also negative times) |
| `NoGapIsFilledTwice` (`PauseSyncProofs`) | the same, any bursts and gaps, with a device or without | `AudioInv`: the last data or silence *plus the offset as it is now* is not before the turn that had it, so what a turn takes for the length of a gap is at most the time since. It survives reads of an old offset because the offset only grows. A thread without a device has slept half a frame at least, which makes its one frame fit. The bound is the clock and not the recorded time, which `PauseStaleOffset` shows to be exceeded |
| `RequestsAreCounted` (`PauseSyncProofs`): the safety half of `RequestsToggleOnce` | number of signals | the flag stays set until it is cleared, and from then to the flip the request is still pending (`RequestInv`) |
| `KmsTypeCorrect`, `ResponsesMatchRequests` (`KmsProtocolProofs`) | way to start, fault, version, number of frames | one message at most is under way at any time; the inductive invariant says for each place of the client which queue it can be in, and that before the hand-over nobody has the remote end |
| `HandOverOrdered`, `NothingIsLeft` (`KmsProtocolProofs`) | the same | `HandInv`: a server that reads from the pair has left its connection for good, and it does so before its answer can reach the client (`Replaced`), so what a ready client knows from an answer holds of the server; the socket file is there while the client accepts and replaces, and gone with the backlog afterwards (`SocketFile`); a server is there, or pkexec is, if the client has started one, also when one of its steps fails (`Forked`) |
| `KmsFramesTypeCorrect`, `NoDescriptorLeaks`, `OthersDescriptorsAreKept` (`KmsCaptureProofs`) | graphics card, planes, limits of planes and descriptors | `Inv`: types; the framebuffers in the client's table are those of the response, no two entries share one; the surface is where `prime` says; what the server has exported is what it has found. That the first entry with a property exists, needed for the types of the choice, is the well-foundedness of the order on the naturals |
| `TargetIsDrawn` (`KmsCaptureProofs`) | the same, any number of monitors, planes that fail, descriptors that do not arrive | `DrawnInv`: while `change = "none"` the server's map is the screen's, so every entry is labelled with the connector it shows, from the response being filled to the one that is kept; the target is known by the time a frame is asked for; and the choice is made of the response that is there. The first entry of a set is in it (`FirstOfSet`) |
| `WindowTypeCorrect`, `TexturesAreKept`, `EndHasAReason` (`WindowCaptureProofs`) | windows, sizes, number of changes and supply of names | `Inv`: types; the textures are the encoder's and at most one other, which is the window's if there is a pixmap (`TexturesInv`), so a new name is never one of them; at most the texture's window is redirected; events tell of the end of windows that are gone (`StopInv`), and once a frame has been made the colour conversion is there or the recording is about to stop |
| `StartupTypeCorrect`, `WhatIsRecordedFits`, `EncoderGetsFound`, `GpuIsRestored` (`StartupProofs`) | command line, container, GPU, set of encoders and performance levels | `CodecInv` and `EncoderInv` say what is settled at each stage, so that no later rule undoes it: from `find` on flv means h264, from `fallback` on the encoder is that of the codec, and an "auto" codec has an encoder whenever h264 has one; `HeldAt` says what the capture holds at each step of its start, and that an offset that was raised is one that the end will set |
| `OneRecorderAtATime` (`StartupProofs`): `RecorderIsAlone`, the safety half of `ScriptRunsAside` | the same | `ScriptInv`: a child exists exactly while the recorder waits; a script that was called belongs to no live stream, and for a recording it was called when main was past the end of the capture, from where nothing takes the GPU again |
| `SoundTypeCorrect`, `StreamIsRead` (`SoundDeviceProofs`) | chunk and fragment length | the samples handed over are the returned chunks, the part of a chunk in the buffer and the rest of the fragment, in this order; indices keep their ranges |

They rest on the named assumptions on the constants and on the two hypotheses named in the
table: at most one audio track for valid timestamps, and no direct track for the key frame.
Both are conditions the program's own behaviour needs, not the proof. Only model-checked: all liveness (`WaitsEnd`, `ProgramsEnd`,
`ReadReturns`, `FrameEnds`, the second half of `RequestsToggleOnce`, `SavesAreServed`, `StopEndsTheProgram`,
`CatchesUp`, `DeathStops` and the second half of `ScriptRunsAside`), because fairness and
ENABLED are out of the prover's reach. Every invariant and every action property of the
passing runs is a theorem.
No module declares a RECURSIVE operator.

## Plan

Done: the replay buffer, pausing, the KMS connection and its frames, the sound device, windows,
startup with the GPU and the script, with the invariants above proved.

What is left to model would need another kind of model than these: NvFBC's taking of a frame
(one call, no state of the program's), the metadata of HDR (copied from one structure to
another), the connection to PulseAudio's main loop.

Left to prove: an invariant for more than one audio track with the shared offset, which would say by how
much a timestamp can be negative; and the safety part of the liveness properties, that
the only wait without an end is `Stuck`.

Not modelled: the encoders, muxers and filters of FFmpeg, the GPU (EGL, shaders, colour
conversion), loading of libraries, the listing of monitors and of PulseAudio's
sources (read once, no state), the shell scripts and the service unit (they only start
the program and send it signals), XNVCtrl's protocol.
