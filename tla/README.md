# TLA+ models of the TCP remote device control system

A server on a Raspberry Pi takes one-line commands over TCP and drives an LED,
a buzzer, a light sensor and a seven-segment display; a console client sends
them. This directory holds TLA+ models of both, TLC configurations that check
them and TLAPS proofs of what they are to keep. Paths below are relative to
`src/`.

## The system

One process, five kinds of threads:

| thread | runs | state it shares |
|---|---|---|
| main | `service` (epoll loop), `exec_command`, the `device_*` calls, `device_init`, `device_cleanup` | the client table; everything below |
| LED, buzzer, light worker | `device_worker_loop` of one `DeviceWorker` each | its task list; the plugin |
| segment | `segment_refresh_loop` | the countdown; the pins; the buzzer's queue |
| signal handler | `signal_handler`, on the main thread | `running` of `socket.c` |
| client (another process) | `run_console` | the connection |

### Inventory

| component | state | operations | hard behaviour | what makes it correct | module |
|---|---|---|---|---|---|
| device worker, `server/device/device_worker.c` | linked list, `running`, `started`, tasks with `done`/`result` | start, stop, submit, cancel_pending, the loop | three threads on one list, wakeups, who frees what | runs tasks in order, once; answers submitters; frees everything once | `DeviceWorker`, `SerialExecutor` |
| buzzer, `device_manager.c`, `buzzer/buzzer.c` | `stop_requested`, tone, state, queue | MUSIC, ON, OFF, BEEP, stop | the stop flag is set by one thread and cleared by the next task | a stopped melody is silent; nothing sounds by mistake; calls return | `Buzzer` |
| segment display, `device_manager.c`, `segment/segment.c` | countdown under a lock, pins under none | DISPLAY, CLEAR, refresh, stop | a round is a copy, a write, a one-second sleep and a second look | one end per countdown; an idle display is off | `Segment` |
| life cycle, `device_manager.c`, `plugin_registry.c`, `main.c` | handles, initialised plugins, threads | `device_init`, `socket_init`, `device_cleanup` | thirteen ways to fail half-way; threads that call what is unloaded | no call outside a plugin's life; everything undone | `Lifecycle` |
| service loop, `server/socket.c` | client table, epoll set, `running` | accept, receive, reply, hang-up, SIGTERM | batches, reused descriptors, signals, vanished peers | every request answered once, to its sender, as long as the sender is there; QUIT and SIGTERM end it | `ServerLoop` |
| command parser, `common/command.c` | none | `command_parse` | boundaries, extra tokens | accepts exactly the manual's commands | `Command` |
| request execution, `server/parsing.c`, with LED and light sensor, `led/led.c`, `light/light.c` | LED state, softPwm's thread, last light value | `exec_command`; on, bright, off, read, STATUS | a thread that drives the pin on; a command of two tasks; failures between | a response tells what the pins do | `Requests` |
| melody, `buzzer/wav_reader.c`, `pitch_detector.c`, `buzzer.c` | file position, bytes left, window, tracker, melody array | header, refill, detect, track, append | padding, files cut short, sizes at the limits, counters over many hops | finds format and data; plays every sample once; stays within its arrays; ends | `WavReader`, `PitchTracker`, `Music` |
| client, `client/main.c` | `client_running`, `buffer`, stdio's buffer | poll loop, local commands, SIGINT | two inputs, buffered reads, one buffer for both directions, hang-up with data | sends what was entered; shows every response; ends with its server | `Client` |
| configuration, log, daemonisation, `plugin_loader.c`'s search | none that lives on | | sequential I/O | | not modelled |

`PROJECT.json` lists the components with their sources, every hazard at its
line, and for each definition the lines it translates.

### How the parts interact

A client's bytes reach `exec_command` through one `recv`; the command is parsed
(`Command`) and becomes a `device_*` call on the main thread. LED, light and
BUZZER ON submit a task to a worker and wait; MUSIC and BEEP submit and return;
BUZZER OFF cancels the queue and writes the stop flag directly; SEG commands
change the countdown under `segment_lock`, and SEG CLEAR also writes the pins.
The segment thread submits a beep when a countdown ends. QUIT raises SIGTERM on
the thread that handles it, whose handler ends the loop. LIGHT READ reads the
sensor through one worker and turns the LED on or off through another.

## Modules

* `DeviceResult` names the result codes.
* `SerialExecutor` is what a worker promises, without threads: admission in
  order, one task at a time, one outcome each, an answer to each submitter.
* `DeviceWorker` is the C code of one worker: every critical section, every
  access to unlocked memory, every signal is an action. `pthread_cond_wait` is a
  state that a signal or a spurious wakeup leaves. The history variables
  (`pending`, `detached`, `phase`, `outcome`) are read by no guard; `pending` is
  what the linked list should be. `ImplementsExecutor` is the refinement of
  `SerialExecutor`: `queue` is `pending`, `active` the task between
  `WorkerTake` and `WorkerRan`, `withdrawn` the detached tasks.
* `Buzzer` uses the worker by its promise (a queue and one running task) and
  models the plugin's critical sections. Time is counted in delay steps, a
  melody in notes; the pitch is chosen freely, and a note may have no step at all.
* `Segment` models the refresh loop and each `digitalWrite`. Pins are numbered
  as in `segment_pins`; the levels are the ones the code writes.
* `Lifecycle` walks through `Order` (LED, buzzer, light, segment) upwards in
  `device_init` and downwards when something fails or the server ends, while the
  threads enter and leave plugins. What a plugin does is left out. `SocketInit`
  is the step of `main` between `device_init` and the service.
* `Command` is the table and the parser over token sequences.
* `Requests` is `exec_command` on every line, one request after the other, with
  the LED and the sensor behind it: `level` is what `digitalWrite` left, `duty`
  what softPwm's thread does to the pin. A waited-for task is one step.
* `WavReader` has the operators of `wav_reader.c`. A file is the sequence of
  chunks its writer laid out and the bytes that are left of it; a reader that is
  off the start of a chunk may see any header. At its end stands what a file
  means, from its chunks alone, as the reference for the reader.
* `PitchTracker` has the detector's choice (a score per note stands for the
  Goertzel filters), the tracker and the lengths of windows, hops and notes.
* `Music` is `buzzer_music` up to the playing, over these two: header, window,
  one hop at a time. `Buzzer` has all of it as the steps `MusicLoadFails`,
  `MusicBuild` and `MusicBuildFails`.
* `ServerLoop` is `service`, with the kernel as the code meets it. `reset` is what the
  next `send` to a client fails with: a client that closes with a reply unread resets
  the connection itself, and `send` returns -1 once (`ECONNRESET`, `SendFails`); one
  that closed in order resets it when it is sent the next reply, and any `send` after
  a reported or late reset is an `EPIPE` with its signal (`ReplyKills`).
* `Client` is `run_console` against any server. `typed` is all the user enters,
  `ahead` what stdio has read of it, `taken` what `fgets` has returned.
* `...Proof` modules hold the theorems about the module they are named after, and
  `MusicProof` those about `WavReader` and `PitchTracker` too.
* `MC...` modules give the sets small values. `Segment`,
  `Lifecycle` and `Client` need none.

A definition named `...Keeps...`, `...Always`, `...Forgotten` and the like with
"Mutant" in its comment is a deliberately wrong version of the definition that
follows it. `PROJECT.json` pairs each checked property with a mutant that breaks
it, so that no property holds for the wrong reason. No specification uses one.

## Runs

`tlc -workers 2 -config <cfg> <module>`; the longest take about two minutes.

| run | module | checks | bounds, and why they suffice |
|---|---|---|---|
| `worker` | `MCDeviceWorker` | list, memory, leaks, the inductive invariant of the refinement (types among it), refinement with every submitter answered, termination of stop | 2 callers (the code has two submitting threads), 3 tasks: a head, a middle and a tail; start, failing start, restarts excluded as in the code |
| `buzzer` | `MCBuzzer` | silence after a stop, no stuck tone, truthful STATUS, nothing runs after unloading, the inductive invariant, ON, OFF and the stop end | 3 tasks of any kind, 2 notes, 2 delay steps: a playing, a fetched and a queued task at once |
| `music` | `MCMusic` | the header against the reference, every sample once, how long the melody lasts, gaps, the inductive invariant with the arrays' bounds, an end | every sequence of up to 3 of 10 chunks, whole and cut at 4 places; 6 long files of up to 8 hops in the rates at which window and hop meet their limits; durations counted modulo 200 seconds, so that the file at 1 Hz, with hops of 128 seconds, wraps; 3 notes, two of them within the tracker's 8 %; an array that starts with one note, so that it grows |
| `segment` | `Segment` | one end per countdown, off when down, off when idle, ends | digits to 2, 3 commands: a countdown, a clear or a restart within it |
| `requests` | `MCRequests` | the parser against the manual's table, responses and STATUS against pins | lines to 4 tokens (the parser looks at no more), 29 words with both ends of each range, in every state of the LED and the sensor |
| `server` | `MCServerLoop` | table and events, one reply per request or a `send` that fails, the inductive invariant, every line sent is read, QUIT ends | 3 connections, of which one sends 2 lines, one 1 and one none, 2 slots and events per batch, 3 descriptors: a full table, a reused descriptor, more events than a batch holds, two requests on one connection (three, which a failing `send` and then a killing one takes, with the other clients silent: checked apart, and proved) |
| `lifecycle` | `Lifecycle` | plugin calls, the beep's target, nothing left, the inductive invariant, init and cleanup return | queues to 3; every failure point |
| `client` | `Client` | what is sent, what is shown, no line forgotten, the end | 3 lines over a terminal, a file and a pipe: one taken, one read ahead, one still to come |
| `buzzer_off` | `MCBuzzer` | **violated**: BUZZER OFF silences | see findings |
| `segment_clear` | `Segment` | **violated**: SEG CLEAR clears | |
| `server_term` | `MCServerLoop` | **violated**: SIGTERM cleans up | |
| `server_pipe` | `MCServerLoop` | **violated**: only QUIT and SIGTERM end the server | |

No run uses symmetry. Deadlock is checked in every passing run: `Rest` steps
mark the states in which the program may really stop or wait.

### Fairness

Weak fairness of each thread's steps: the scheduler runs what can run, a sleep
ends, a plugin's call ends (a melody has an end, `delay` returns). Nothing
outside the program is fair: no command, no signal, no spurious wakeup, no
connection has to come, and no failure to happen. In `Client` only the loop is
fair, not the user, the server or the signal; `Music` is one call of one thread.

### Findings

1. **BUZZER OFF may not silence** (`device_manager.c:464`). A task that the worker
   has taken from the list and not yet begun is neither cancelled nor stopped: it
   clears the stop flag when it begins. `OffSettles` shows what is left of the
   promise, the pin is silent when that task has ended, and the theorem
   `OffIsAtMostLate` that no other task is heard.
2. **SEG CLEAR may not clear** (`device_manager.c:198`). The refresh thread shows
   the digit it copied before; it stays for the refresh delay. `IdleGoesOff` shows
   that the display goes off in the end, and the theorem `ClearIsAtMostLate` that it
   is one digit of one round.
3. **SIGTERM exits without cleanup** (`socket.c:131`): the interrupted `epoll_wait`
   is taken for a failure.
4. **A client that has left kills the server** (`socket.c:69`): SIGPIPE, with the
   second `send` to it. In the run a client sends, closes in order and is answered
   twice. A client that closes with a reply unread makes the first `send` fail with
   ECONNRESET, which the server survives, and is fatal with the next. The theorem
   `EndExplained` bounds the finding: only a client that has left, was sent a reply and
   had another request kills the server.

Met while modelling, without a run of their own (no document says otherwise, or
the difference is one of text):

* lines that arrive together are one request and get one response, tokens running
  on over the line end (`Receive` of `ServerLoop`);
* piped input of the client is read ahead: lines behind the first wait in stdio's
  buffer until more is written, for ever once the pipe is closed (`ReadAhead`;
  `LinesTaken` excepts pipes by name);
* at the end of its input the client spins: a file stays readable, a closed pipe
  hung up (`InputEnds`, `StdinHungUp`); `HangupEnds` shows that it still ends with
  its server;
* a reset connection is looked at before the responses that came before it, which
  are not shown (`CheckEvents`; `ResponsesShown` excepts resets by name);
* SIGINT between the test of `client_running` and `poll` is only noticed when
  something else stirs (`EnterPoll`, `Interrupt`);
* a fmt chunk of odd size above 16 has its pad byte skipped twice (`AfterFmt`;
  `HeaderMatchesReference` excepts such files by name);
* the tracker takes a note within 8 % of the one playing for the same: a semitone
  step, 5.9 %, is not played, where `docs/main.typ:320` has the nearest MIDI note
  of each detected pitch; the detector looks at MIDI notes and not at a spectrum
  of 20 Hz steps (`docs/main.typ:319`);
* each hop's duration is rounded up to a millisecond, so a melody at 11025 Hz is
  played up to 5 % slow (`MelodyLasts` states the bound);
* the duration of a note is an unsigned int and is added to without a check
  (`buzzer.c:440`): a note or rest of 2^32 ms, 49 days, or more, which a file at a
  very low rate can hold, is that much shorter (`AppendNote`; `MelodyLasts` has the
  melody's length but for whole turns of 2^32 ms, and exactly within the rounding for
  every shorter melody);
* when `socket_init` fails after `device_init`, the server exits without
  `device_cleanup` (`SocketInitFails`), with the devices as `device_init` left
  them: off;
* STATUS reads five devices one after the other under different locks, and is no
  snapshot; no document promises one;
* a beep at the end of a countdown silences a tone that BUZZER ON had left;
* `backlog` of `config.ini` is never read (`common/app_config.c`), and `listen` is
  called with 0;
* a SIGTERM between the test of `running` and `epoll_wait` is only noticed when a
  client stirs (`LoopCheck`, `EnterWait` and `Terminate` of `ServerLoop`);
* a client accepted when the table is full is served and never answered
  (`ReplyNobody`; `RequestsAnswered` excepts those clients by name);
* a `send` that returns -1 is printed and forgotten: the request stays without a reply,
  and the client in the table until its hang-up is read (`SendFails`;
  `RequestsAnswered` counts the request in `lost`);
* a failing `accept` ends the server (`AcceptFails`);
* `stop_device_workers` stops playback before it cancels the queue, so a queued
  melody may still be played to its end during the stop (`StopOff`, `StopCancel`);
* a stopped worker runs everything queued, not only its current task as
  `device_worker.h:33` says (`WorkerTake` has no test of `running`);
* SEG DISPLAY during the one-second sleep counts down from a value that was never
  shown (`TickDown`);
* lit segments and blank pins are both LOW (`Levels`), which suits no wiring;
* an unknown command with three tokens is answered INVALID_VALUE, where
  `docs/main.typ:255` has INVALID_COMMAND; BUZZER MUSIC ignores what follows its
  file (`command_parse`).

## Proofs

`tlapm <module>` checks every theorem and lemma; none takes more on trust than the
assumptions of the modules' constants. The runs `worker`,
`buzzer`, `music`, `server` and `lifecycle` also check the inductive invariant that
their component's proof rests on, with the types in it.

| module | theorems | for every |
|---|---|---|
| `DeviceWorkerProof` | `ListCorrect`, `MemorySafety`, `LeakFreedom`, `Refinement`; `Inductive`, `AnswersInductive`, `TypeCorrect` | set of tasks and callers, both values of `CallersJoined` |
| `BuzzerProof` | `StoppedIsSilent`, `NoToneLeft`, `StatusTruthful`, `UnloadedIsQuiet`, `OffIsAtMostLate`; `Inductive`, `TypeCorrect` | set of tasks, pitches, length of melody and delay |
| `SegmentProof` | `OffWhenDown`, `OneBeepPerCountdown`, `RoundsTurnOff`, `ClearIsAtMostLate`; `Inductive`, `TypeCorrect` | highest digit up to 9, number of commands |
| `LifecycleProof` | `CallsAreSafe`, `NothingLeft`, `JoinsEnd`; `Inductive`, `TypeCorrect` | length of the queues |
| `ServerLoopProof` | `TableIsCurrent`, `EveryRequestAnswered`, `EndExplained`, `QuitIsNotLost`; `Inductive`, `TypeCorrect` | set of connections and lines, number of slots, descriptors and events |
| `RequestsProof` | `ParserIsDocumented`, `ResponsesTrue`, `StatusTrue`; `Inductive` | set of words and numerals, number of tokens |
| `MusicProof` | `HeaderIsRead`, `EveryFramePlayed`, `GapsAreBridged`, `MelodyIsAsLong`, `CallAdvances`; `Inductive`, `TypeCorrect` | files of any chunks, cut anywhere, any sample rate, any notes and detections |
| `ClientProof` | `LinesAreInOrder`, `NoResponseLost`; `Inductive` | number of lines |

`Inductive` is always `Spec => []IInv` (or of `SafeSpec`, the same without
fairness): an initial state satisfies `IInv`, each action keeps it (one lemma or
one step per action), and the properties follow from it.

**`DeviceWorker`.** `MemorySafe` is not inductive: that a task is allocated when a
thread touches it depends on where every task is. `IInv` therefore says of each
task, by its `phase`, exactly where it is and who holds it: `QueueInv` (in the
list, once, linked in order), `CancelInv` (detached, linked from the canceller's
pointers), `WorkerInv` (with the thread), `CallInv` (with its one submitter) and
`MemoryInv` (what is allocated in each phase). The steps that move a task have
lemmas on sequences of their own.

`Refinement` is `SafeSpec => ImplementsExecutorSafety`: each of the worker's steps
is one of the serial executor's, or none. It needs `AnswerInv` besides: the result
in a finished task is the outcome of its run, and nobody has read it before its
submitter does.

`CallersJoined` is how the server uses the worker: `device_cleanup` joins the
segment thread before it stops the buzzer's worker, and the main thread is the
owner. With TRUE, `MemorySafe` includes that no caller meets a destroyed mutex,
which is proved; with FALSE callers may overlap the stop, and the model assumes
that they are past the mutex when it is destroyed. The run uses FALSE, in which
submissions are rejected by a stopping worker; the server's order of joins is
what `CallsAreSafe` of `LifecycleProof` proves.

**`Buzzer`.** `TaskInv` has each task queued once, then active, then gone, and only
told to stop after it has begun: this is why clearing the stop flag at a task's
begin takes the request from nobody that was told. `OutputInv` ties pin, cached
tone, state and the request together; `DownInv` has the segment thread gone before
the worker's queue is closed. `OnInv` and `QuietInv` are about the time after BUZZER
OFF: BUZZER ON is waited for, so that none is left behind, the queue is empty and
every task that had begun is told to stop. What remains is the task that was
fetched and has not begun, one at most (`OffIsAtMostLate`).

**`Segment`.** `DownIsOff` needs that the main thread is beyond its join only when
the refresh thread has exited, and that it has cleared the pins it came past.
`RoundInv` says which pins a round without a number has turned off so far, and
`ClearInv` that a countdown that was cleared is not the refresh thread's next
number: a digit can be late by the round that is under way and no more.

**`Lifecycle`.** The sets of loaded, initialised and started devices are each an
initial part of `Order`, and `pc` and `step` say how long each is (`LoadInv`,
`ReadyInv`, `StartInv`); a thread is inside a plugin only while it is started
(`ThreadInv`), so that what is cleaned up has no one in it. `JoinsEnd` is the safety
half of `MainReturns`: the thread that `device_cleanup` waits for is not started
again, and nobody adds to what it still has to do.

**`ServerLoop`.** `RequestsAnswered` counts: `CountInv` says of every connection that
its requests are its replies, sent or lost, and one more for the client that is in
the loop (`ClientInv`). That the reply reaches that client and no other is
`DescriptorsAreCurrent`, for which `AcceptInv` has a connection accepted once.
Replies that could not be sent count as `lost`: `ResetInv` says that a reset comes
from a client that has left and was sent a reply, and that after one lost reply the
next `send` to the client kills, so that a living server has lost one per client at
most. `EndInv` says how the loop is left, on request only, and that a QUIT is only
pending where the loop has still to look at `running`, so that it is not lost as a
SIGTERM can be (`QuitIsNotLost`). The constants' assumption says that the listening socket and "no client" are no
connections.

**`Requests`.** The parser is proved against the manual's table in both directions:
`ManualIsAccepted` takes each documented line through `command_parse`,
`ManualIsAll` each entry of `command_specs` back to the manual. `NoToken`, the NULL
behind the last token, is no word.

**`Music`.** For the header `ReadUpTo(k)` says where the reader is: at the start of
the k-th chunk, with the chunks before it seen for what they are, and the format
of the last fmt chunk among them. Each chunk read moves it to k + 1
(`ReadsOn`, `AfterChunk`), the first data chunk ends it (`FirstDataHere`), and a
file that is given up is one that its chunks say cannot be played
(`ReadUpToPlayable`). That chunks follow each other is proved from
`IsWavFile` by the least counterexample (`LayoutRises`). For the samples,
`ReadTakes` says that a read returns what it takes away from the frames that are
left, also when the file ends in a frame. For the tracker, `TrackInv`
has its counters say when a note was last heard.
`MelodyIsAsLong` is about the sum of the notes' lengths, a recursive function of
the positions. That it is defined at every position is proved by induction over a
set of numbers (the least position at which it is not), and that appending a
note or lengthening the last one adds to it, less the turns of an unsigned int
(`AppendLasts`), carries the bound from hop to hop: `DurationRoundsUp` has each hop
rounded up by less than a millisecond, `HopFitsUInt` no hop longer than an unsigned
int counts, and `LongInv` has the turns made so far as a number of their own, which
`TurnsVanish` takes out again.
`CallAdvances` is the argument behind `BuildEnds`: each step of the call begins a
later phase, or reads on in the header, or plays on towards the last frame.
`IsWavFile` assumes a file laid out chunk behind chunk, possibly cut short, with no
bytes behind its last chunk.

**`Client`.** `IInv` adds to `LinesInOrder` where each line is (`InputInv`: typed, read
ahead by stdio, taken, in the buffer) and why the loop ended (`EndInv`).

Only model-checked: the liveness properties (`StopCompletes`, `CallsReturn`,
`OffSettles`, `BuildEnds`, `CountdownEnds`, `IdleGoesOff`, `RequestsTaken`, `QuitEnds`,
`MainReturns`, `HangupEnds`, `LinesTaken`) and the refinement under fairness
(`ImplementsExecutor`, which includes that `device_worker_submit` returns: the
executor answers everyone it has admitted). They rest on which steps are possible
when, which is outside what the prover handles. For some of them the safety half
is proved: `CallAdvances` for `BuildEnds`, `JoinsEnd` for `MainReturns`,
`QuitIsNotLost` for `QuitEnds`, `RoundsTurnOff` for `IdleGoesOff`,
`OffIsAtMostLate` for `OffSettles`, `ImplementsExecutorSafety` for the refinement;
that a next step is taken stays with the runs. Every invariant and every action
property that a passing run checks is also proved. The operators' results are proved
for all arguments where the theorems use them (lengths of windows and hops, frames
of a read, an update of the tracker, the length of a melody, a parsed line).

## Assumptions and limits

* SIGTERM interrupts `epoll_wait` and nothing else the loop calls, and is
  delivered to the main thread; the server's other threads would run the handler
  and leave `epoll_wait` undisturbed, which ends like the lost signal above.
* A line travels in one piece. A line split over two `recv`s is two requests in
  the code; the model does not add that to the finding about joined lines.
* A close with an unread reply, or a reply to a closed peer, resets the
  connection at once. What `send` then does is Linux's: ECONNRESET once, if the peer
  had not closed before the reset, and EPIPE with SIGPIPE from then on; what was
  received before stays readable. `send` does not block or send a part: replies are
  short and fit the socket's buffer.
* In `Lifecycle` the model does not wait for BUZZER ON, which gives it more
  behaviours than the code has. An `accept`ed connection is described by the
  lowest free descriptor.
* Contexts: every task of `DeviceWorker` has a context and a cleanup callback;
  calls without are the same calls minus a free.
* `Requests`: a call of `softPwmCreate` that fails leaves the pin alone, one that
  succeeds drives it LOW; the sensor reads 0 or 1.
* `Music`: `long` has 64 bits (the Raspberry Pi's `aarch64`), so that no `fseek`
  is given a negative offset, and sample positions fit it. `UIntMod`, 2^32, is assumed
  to be more than the 128000 ms of the longest hop. A file is not changed
  while it is read. `fseek` within it does not fail.
* `Client`: a line fits `buffer`, and lines come whole through a pipe. The input
  is a terminal, a file or a pipe; a terminal's lines are read one by one.
* `wiringPi`, `dlopen`, stdio and the kernel are external. softTone's own thread,
  which `buzzer_cleanup` does not end although the last plugin's unloading unmaps
  its code, is not modelled: it depends on the library and the loader.

Not modelled: texts of responses and logs; `app_config`, `server_log`, the
daemon's forks, the search for plugin files and the client's connecting
(sequential input and output with no state that outlives the call); the values of
samples and the filters over them (floating point), for which a score per note
stands.

## Possible extensions

* Compose the client with the service loop, request by request, and state that a
  client sees the answers to its own lines in their order.
* Compose `Segment` with `Buzzer` through the beep, which is now a task of any kind
  in `Buzzer` and an event in `Segment`.
* Split lines over several `recv`s in `ServerLoop`.
