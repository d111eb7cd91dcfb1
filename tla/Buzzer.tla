------------------------------- MODULE Buzzer -------------------------------
(***************************************************************************)
(* The buzzer: the commands of device_manager.c that drive it, its worker, *)
(* and the plugin's stop flag and output (device/buzzer/buzzer.c).         *)
(*                                                                         *)
(* Three threads meet here.  The main thread plays, turns on, turns off    *)
(* and finally stops the buzzer; the segment thread queues a beep at the   *)
(* end of a countdown; the worker runs the queued tasks.  Turning off does *)
(* not go through the queue: it sets stop_requested and silences the pin   *)
(* from the main thread, while a task may be anywhere in its run.          *)
(*                                                                         *)
(* The worker is used through what SerialExecutor promises of it.  Every   *)
(* critical section of buzzer_lock is one action.  A melody is a number of *)
(* notes, a duration a number of 10 ms delay steps.                        *)
(***************************************************************************)
EXTENDS Naturals, Sequences, Functions

CONSTANTS
  Task,          \* the tasks that may be submitted
  NoTask,        \* no task
  Pitch,         \* the frequencies of the notes of a melody, 0 is a rest
  DefaultTone,   \* BUZZER_DEFAULT_TONE
  MaxNotes,      \* bound: the notes of a melody
  MaxSteps       \* bound: the delay steps of a note or a beep

ASSUME BuzzerConstants ==
  /\ NoTask \notin Task
  /\ Pitch \subseteq Nat /\ DefaultTone \in Nat \ {0}
  /\ MaxNotes \in Nat /\ MaxSteps \in Nat \ {0}

VARIABLES
  initialized,                       \* of the device manager
  pc, mtask,                         \* main thread: pc, task it waits for
  spc,                               \* segment thread
  queue, kind, running,              \* the buzzer worker
  wpc, active, notes, left,          \* its thread: pc, task, what is left
  stop_requested,                    \* the plugin
  current_tone_hz, buzzer_state,
  pin,                               \* what softTone plays on the pin
  quiet,         \* history: "yes" after BUZZER OFF, until a task is submitted
  told,          \* history: the begun tasks that were told to stop
  held           \* history: BUZZER ON was the last to write the output

managerVars == <<initialized, pc, mtask, spc>>
workerVars == <<queue, kind, running>>
threadVars == <<wpc, active, notes, left>>
outputVars == <<current_tone_hz, buzzer_state, pin>>
histVars == <<quiet, told, held>>
vars == <<managerVars, workerVars, threadVars, stop_requested, outputVars,
          histVars>>

Kind == {"unused", "music", "beep", "on"}

MainPC == {"idle", "await", "off", "joinSegment", "stopOff", "stopCancel",
           "stopWorker", "joinWorker", "unload", "down"}

(* "begin" is the run function before its first critical section. *)
ThreadPC == {"fetch", "begin", "silence", "load", "play", "delay", "end",
             "exited"}

(* The state device_init leaves: buzzer_init has silenced the pin. *)
Init ==
  /\ initialized = TRUE /\ pc = "idle" /\ mtask = NoTask /\ spc = "idle"
  /\ queue = << >> /\ kind = [t \in Task |-> "unused"] /\ running = TRUE
  /\ wpc = "fetch" /\ active = NoTask /\ notes = 0 /\ left = 0
  /\ stop_requested = FALSE
  /\ current_tone_hz = 0 /\ buzzer_state = FALSE /\ pin = 0
  /\ quiet = "no" /\ told = {} /\ held = FALSE

-----------------------------------------------------------------------------
(* The plugin's critical sections *)

(* Mutant: the logical state is cached only when the tone changes. *)
WriteOutputKeepsState(hz, on) ==
  /\ current_tone_hz' = hz
  /\ pin' = IF current_tone_hz # hz THEN hz ELSE pin
  /\ buzzer_state' = buzzer_state

(* write_output_locked *)
WriteOutput(hz, on) ==
  /\ current_tone_hz' = hz
  /\ pin' = IF current_tone_hz # hz THEN hz ELSE pin
  /\ buzzer_state' = on

(* stop_output(false), stop_output(true), start_output(hz) *)
SilenceOutput == WriteOutput(0, FALSE) /\ UNCHANGED stop_requested
StopOutput == WriteOutput(0, FALSE) /\ stop_requested' = TRUE
StartOutput(hz) == WriteOutput(hz, hz > 0) /\ stop_requested' = FALSE

(* The main thread stops the output: the task that has already begun has   *)
(* been told to stop.                                                      *)
Begun == wpc \notin {"fetch", "begin", "exited"}
StopPlayback ==
  /\ StopOutput
  /\ told' = IF Begun THEN told \cup {active} ELSE told
  /\ held' = FALSE

-----------------------------------------------------------------------------
(* device_worker_submit on the buzzer worker *)

Submit(t, k) ==
  /\ kind[t] = "unused"
  /\ kind' = [kind EXCEPT ![t] = k]
  /\ queue' = Append(queue, t)
  /\ quiet' = "no"
  /\ UNCHANGED <<running, threadVars, stop_requested, outputVars, told, held>>

(* device_buzzer_music *)
BuzzerMusic(t) ==
  /\ pc = "idle"
  /\ Submit(t, "music")
  /\ UNCHANGED managerVars

(* device_buzzer_on: the main thread waits until the task has run. *)
BuzzerOn(t) ==
  /\ pc = "idle"
  /\ Submit(t, "on")
  /\ pc' = "await" /\ mtask' = t
  /\ UNCHANGED <<initialized, spc>>

BuzzerOnReturns ==
  /\ pc = "await" /\ mtask \notin Range(queue) \cup {active}
  /\ pc' = "idle" /\ mtask' = NoTask
  /\ UNCHANGED <<initialized, spc, workerVars, threadVars, stop_requested,
                 outputVars, histVars>>

(* device_buzzer_off: the pending tasks are cancelled, then buzzer_off. *)
BuzzerOffCancel ==
  /\ pc = "idle"
  /\ queue' = << >> /\ pc' = "off" /\ quiet' = "called"
  /\ UNCHANGED <<initialized, mtask, spc, kind, running, threadVars,
                 stop_requested, outputVars, told, held>>

BuzzerOffWrite ==
  /\ pc = "off"
  /\ StopPlayback
  /\ pc' = "idle"
  /\ quiet' = IF quiet = "called" THEN "yes" ELSE "no"
  /\ UNCHANGED <<initialized, mtask, spc, workerVars, threadVars>>

(* device_buzzer_beep on the segment thread: ensure_initialized, then the  *)
(* submission, or a failed allocation.                                     *)
BeepChecked ==
  /\ spc = "idle" /\ initialized
  /\ spc' = "submit"
  /\ UNCHANGED <<initialized, pc, mtask, workerVars, threadVars,
                 stop_requested, outputVars, histVars>>

BeepSubmitted(t) ==
  /\ spc = "submit"
  /\ Submit(t, "beep")
  /\ spc' = "idle"
  /\ UNCHANGED <<initialized, pc, mtask>>

BeepFails ==
  /\ spc = "submit"
  /\ spc' = "idle"
  /\ UNCHANGED <<initialized, pc, mtask, workerVars, threadVars,
                 stop_requested, outputVars, histVars>>

-----------------------------------------------------------------------------
(* device_cleanup and stop_device_workers, as far as the buzzer goes *)

CleanupBegins ==
  /\ pc = "idle"
  /\ initialized' = FALSE /\ pc' = "joinSegment"
  /\ UNCHANGED <<mtask, spc, workerVars, threadVars, stop_requested,
                 outputVars, histVars>>

(* stop_segment_thread; from here on no one submits. *)
SegmentJoined ==
  /\ pc = "joinSegment" /\ spc = "idle"
  /\ spc' = "gone" /\ pc' = "stopOff"
  /\ UNCHANGED <<initialized, mtask, workerVars, threadVars, stop_requested,
                 outputVars, histVars>>

StopOff ==
  /\ pc = "stopOff"
  /\ StopPlayback
  /\ pc' = "stopCancel"
  /\ UNCHANGED <<initialized, mtask, spc, workerVars, threadVars, quiet>>

StopCancel ==
  /\ pc = "stopCancel"
  /\ queue' = << >> /\ pc' = "stopWorker"
  /\ UNCHANGED <<initialized, mtask, spc, kind, running, threadVars,
                 stop_requested, outputVars, histVars>>

StopWorker ==
  /\ pc = "stopWorker"
  /\ running' = FALSE /\ pc' = "joinWorker"
  /\ UNCHANGED <<initialized, mtask, spc, queue, kind, threadVars,
                 stop_requested, outputVars, histVars>>

(* Mutant: the worker is not joined before the plugin is unloaded. *)
WorkerNotJoined ==
  /\ pc = "joinWorker"
  /\ pc' = "unload"
  /\ UNCHANGED <<initialized, mtask, spc, workerVars, threadVars,
                 stop_requested, outputVars, histVars>>

WorkerJoined ==
  /\ pc = "joinWorker" /\ wpc = "exited"
  /\ pc' = "unload"
  /\ UNCHANGED <<initialized, mtask, spc, workerVars, threadVars,
                 stop_requested, outputVars, histVars>>

(* buzzer_cleanup, then plugin_registry_close *)
Unload ==
  /\ pc = "unload"
  /\ StopPlayback
  /\ pc' = "down"
  /\ UNCHANGED <<initialized, mtask, spc, workerVars, threadVars, quiet>>

-----------------------------------------------------------------------------
(* The worker's thread *)

Fetch ==
  /\ wpc = "fetch" /\ queue # << >>
  /\ active' = Head(queue) /\ queue' = Tail(queue) /\ wpc' = "begin"
  /\ UNCHANGED <<managerVars, kind, running, notes, left, stop_requested,
                 outputVars, histVars>>

Exit ==
  /\ wpc = "fetch" /\ queue = << >> /\ ~running
  /\ wpc' = "exited"
  /\ UNCHANGED <<managerVars, workerVars, active, notes, left,
                 stop_requested, outputVars, histVars>>

(* The run function returns to the worker. *)
Return == wpc' = "fetch" /\ active' = NoTask /\ notes' = 0 /\ left' = 0

(* buzzer_on *)
RunOn ==
  /\ wpc = "begin" /\ kind[active] = "on"
  /\ StartOutput(DefaultTone)
  /\ Return /\ held' = TRUE
  /\ UNCHANGED <<managerVars, workerVars, quiet, told>>

(* buzzer_beep *)
RunBeep ==
  /\ wpc = "begin" /\ kind[active] = "beep"
  /\ StartOutput(DefaultTone)
  /\ left' \in 1..MaxSteps /\ wpc' = "delay"
  /\ UNCHANGED <<managerVars, workerVars, active, notes, histVars>>

(* buzzer_music: clear_stop_request, then stop_output(false) *)
RunMusic ==
  /\ wpc = "begin" /\ kind[active] = "music"
  /\ stop_requested' = FALSE /\ wpc' = "silence"
  /\ UNCHANGED <<managerVars, workerVars, active, notes, left, outputVars,
                 histVars>>

MusicSilence ==
  /\ wpc = "silence"
  /\ SilenceOutput
  /\ wpc' = "load" /\ held' = FALSE
  /\ UNCHANGED <<managerVars, workerVars, active, notes, left, quiet, told>>

(* The file cannot be opened, is no WAV file or cannot be positioned. *)
MusicLoadFails ==
  /\ wpc = "load"
  /\ Return
  /\ UNCHANGED <<managerVars, workerVars, stop_requested, outputVars,
                 histVars>>

(* build_melody_from_wav: as many notes as the file has, fewer if it finds *)
(* stop_requested set, which stays set until the next task begins.         *)
MusicBuild ==
  /\ wpc = "load"
  /\ notes' \in 0..MaxNotes /\ wpc' = "play"
  /\ UNCHANGED <<managerVars, workerVars, active, left, stop_requested,
                 outputVars, histVars>>

(* The melody cannot be stored. *)
MusicBuildFails ==
  /\ wpc = "load"
  /\ wpc' = "end"
  /\ UNCHANGED <<managerVars, workerVars, active, notes, left,
                 stop_requested, outputVars, histVars>>

(* play_melody; write_output_if_running *)

(* Mutant: the stop request is not looked at between two notes. *)
PlayNoteAlways ==
  /\ wpc = "play" /\ notes > 0
  /\ \E hz \in Pitch : WriteOutput(hz, hz > 0)
  /\ notes' = notes - 1 /\ left' \in 0..MaxSteps /\ wpc' = "delay"
  /\ UNCHANGED <<managerVars, workerVars, active, stop_requested, histVars>>

(* Mutant: the index of the note is not advanced. *)
PlayNoteAgain ==
  /\ wpc = "play" /\ notes > 0 /\ ~stop_requested
  /\ \E hz \in Pitch : WriteOutput(hz, hz > 0)
  /\ notes' = notes /\ left' \in 0..MaxSteps /\ wpc' = "delay"
  /\ UNCHANGED <<managerVars, workerVars, active, stop_requested, histVars>>

(* A duration that has wrapped may be 0 ms: no step of the delay.          *)
PlayNote ==
  /\ wpc = "play" /\ notes > 0 /\ ~stop_requested
  /\ \E hz \in Pitch : WriteOutput(hz, hz > 0)
  /\ notes' = notes - 1 /\ left' \in 0..MaxSteps /\ wpc' = "delay"
  /\ UNCHANGED <<managerVars, workerVars, active, stop_requested, histVars>>

PlayStopped ==
  /\ wpc = "play" /\ notes > 0 /\ stop_requested
  /\ SilenceOutput
  /\ wpc' = "end"
  /\ UNCHANGED <<managerVars, workerVars, active, notes, left, histVars>>

PlayEnds ==
  /\ wpc = "play" /\ notes = 0
  /\ wpc' = "end"
  /\ UNCHANGED <<managerVars, workerVars, active, notes, left,
                 stop_requested, outputVars, histVars>>

(* delay_until_done_or_stopped *)

(* Mutant: the remaining time is not compared with 0. *)
DelayStepPastEnd ==
  /\ wpc = "delay" /\ ~stop_requested
  /\ left' = left - 1
  /\ UNCHANGED <<managerVars, workerVars, wpc, active, notes,
                 stop_requested, outputVars, histVars>>

DelayStep ==
  /\ wpc = "delay" /\ left > 0 /\ ~stop_requested
  /\ left' = left - 1
  /\ UNCHANGED <<managerVars, workerVars, wpc, active, notes,
                 stop_requested, outputVars, histVars>>

DelayEnds ==
  /\ wpc = "delay" /\ (stop_requested \/ left = 0)
  /\ wpc' = IF ~stop_requested /\ kind[active] = "music"
              THEN "play" ELSE "end"
  /\ UNCHANGED <<managerVars, workerVars, active, notes, left,
                 stop_requested, outputVars, histVars>>

(* Mutant: the task returns without silencing the pin. *)
EndSounding ==
  /\ wpc = "end"
  /\ Return /\ held' = FALSE
  /\ UNCHANGED <<managerVars, workerVars, stop_requested, outputVars, quiet,
                 told>>

(* The final stop_output(false) of a melody or a beep *)
End ==
  /\ wpc = "end"
  /\ SilenceOutput
  /\ Return /\ held' = FALSE
  /\ UNCHANGED <<managerVars, workerVars, quiet, told>>

-----------------------------------------------------------------------------
WorkerStep ==
  \/ Fetch \/ Exit
  \/ RunOn \/ RunBeep
  \/ RunMusic \/ MusicSilence \/ MusicLoadFails \/ MusicBuild
  \/ MusicBuildFails
  \/ PlayNote \/ PlayStopped \/ PlayEnds
  \/ DelayStep \/ DelayEnds \/ End

(* The steps of a main-thread call that has begun. *)
MainStep ==
  \/ BuzzerOnReturns \/ BuzzerOffWrite
  \/ SegmentJoined \/ StopOff \/ StopCancel \/ StopWorker \/ WorkerJoined
  \/ Unload

SegmentStep == (\E t \in Task : BeepSubmitted(t)) \/ BeepFails

(* The server is down. *)
Rest == pc = "down" /\ UNCHANGED vars

Next ==
  \/ \E t \in Task : BuzzerMusic(t) \/ BuzzerOn(t)
  \/ BuzzerOffCancel \/ CleanupBegins \/ MainStep
  \/ BeepChecked \/ SegmentStep
  \/ WorkerStep
  \/ Rest

SafeSpec == Init /\ [][Next]_vars

(* The scheduler runs every thread that can run; no command need come. *)
Spec ==
  /\ SafeSpec
  /\ WF_vars(WorkerStep) /\ WF_vars(MainStep) /\ WF_vars(SegmentStep)

-----------------------------------------------------------------------------
(* Properties *)

TypeOK ==
  /\ initialized \in BOOLEAN /\ pc \in MainPC
  /\ mtask \in Task \cup {NoTask} /\ spc \in {"idle", "submit", "gone"}
  /\ queue \in Seq(Task) /\ kind \in [Task -> Kind] /\ running \in BOOLEAN
  /\ wpc \in ThreadPC /\ active \in Task \cup {NoTask}
  /\ notes \in 0..MaxNotes /\ left \in 0..MaxSteps
  /\ stop_requested \in BOOLEAN /\ buzzer_state \in BOOLEAN
  /\ {current_tone_hz, pin} \subseteq Pitch \cup {0, DefaultTone}
  /\ quiet \in {"no", "called", "yes"} /\ held \in BOOLEAN
  /\ told \subseteq Task

(* A melody or a beep that has begun and is then told to stop never makes  *)
(* another sound: no one but the next task takes the stop request back.    *)
StoppedTaskIsSilent == active \in told => pin = 0

(* Between two tasks the pin sounds exactly when BUZZER ON was the last to  *)
(* write it: whichever way a melody or a beep ends or fails, it leaves the *)
(* pin silent, and what ON turned on stays on until a task or a call       *)
(* writes the output again.                                                *)
NoStuckTone == active = NoTask => (pin # 0 <=> held)

(* What STATUS reports, buzzer_state, is what the pin does. *)
StatusIsTruthful == buzzer_state <=> pin # 0

(* The plugin's code is not unmapped while a thread can still enter it,    *)
(* and the pin is silent once the server is down.                          *)
NothingRunsAfterUnload ==
  /\ pc \in {"unload", "down"} =>
       wpc = "exited" /\ spc = "gone" /\ active = NoTask
  /\ pc = "down" => pin = 0

(* What holds in every state and is kept by every step. *)

(* A task is queued once, then active once, and only told to stop after it *)
(* has begun.                                                              *)
TaskInv ==
  /\ \A i \in 1..Len(queue) :
       kind[queue[i]] # "unused" /\ queue[i] \notin told \cup {active}
  /\ \A i, j \in 1..Len(queue) : queue[i] = queue[j] => i = j
  /\ active = NoTask <=> wpc \in {"fetch", "exited"}
  /\ active # NoTask => kind[active] # "unused"
  /\ \A t \in told : kind[t] # "unused"
  /\ active \in told => wpc # "begin"

(* The stop request of a task that was told stays, and the pin with it.    *)
OutputInv ==
  /\ pin = current_tone_hz /\ (buzzer_state <=> pin # 0)
  /\ active \in told => stop_requested /\ pin = 0
  /\ wpc = "load" => pin = 0 /\ ~held
  /\ active = NoTask => (pin # 0 <=> held)

DownInv ==
  /\ pc \in {"stopOff", "stopCancel", "stopWorker", "joinWorker", "unload",
             "down"} => spc = "gone"
  /\ pc \in {"unload", "down"} => wpc = "exited"
  /\ pc = "down" => pin = 0

(* The main thread waits for BUZZER ON until its task is neither queued    *)
(* nor active: at any other time there is none.                            *)
OnInv ==
  /\ \A i \in 1..Len(queue) :
       kind[queue[i]] = "on" => pc = "await" /\ queue[i] = mtask
  /\ active # NoTask /\ kind[active] = "on" => pc = "await" /\ active = mtask

(* After BUZZER OFF nothing waits, and no BUZZER ON left its tone.         *)
QuietInv ==
  /\ quiet # "no" => queue = << >> /\ pc # "await"
  /\ quiet = "called" => pc = "off"
  /\ quiet = "yes" => ~held

IInv ==
  TypeOK /\ TaskInv /\ OutputInv /\ DownInv /\ OnInv /\ QuietInv

(* BUZZER ON returns however long the tasks before it play, and            *)
(* device_cleanup with whatever it finds queued, fetched and playing.      *)
CallsReturn ==
  /\ pc = "await" ~> pc = "idle"
  /\ pc = "joinSegment" ~> pc = "down"

(* After BUZZER OFF, and with no task submitted since, the pin falls silent *)
(* at the latest when the task that was just being fetched has ended.       *)
OffSettles == quiet = "yes" ~> quiet # "yes" \/ pin = 0

(* "Turns the buzzer off and cancels pending buzzer work"                  *)
(* (device_manager.h:67): when BUZZER OFF has returned, and no task has    *)
(* been submitted since it was called, the pin is silent.  A task that the *)
(* worker has fetched and not yet begun is neither pending nor playing: it *)
(* takes back the stop request and plays.                                  *)
OffSilences == quiet = "yes" => pin = 0

=============================================================================
