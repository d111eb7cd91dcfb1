----------------------------- MODULE Lifecycle -----------------------------
(***************************************************************************)
(* device_init and device_cleanup (server/device/device_manager.c) over    *)
(* plugin_registry_load and plugin_registry_close: what is loaded,         *)
(* initialised and started, in which order, and how it is undone when a    *)
(* step fails or the server ends, while the threads that were started      *)
(* already call the plugins.                                               *)
(*                                                                         *)
(* Each device has a plugin and a thread: the workers of the LED, the      *)
(* buzzer and the light sensor, which run what is queued for them, and the *)
(* refresh thread of the segment display, which calls its plugin in every  *)
(* round and queues a beep when a countdown ends.  device_init brings the  *)
(* devices up in one order, and everything is undone in the reverse of it. *)
(* What a plugin does is left out: its calls begin, and they end.          *)
(***************************************************************************)
EXTENDS Naturals, Sequences

CONSTANT MaxQueue        \* bound: the tasks that wait for a worker

ASSUME MaxQueueIsNat == MaxQueue \in Nat

VARIABLES
  initialized,       \* of the device manager
  pc, step,          \* main thread: what it does, and for which device
  result,            \* what device_init returns
  loaded,            \* the plugins with a handle
  ready,             \* the plugins that were initialised and not cleaned up
  started,           \* the devices with a thread that was not joined
  running,           \* those of them that have not been told to stop
  queued,            \* the tasks that wait for each worker
  inside,            \* the threads that are in their plugin's code
  spc                \* segment thread: where in its loop it is

mainVars == <<initialized, pc, step, result>>
pluginVars == <<loaded, ready>>
threadVars == <<started, running, queued, inside, spc>>
vars == <<mainVars, pluginVars, threadVars>>

(* The order of plugin_registry_load, device_init, start_device_workers. *)
Order == <<"led", "buzzer", "light", "segment">>
Last == Len(Order)
Device == {Order[i] : i \in 1..Last}
Worker == Device \ {"segment"}

MainPC == {"down", "load", "init", "start", "socket", "up", "await",
           "stop", "silence", "cancel", "join", "cleanup", "close", "exited"}

SegmentPC == {"round", "zero", "submit", "last", "ended"}

Init ==
  /\ initialized = FALSE /\ pc = "down" /\ step = 0 /\ result = "none"
  /\ loaded = {} /\ ready = {}
  /\ started = {} /\ running = {} /\ inside = {} /\ spc = "round"
  /\ queued = [w \in Worker |-> 0]

(* The main thread goes on with step s of p. *)
Goto(p, s) == pc' = p /\ step' = s

-----------------------------------------------------------------------------
(* device_init *)

InitBegins ==
  /\ pc = "down" /\ result = "none" /\ ~initialized
  /\ Goto("load", 1)
  /\ UNCHANGED <<initialized, result, pluginVars, threadVars>>

(* load_led_plugin and its like: a handle and all the symbols. *)
LoadPlugin ==
  /\ pc = "load"
  /\ loaded' = loaded \cup {Order[step]}
  /\ IF step < Last THEN Goto("load", step + 1) ELSE Goto("init", 1)
  /\ UNCHANGED <<initialized, result, ready, threadVars>>

(* No library is found, or a symbol is missing in the one that was. *)
LoadPluginFails ==
  /\ pc = "load"
  /\ \/ result' = "PLUGIN_LOAD_FAILED" /\ loaded' = loaded
     \/ result' = "SYMBOL_LOAD_FAILED" /\ loaded' = loaded \cup {Order[step]}
  /\ Goto("close", Last)
  /\ UNCHANGED <<initialized, ready, threadVars>>

InitPlugin ==
  /\ pc = "init"
  /\ ready' = ready \cup {Order[step]}
  /\ IF step < Last THEN Goto("init", step + 1) ELSE Goto("start", 1)
  /\ UNCHANGED <<initialized, result, loaded, threadVars>>

(* The plugins before this one are cleaned up, in reverse. *)
InitPluginFails ==
  /\ pc = "init"
  /\ \E e \in {"GPIO_SETUP_FAILED", "DEVICE_FAILED"} : result' = e
  /\ IF step > 1 THEN Goto("cleanup", step - 1) ELSE Goto("close", Last)
  /\ UNCHANGED <<initialized, pluginVars, threadVars>>

(* device_worker_start, start_segment_thread; the last one completes. *)
StartThread ==
  /\ pc = "start" /\ step <= Last
  /\ started' = started \cup {Order[step]}
  /\ running' = running \cup {Order[step]}
  /\ Goto("start", step + 1)
  /\ UNCHANGED <<initialized, result, pluginVars, queued, inside, spc>>

(* Mutant: the threads that were started are left running. *)
StartThreadFailsStoppingNone ==
  /\ pc = "start" /\ step <= Last
  /\ result' = "THREAD_FAILED"
  /\ Goto("cleanup", Last)
  /\ UNCHANGED <<initialized, pluginVars, threadVars>>

(* The threads before this one are stopped, in reverse. *)
StartThreadFails ==
  /\ pc = "start" /\ step <= Last
  /\ result' = "THREAD_FAILED"
  /\ IF step > 1 THEN Goto("stop", step - 1) ELSE Goto("cleanup", Last)
  /\ UNCHANGED <<initialized, pluginVars, threadVars>>

InitReturns ==
  /\ pc = "start" /\ step = Last + 1
  /\ initialized' = TRUE /\ result' = "OK"
  /\ Goto("socket", 0)
  /\ UNCHANGED <<pluginVars, threadVars>>

(* socket_init of server/socket.c, which main calls next: the server       *)
(* serves, or it leaves by exit, with its devices up.                      *)
SocketInit ==
  /\ pc = "socket"
  /\ Goto("up", 0)
  /\ UNCHANGED <<initialized, result, pluginVars, threadVars>>

SocketInitFails ==
  /\ pc = "socket"
  /\ Goto("exited", 0)
  /\ running' = {} /\ started' = {} /\ inside' = {} /\ spc' = "ended"
  /\ UNCHANGED <<initialized, result, pluginVars, queued>>

-----------------------------------------------------------------------------
(* The commands, and the threads *)

Enqueue(w) ==
  /\ queued[w] < MaxQueue
  /\ queued' = [queued EXCEPT ![w] = @ + 1]

(* A command of the buzzer; the model does not wait for BUZZER ON. *)
PlayCommand ==
  /\ pc = "up" /\ initialized
  /\ Enqueue("buzzer")
  /\ UNCHANGED <<mainVars, pluginVars, started, running, inside, spc>>

(* A command of the LED or the light sensor: the main thread waits. *)
WaitedCommand(i) ==
  /\ pc = "up" /\ initialized
  /\ Order[i] \in Worker \ {"buzzer"}
  /\ Enqueue(Order[i])
  /\ Goto("await", i)
  /\ UNCHANGED <<initialized, result, pluginVars, started, running, inside,
                 spc>>

CommandReturns ==
  /\ pc = "await" /\ queued[Order[step]] = 0 /\ Order[step] \notin inside
  /\ Goto("up", 0)
  /\ UNCHANGED <<initialized, result, pluginVars, threadVars>>

(* A worker with a task runs it, whether or not it has been told to stop. *)
RunTask(w) ==
  /\ w \in started \ inside /\ queued[w] > 0
  /\ queued' = [queued EXCEPT ![w] = @ - 1]
  /\ inside' = inside \cup {w}
  /\ UNCHANGED <<mainVars, pluginVars, started, running, spc>>

(* One round of segment_refresh_loop, up to its sleep; the last one, once  *)
(* the thread has been told to stop, only clears the display.              *)
SegmentRound ==
  /\ "segment" \in started \ inside /\ spc = "round"
  /\ spc' = IF "segment" \in running THEN "round" ELSE "last"
  /\ inside' = inside \cup {"segment"}
  /\ UNCHANGED <<mainVars, pluginVars, started, running, queued>>

(* The countdown, which a command began, is over: the display is cleared. *)
CountdownOver ==
  /\ "segment" \in running \ inside /\ spc = "round"
  /\ result = "OK" /\ pc # "socket"
  /\ spc' = "zero"
  /\ inside' = inside \cup {"segment"}
  /\ UNCHANGED <<mainVars, pluginVars, started, running, queued>>

LeavePlugin(d) ==
  /\ d \in inside
  /\ inside' = inside \ {d}
  /\ spc' = IF d = "segment" /\ spc = "last" THEN "ended" ELSE spc
  /\ UNCHANGED <<mainVars, pluginVars, started, running, queued>>

(* device_buzzer_beep asks ensure_initialized before it submits. *)
Beep ==
  /\ spc = "zero" /\ "segment" \notin inside
  /\ spc' = IF initialized THEN "submit" ELSE "round"
  /\ UNCHANGED <<mainVars, pluginVars, started, running, queued, inside>>

(* The task is queued, or there is no memory for it. *)
SubmitBeep ==
  /\ spc = "submit"
  /\ spc' = "round"
  /\ \/ "buzzer" \in running /\ Enqueue("buzzer")
     \/ UNCHANGED queued
  /\ UNCHANGED <<mainVars, pluginVars, started, running, inside>>

-----------------------------------------------------------------------------
(* device_cleanup, and the undoing of a device_init that failed *)

CleanupBegins ==
  /\ pc = "up" /\ initialized
  /\ initialized' = FALSE
  /\ Goto("stop", Last)
  /\ UNCHANGED <<result, pluginVars, threadVars>>

(* Mutant: segment_thread_running is left alone. *)
TellWorkersToStop ==
  /\ pc = "stop"
  /\ running' = running \ ({Order[step]} \cap Worker)
  /\ Goto("join", step)
  /\ UNCHANGED <<initialized, result, pluginVars, started, queued, inside,
                 spc>>

(* stop_segment_thread, device_worker_stop: the thread is told to stop.    *)
(* In stop_device_workers buzzer.off and cancel_pending come first.        *)
TellToStop ==
  /\ pc = "stop"
  /\ IF result = "OK" /\ Order[step] = "buzzer"
       THEN Goto("silence", step) /\ UNCHANGED running
       ELSE Goto("join", step) /\ running' = running \ {Order[step]}
  /\ UNCHANGED <<initialized, result, pluginVars, started, queued, inside,
                 spc>>

(* The main thread is in plugins.buzzer.off, and leaves it. *)
BuzzerSilenced ==
  /\ pc = "silence"
  /\ Goto("cancel", step)
  /\ UNCHANGED <<initialized, result, pluginVars, threadVars>>

(* cancel_pending, and the stop of the buzzer's worker. *)
CancelAndTell ==
  /\ pc = "cancel"
  /\ queued' = [queued EXCEPT ![Order[step]] = 0]
  /\ running' = running \ {Order[step]}
  /\ Goto("join", step)
  /\ UNCHANGED <<initialized, result, pluginVars, started, inside, spc>>

(* Mutant: the thread is not waited for. *)
FinishedSoon(d) == d \notin running

(* A worker ends with its queue empty, the segment thread after its last   *)
(* round.                                                                  *)
Finished(d) ==
  IF d \in Worker THEN d \notin inside \cup running /\ queued[d] = 0
                  ELSE spc = "ended"

(* Mutant: the first thread is not the last one to be stopped. *)
JoinThreadPastFirst ==
  /\ pc = "join" /\ Finished(Order[step])
  /\ started' = started \ {Order[step]}
  /\ Goto("stop", step - 1)
  /\ UNCHANGED <<initialized, result, pluginVars, running, queued, inside,
                 spc>>

(* pthread_join *)
JoinThread ==
  /\ pc = "join" /\ Finished(Order[step])
  /\ started' = started \ {Order[step]}
  /\ IF step > 1 THEN Goto("stop", step - 1) ELSE Goto("cleanup", Last)
  /\ UNCHANGED <<initialized, result, pluginVars, running, queued, inside,
                 spc>>

CleanupPlugin ==
  /\ pc = "cleanup"
  /\ ready' = ready \ {Order[step]}
  /\ IF step > 1 THEN Goto("cleanup", step - 1) ELSE Goto("close", Last)
  /\ UNCHANGED <<initialized, result, loaded, threadVars>>

(* plugin_registry_close: dlclose where there is a handle. *)
ClosePlugin ==
  /\ pc = "close"
  /\ loaded' = loaded \ {Order[step]}
  /\ IF step > 1 THEN Goto("close", step - 1) ELSE Goto("down", 0)
  /\ UNCHANGED <<initialized, result, ready, threadVars>>

(* The server has ended, or never began to serve. *)
Rest ==
  /\ pc = "exited" \/ (pc = "down" /\ result # "none")
  /\ UNCHANGED vars

-----------------------------------------------------------------------------
MainStep ==
  \/ LoadPlugin \/ InitPlugin \/ StartThread
  \/ InitReturns \/ SocketInit \/ CommandReturns
  \/ TellToStop \/ BuzzerSilenced \/ CancelAndTell
  \/ JoinThread \/ CleanupPlugin \/ ClosePlugin

Failure ==
  \/ LoadPluginFails \/ InitPluginFails \/ StartThreadFails
  \/ SocketInitFails

Request ==
  \/ InitBegins \/ CleanupBegins \/ PlayCommand
  \/ \E i \in 1..Last : WaitedCommand(i)

SegmentStep == SegmentRound \/ CountdownOver \/ Beep \/ SubmitBeep

ThreadStep(d) ==
  \/ LeavePlugin(d)
  \/ d \in Worker /\ RunTask(d)
  \/ d = "segment" /\ SegmentStep

Next ==
  \/ MainStep \/ Failure \/ Request \/ Rest
  \/ \E d \in Device : ThreadStep(d)

SafeSpec == Init /\ [][Next]_vars

(* Each thread is scheduled, and a plugin's call ends. *)
Spec ==
  /\ SafeSpec
  /\ WF_vars(MainStep)
  /\ \A d \in Device : WF_vars(ThreadStep(d))

-----------------------------------------------------------------------------
TypeOK ==
  /\ initialized \in BOOLEAN
  /\ pc \in MainPC
  /\ IF pc \in {"down", "socket", "up", "exited"} THEN step = 0
     ELSE step \in IF pc = "start" THEN 1..Last + 1 ELSE 1..Last
  /\ result \in {"none", "OK", "PLUGIN_LOAD_FAILED", "SYMBOL_LOAD_FAILED",
                 "GPIO_SETUP_FAILED", "DEVICE_FAILED", "THREAD_FAILED"}
  /\ loaded \subseteq Device /\ ready \subseteq Device
  /\ running \subseteq started /\ started \subseteq Device
  /\ inside \subseteq Device
  /\ queued \in [Worker -> 0..MaxQueue]
  /\ spc \in SegmentPC

Usable == loaded \cap ready

(* Code of a plugin runs only while its library is loaded and its init     *)
(* has succeeded: in the threads, in the commands of an initialised        *)
(* manager, in the calls of init, off and cleanup on the way down.  The    *)
(* calls go through function pointers: another order is a crash.  And the  *)
(* segment thread submits its beep only to a worker that has not been      *)
(* joined, though its check of `initialized` is older than the submission: *)
(* device_worker_stop destroys the mutex that device_worker_submit locks.  *)
PluginCallsAreSafe ==
  /\ inside \subseteq Usable
  /\ initialized => Device \subseteq Usable
  /\ pc = "init" => Order[step] \in loaded
  /\ pc = "silence" => "buzzer" \in Usable
  /\ pc = "cleanup" => Order[step] \in Usable
  /\ spc = "submit" => "buzzer" \in started

(* Whichever step of device_init failed, and after device_cleanup: nothing *)
(* stays loaded, initialised, started or queued.                           *)
DownLeavesNothing ==
  pc = "down" => /\ loaded = {} /\ ready = {} /\ started = {}
                 /\ \A w \in Worker : queued[w] = 0

(* How far the server is up, in every state: the devices up to one in the   *)
(* order are loaded, those up to another initialised, those up to a third  *)
(* have a thread, and the main thread's step says which.                   *)

(* Of the devices, S holds those up to the k-th. *)
Up(S, k) == \A i \in 1..Last : Order[i] \in S <=> i <= k

LoadInv ==
  /\ pc = "load" => Up(loaded, step - 1)
  /\ pc = "close" => \A i \in 1..Last : i > step => Order[i] \notin loaded
  /\ pc = "down" => loaded = {}
  /\ pc \notin {"load", "close", "down"} => loaded = Device

ReadyInv ==
  /\ pc = "init" => Up(ready, step - 1)
  /\ pc = "cleanup" => Up(ready, step)
  /\ pc \in {"down", "load", "close"} => ready = {}
  /\ pc \notin {"down", "load", "close", "init", "cleanup"} => ready = Device

StartInv ==
  /\ pc = "start" => Up(started, step - 1) /\ running = started
  /\ pc \in {"socket", "up", "await"} => started = Device /\ running = Device
  /\ pc \in {"stop", "silence", "cancel"} =>
       Up(started, step) /\ running = started
  /\ pc = "join" => Up(started, step) /\ running = started \ {Order[step]}
  /\ pc \in {"down", "load", "init", "cleanup", "close", "exited"} =>
       started = {}

ResultInv ==
  /\ pc \in {"load", "init", "start"} => result = "none"
  /\ pc \in {"socket", "up", "await", "exited"} => result = "OK"
  /\ initialized => pc \in {"socket", "up", "await", "exited"}

(* A thread is in its plugin, or has work, only while it is not joined; no  *)
(* countdown is over and nothing queued before the server serves.          *)
ThreadInv ==
  /\ inside \subseteq started
  /\ \A w \in Worker : queued[w] > 0 => w \in started
  /\ result # "OK" \/ pc \in {"socket", "exited"} =>
       spc \notin {"zero", "submit"} /\ \A w \in Worker : queued[w] = 0
  /\ spc \in {"zero", "submit"} => "segment" \in started
  /\ spc = "last" => "segment" \in inside
  /\ spc = "ended" => "segment" \notin inside

IInv == TypeOK /\ LoadInv /\ ReadyInv /\ StartInv /\ ResultInv /\ ThreadInv

(* device_init, a command and device_cleanup return: a join never waits    *)
(* for a thread that was not told, or that waits in turn.                  *)
MainReturns == pc \notin {"up", "down"} ~> pc \in {"up", "down", "exited"}

=============================================================================
