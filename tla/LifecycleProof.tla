--------------------------- MODULE LifecycleProof ---------------------------
(***************************************************************************)
(* Proofs about Lifecycle, for any length of the workers' queues: how far  *)
(* the server is up is known in every state (IInv), and with it that no    *)
(* thread meets a plugin that is not there, that nothing is left when the  *)
(* server is down, whichever step of the start failed, and that no thread  *)
(* is given work while it is joined.                                       *)
(***************************************************************************)
EXTENDS Lifecycle, TLAPS

USE MaxQueueIsNat

-----------------------------------------------------------------------------
(* The order of the devices, as far as the proofs look at it. *)
LEMMA OrderFacts ==
  /\ Last = 4
  /\ \A i \in 1..4 : Order[i] \in Device
  /\ \A d \in Device : \E i \in 1..4 : d = Order[i]
  /\ \A i, j \in 1..4 : Order[i] = Order[j] => i = j
  /\ Order[2] = "buzzer" /\ Order[4] = "segment"
  /\ Worker \subseteq Device /\ "buzzer" \in Worker /\ "segment" \notin Worker
  /\ \A d \in Device : d \in Worker \/ d = "segment"
<1>1. Last = 4
  BY DEF Last, Order
<1>2. Device = {"led", "buzzer", "light", "segment"}
  BY <1>1 DEF Device, Order
<1>3. QED
  BY <1>1, <1>2 DEF Order, Worker

(* All devices are up to the last, none up to 0. *)
LEMMA UpFacts ==
  ASSUME NEW S \in SUBSET Device
  PROVE  /\ Up(S, 4) <=> S = Device
         /\ Up(S, 0) <=> S = {}
BY OrderFacts DEF Up

(* One device more, and one less. *)
LEMMA UpNext ==
  ASSUME NEW S, NEW T, NEW k \in 1..4,
         S \subseteq Device, Up(S, k - 1), T = S \cup {Order[k]}
  PROVE  T \subseteq Device /\ Up(T, k)
BY OrderFacts DEF Up

LEMMA UpPrevious ==
  ASSUME NEW S, NEW T, NEW k \in 1..4,
         S \subseteq Device, Up(S, k), T = S \ {Order[k]}
  PROVE  T \subseteq Device /\ Up(T, k - 1)
BY OrderFacts DEF Up

-----------------------------------------------------------------------------
(* The invariant *)

LEMMA InitIInv == Init => IInv
<1> SUFFICES ASSUME Init PROVE IInv
  OBVIOUS
<1>1. TypeOK
  <2>1. queued \in [Worker -> 0..MaxQueue]
    BY DEF Init
  <2>2. QED
    BY <2>1 DEF Init, TypeOK, MainPC, SegmentPC
<1>2. LoadInv /\ ReadyInv /\ StartInv /\ ResultInv /\ ThreadInv
  BY DEF Init, LoadInv, ReadyInv, StartInv, ResultInv, ThreadInv
<1>3. QED
  BY <1>1, <1>2 DEF IInv

(* A step of a thread, or of a command, leaves what is up alone. *)
LEMMA UpUnchanged ==
  ASSUME LoadInv, ReadyInv, StartInv, ResultInv,
         UNCHANGED <<mainVars, pluginVars, started, running>>
  PROVE  LoadInv' /\ ReadyInv' /\ StartInv' /\ ResultInv'
BY DEF LoadInv, ReadyInv, StartInv, ResultInv, Up, mainVars, pluginVars

(* device_init and what follows up to the service. *)
LEMMA UpwardStep ==
  ASSUME IInv,
         \/ InitBegins \/ LoadPlugin \/ LoadPluginFails \/ InitPlugin
         \/ InitPluginFails \/ StartThread \/ StartThreadFails
         \/ InitReturns \/ SocketInit \/ SocketInitFails
  PROVE  IInv'
<1> USE DEF IInv, TypeOK, MainPC, SegmentPC, LoadInv, ReadyInv, StartInv,
      ResultInv, ThreadInv
<1>1. CASE InitBegins
  BY <1>1, OrderFacts, UpFacts DEF InitBegins, Goto, pluginVars, threadVars
<1>2. CASE LoadPlugin
  <2>1. /\ step \in 1..4 /\ Up(loaded, step - 1)
        /\ loaded' = loaded \cup {Order[step]}
    BY <1>2, OrderFacts DEF LoadPlugin
  <2>2. loaded' \subseteq Device /\ Up(loaded', step)
    BY <2>1, UpNext
  <2>3. QED
    BY <1>2, <2>1, <2>2, OrderFacts, UpFacts DEF LoadPlugin, Goto, threadVars
<1>3. CASE LoadPluginFails
  BY <1>3, OrderFacts, UpFacts DEF LoadPluginFails, Goto, threadVars
<1>4. CASE InitPlugin
  <2>1. /\ step \in 1..4 /\ Up(ready, step - 1)
        /\ ready' = ready \cup {Order[step]}
    BY <1>4, OrderFacts DEF InitPlugin
  <2>2. ready' \subseteq Device /\ Up(ready', step)
    BY <2>1, UpNext
  <2>3. Up(started, 0) /\ running = started
    BY <1>4, UpFacts DEF InitPlugin
  <2>4. CASE step < 4
    BY <1>4, <2>1, <2>2, <2>4, OrderFacts DEF InitPlugin, Goto, threadVars
  <2>5. CASE step = 4
    BY <1>4, <2>1, <2>2, <2>3, <2>5, OrderFacts, UpFacts
      DEF InitPlugin, Goto, threadVars, Up
  <2>6. QED
    BY <2>1, <2>4, <2>5
<1>5. CASE InitPluginFails
  BY <1>5, OrderFacts, UpFacts DEF InitPluginFails, Goto, pluginVars, threadVars
<1>6. CASE StartThread
  <2>1. /\ step \in 1..4 /\ Up(started, step - 1)
        /\ started' = started \cup {Order[step]}
    BY <1>6, OrderFacts DEF StartThread
  <2>2. started' \subseteq Device /\ Up(started', step)
    BY <2>1, UpNext, ZenonT(60)
  <2>3. QED
    BY <1>6, <2>1, <2>2, OrderFacts, SMTT(30) DEF StartThread, Goto, pluginVars
<1>7. CASE StartThreadFails
  BY <1>7, OrderFacts, UpFacts DEF StartThreadFails, Goto, pluginVars, threadVars
<1>8. CASE InitReturns
  BY <1>8, OrderFacts, UpFacts DEF InitReturns, Goto, pluginVars, threadVars
<1>9. CASE SocketInit
  BY <1>9, OrderFacts, UpFacts DEF SocketInit, Goto, pluginVars, threadVars
<1>10. CASE SocketInitFails
  BY <1>10, OrderFacts, UpFacts DEF SocketInitFails, Goto, pluginVars
<1>11. QED
  BY <1>1, <1>2, <1>3, <1>4, <1>5, <1>6, <1>7, <1>8, <1>9, <1>10

(* Commands that wait for their task. *)
LEMMA CommandStep ==
  ASSUME IInv,
         (\E i \in 1..Last : WaitedCommand(i)) \/ CommandReturns
         \/ BuzzerSilenced \/ CleanupBegins
  PROVE  IInv'
<1> USE DEF IInv, TypeOK, MainPC, SegmentPC, LoadInv, ReadyInv, StartInv,
      ResultInv, ThreadInv
<1>1. ASSUME NEW i \in 1..Last, WaitedCommand(i) PROVE IInv'
  BY <1>1, OrderFacts DEF WaitedCommand, Goto, pluginVars, Enqueue
<1>2. CASE CommandReturns
  BY <1>2, OrderFacts, UpFacts DEF CommandReturns, Goto, pluginVars, threadVars
<1>3. CASE BuzzerSilenced
  BY <1>3, OrderFacts, UpFacts DEF BuzzerSilenced, Goto, pluginVars, threadVars
<1>4. CASE CleanupBegins
  <2>1. Up(started, Last) /\ running = started
    BY <1>4, OrderFacts, UpFacts DEF CleanupBegins
  <2>2. QED
    <3>1. /\ pc' = "stop" /\ step' = 4 /\ Last = 4 /\ initialized' = FALSE
          /\ UNCHANGED <<result, pluginVars, threadVars>>
      BY <1>4, OrderFacts DEF CleanupBegins, Goto
    <3>2. TypeOK'
      <4>1. 4 \in 1..4 /\ pc' \notin {"down", "socket", "up", "exited"}
        BY <3>1
      <4>2. UNCHANGED <<result, loaded, ready, started, running, queued,
                        inside, spc>>
        BY <3>1 DEF pluginVars, threadVars
      <4>3. QED
        BY <3>1, <4>1, <4>2
    <3>3. LoadInv' /\ ReadyInv' /\ ResultInv'
      BY <1>4, <3>1 DEF CleanupBegins, pluginVars, threadVars
    <3>4. StartInv' /\ ThreadInv'
      BY <1>4, <2>1, <3>1 DEF CleanupBegins, pluginVars, threadVars
    <3>5. QED
      BY <3>2, <3>3, <3>4
<1>5. QED
  BY <1>1, <1>2, <1>3, <1>4

(* device_cleanup, and a device_init that undoes what it has done. *)
LEMMA DownwardStep ==
  ASSUME IInv,
         TellToStop \/ CancelAndTell \/ JoinThread \/ CleanupPlugin
         \/ ClosePlugin
  PROVE  IInv'
<1> USE DEF IInv, TypeOK, MainPC, SegmentPC, LoadInv, ReadyInv, StartInv,
      ResultInv, ThreadInv
<1>1. CASE TellToStop
  BY <1>1, OrderFacts, UpFacts DEF TellToStop, Goto, pluginVars
<1>2. CASE CancelAndTell
  <2>1. queued' = [queued EXCEPT ![Order[step]] = 0] /\ 0 \in 0..MaxQueue
    BY <1>2 DEF CancelAndTell
  <2>2. queued' \in [Worker -> 0..MaxQueue]
    BY <2>1
  <2>3. \A w \in Worker : queued'[w] > 0 => queued[w] > 0
    BY <2>1
  <2>4. QED
    BY <1>2, <2>2, <2>3, OrderFacts DEF CancelAndTell, Goto, pluginVars, Up
<1>3. CASE JoinThread
  <2>1. step \in 1..4 /\ Finished(Order[step]) /\ Up(started, step)
        /\ started' = started \ {Order[step]}
    BY <1>3, OrderFacts DEF JoinThread
  <2>2. started' \subseteq Device /\ Up(started', step - 1)
    BY <2>1, UpPrevious, ZenonT(60)
  <2>3. ThreadInv'
    <3>1. /\ Order[step] \notin inside
          /\ Order[step] \in Worker => queued[Order[step]] = 0
          /\ Order[step] = "segment" => spc = "ended"
      BY <1>3, <2>1, OrderFacts DEF Finished
    <3>2. QED
      BY <1>3, <2>1, <3>1, OrderFacts DEF JoinThread, Goto
  <2>4. TypeOK' /\ LoadInv' /\ ReadyInv' /\ ResultInv'
    <3>1. step - 1 \in 0..3 /\ Last = 4 /\ running' \subseteq started'
      BY <1>3, <2>1, OrderFacts DEF JoinThread
    <3>2. TypeOK'
      BY <1>3, <2>1, <2>2, <3>1 DEF JoinThread, Goto, pluginVars
    <3>3. LoadInv'
      BY <1>3, <2>1, <3>1 DEF JoinThread, Goto, pluginVars
    <3>4. ReadyInv'
      <4>1. step' = Last \/ pc' = "stop"
        BY <1>3, <2>1 DEF JoinThread, Goto
      <4>2. ready = Device /\ ready' = Device /\ Up(ready', Last)
        BY <1>3, <3>1, UpFacts DEF JoinThread, pluginVars
      <4>3. pc' \in {"stop", "cleanup"}
        BY <1>3 DEF JoinThread, Goto
      <4>4. QED
        BY <4>1, <4>2, <4>3
    <3>5. ResultInv'
      BY <1>3 DEF JoinThread, Goto
    <3>6. QED
      BY <3>2, <3>3, <3>4, <3>5
  <2>5. StartInv'
    BY <1>3, <2>1, <2>2, OrderFacts, UpFacts DEF JoinThread, Goto
  <2>6. QED
    BY <2>3, <2>4, <2>5
<1>4. CASE CleanupPlugin
  <2>1. step \in 1..4 /\ Up(ready, step) /\ ready' = ready \ {Order[step]}
    BY <1>4, OrderFacts DEF CleanupPlugin
  <2>2. ready' \subseteq Device /\ Up(ready', step - 1)
    BY <2>1, UpPrevious
  <2>3. QED
    BY <1>4, <2>1, <2>2, OrderFacts, UpFacts DEF CleanupPlugin, Goto, threadVars
<1>5. CASE ClosePlugin
  BY <1>5, OrderFacts, UpFacts DEF ClosePlugin, Goto, threadVars
<1>6. QED
  BY <1>1, <1>2, <1>3, <1>4, <1>5

(* The steps of the workers and of the segment thread, and a command whose *)
(* task is only queued: what is up stays up.                               *)
LEMMA ThreadsStep ==
  ASSUME IInv,
         PlayCommand \/ \E d \in Device : ThreadStep(d)
  PROVE  IInv'
<1> USE DEF IInv, TypeOK, MainPC, SegmentPC, ThreadInv
<1>1. CASE PlayCommand
  <2>1. queued' \in [Worker -> 0..MaxQueue]
    BY <1>1, OrderFacts DEF PlayCommand, Enqueue
  <2>2. started = Device
    BY <1>1 DEF PlayCommand, StartInv
  <2>3. QED
    BY <1>1, <2>1, <2>2, UpUnchanged, OrderFacts
      DEF PlayCommand, Enqueue, mainVars, pluginVars, ResultInv
<1>2. ASSUME NEW w \in Worker, RunTask(w) PROVE IInv'
  BY <1>2, UpUnchanged, OrderFacts DEF RunTask, mainVars, pluginVars
<1>3. CASE SegmentRound
  BY <1>3, UpUnchanged, OrderFacts DEF SegmentRound, mainVars, pluginVars
<1>4. CASE CountdownOver
  <2>1. pc # "exited" /\ "segment" \in started
    BY <1>4 DEF CountdownOver, StartInv
  <2>2. QED
    BY <1>4, <2>1, UpUnchanged, OrderFacts
      DEF CountdownOver, mainVars, pluginVars
<1>5. ASSUME NEW d \in Device, LeavePlugin(d) PROVE IInv'
  BY <1>5, UpUnchanged, OrderFacts DEF LeavePlugin, mainVars, pluginVars
<1>6. CASE Beep
  BY <1>6, UpUnchanged, OrderFacts DEF Beep, mainVars, pluginVars
<1>7. CASE SubmitBeep
  BY <1>7, UpUnchanged, OrderFacts DEF SubmitBeep, Enqueue, mainVars, pluginVars
<1>8. QED
  BY <1>1, <1>2, <1>3, <1>4, <1>5, <1>6, <1>7 DEF ThreadStep, SegmentStep

LEMMA NextIInv == IInv /\ [Next]_vars => IInv'
<1> SUFFICES ASSUME IInv, [Next]_vars PROVE IInv'
  OBVIOUS
<1>1. CASE Rest \/ UNCHANGED vars
  BY <1>1 DEF Rest, vars, mainVars, pluginVars, threadVars, IInv, TypeOK,
    LoadInv, ReadyInv, StartInv, ResultInv, ThreadInv, Up
<1>2. CASE MainStep \/ Failure \/ Request
  BY <1>2, UpwardStep, CommandStep, DownwardStep, ThreadsStep
    DEF MainStep, Failure, Request
<1>3. CASE \E d \in Device : ThreadStep(d)
  BY <1>3, ThreadsStep
<1>4. QED
  BY <1>1, <1>2, <1>3 DEF Next

(* IInv holds in every state, whichever steps fail.                        *)
THEOREM Inductive == SafeSpec => []IInv
BY InitIInv, NextIInv, PTL DEF SafeSpec

(* Every variable keeps its type, and only started threads run.            *)
THEOREM TypeCorrect == SafeSpec => []TypeOK
<1>1. IInv => TypeOK
  BY DEF IInv
<1>2. QED
  BY <1>1, Inductive, PTL

(* No plugin's code is entered that is not loaded and initialised, by any  *)
(* thread, and no beep is submitted to a worker that was joined.           *)
THEOREM CallsAreSafe == SafeSpec => []PluginCallsAreSafe
<1>1. ASSUME IInv PROVE PluginCallsAreSafe
  <2> USE <1>1 DEF IInv, LoadInv, ReadyInv
  <2>1. started # {} => Usable = Device
    BY DEF StartInv, Usable, TypeOK, MainPC
  <2>2. inside \subseteq Usable
    BY <2>1 DEF ThreadInv, TypeOK
  <2>3. initialized => Device \subseteq Usable
    BY DEF ResultInv, Usable
  <2>4. pc = "init" => Order[step] \in loaded
    BY OrderFacts DEF TypeOK
  <2>5. pc = "silence" => "buzzer" \in Usable
    BY OrderFacts DEF Usable
  <2>6. pc = "cleanup" => Order[step] \in Usable
    BY OrderFacts DEF Usable, TypeOK, Up
  <2>7. spc = "submit" => "buzzer" \in started
    <3>1. SUFFICES ASSUME "segment" \in started PROVE "buzzer" \in started
      BY DEF ThreadInv
    <3>2. CASE started = Device
      BY <3>2, OrderFacts
    <3>3. CASE \E k \in Nat : Up(started, k)
      BY <3>1, <3>3, OrderFacts DEF Up
    <3>4. QED
      BY <3>1, <3>2, <3>3, OrderFacts DEF StartInv, TypeOK, MainPC
  <2>8. QED
    BY <2>2, <2>3, <2>4, <2>5, <2>6, <2>7 DEF PluginCallsAreSafe
<1>2. QED
  BY <1>1, Inductive, PTL

(* Down, the server has no library loaded, no plugin initialised, no       *)
(* thread, and no task left.                                               *)
THEOREM NothingLeft == SafeSpec => []DownLeavesNothing
<1>1. IInv => DownLeavesNothing
  BY DEF IInv, TypeOK, LoadInv, ReadyInv, StartInv, ThreadInv,
    DownLeavesNothing
<1>2. QED
  BY <1>1, Inductive, PTL

-----------------------------------------------------------------------------
(* Why a join ends                                                         *)

(* How far the refresh thread is on its way out. *)
Stage == [round |-> 0, zero |-> 0, submit |-> 0, last |-> 1, ended |-> 2]

(* The thread of d has been told to stop and is not started again; nobody  *)
(* adds to what it still has to do.                                        *)
Drains(d) ==
  /\ d \notin running /\ d \notin running'
  /\ IF d \in Worker THEN queued'[d] <= queued[d]
                     ELSE Stage[spc] <= Stage[spc']

LEMMA JoinDrains ==
  ASSUME IInv, Next, pc = "join"
  PROVE  Drains(Order[step])
<1> DEFINE d == Order[step]
<1>1. /\ step \in 1..4 /\ d \in Device /\ d \notin running
      /\ queued \in [Worker -> Nat] /\ spc \in SegmentPC
  BY OrderFacts DEF IInv, TypeOK, StartInv
<1> SUFFICES Drains(d)
  OBVIOUS
<1> HIDE DEF d
<1>2. /\ d \in Worker => queued[d] \in Nat
      /\ d \notin Worker => d = "segment"
      /\ Stage \in [SegmentPC -> Nat]
  BY <1>1, OrderFacts DEF Stage, SegmentPC
<1>3. ASSUME running' = running, d \in Worker => queued'[d] <= queued[d],
             d = "segment" => Stage[spc] <= Stage[spc']
      PROVE  Drains(d)
  BY <1>1, <1>2, <1>3 DEF Drains
<1>4. ASSUME NEW w \in Worker, RunTask(w) PROVE Drains(d)
  <2>1. running' = running /\ spc' = spc /\ queued[w] \in Nat
        /\ queued' = [queued EXCEPT ![w] = queued[w] - 1]
    BY <1>1, <1>4 DEF RunTask
  <2>2. d \in Worker => queued'[d] <= queued[d]
    BY <1>1, <1>2, <2>1
  <2>3. Stage[spc] <= Stage[spc']
    BY <1>1, <1>2, <2>1
  <2>4. QED
    BY <1>3, <2>1, <2>2, <2>3
<1>5. CASE SubmitBeep
  <2>1. running' = running /\ spc = "submit" /\ spc' = "round"
        /\ (d \in Worker => queued'[d] <= queued[d])
    BY <1>1, <1>2, <1>5, OrderFacts DEF SubmitBeep, Enqueue
  <2>2. Stage[spc] <= Stage[spc']
    BY <2>1 DEF Stage
  <2>3. QED
    BY <1>3, <2>1, <2>2
<1>6. ASSUME UNCHANGED <<running, queued>>, d = "segment" => Stage[spc] <= Stage[spc']
      PROVE  Drains(d)
  BY <1>2, <1>3, <1>6
<1>7. ASSUME SegmentRound \/ CountdownOver \/ Beep \/ \E e \in Device : LeavePlugin(e)
      PROVE  Drains(d)
  <2>1. running' = running /\ queued' = queued
    BY <1>7 DEF SegmentRound, CountdownOver, Beep, LeavePlugin
  <2>2. ASSUME d = "segment" PROVE Stage[spc] <= Stage[spc']
    <3>1. CASE spc' = spc
      BY <1>1, <1>2, <3>1
    <3>2. CASE spc' # spc
      BY <1>1, <1>7, <2>2, <3>2 DEF SegmentRound, CountdownOver, Beep, LeavePlugin, Stage
    <3>3. QED
      BY <3>1, <3>2
  <2>3. QED
    BY <1>6, <2>1, <2>2
<1>8. CASE UNCHANGED <<running, queued, spc>>
  BY <1>1, <1>2, <1>6, <1>8
<1>9. QED
  <2>1. CASE \E e \in Device : ThreadStep(e)
    BY <1>4, <1>5, <1>7, <2>1 DEF ThreadStep, SegmentStep
  <2>2. CASE MainStep
    <3>1. JoinThread
      BY <2>2 DEF MainStep, LoadPlugin, InitPlugin, StartThread, InitReturns,
        SocketInit, CommandReturns, TellToStop, BuzzerSilenced, CancelAndTell,
        CleanupPlugin, ClosePlugin
    <3>2. QED
      BY <1>8, <3>1 DEF JoinThread
  <2>3. ~Failure /\ ~Request
    BY DEF Failure, LoadPluginFails, InitPluginFails, StartThreadFails,
      SocketInitFails, Request, InitBegins, CleanupBegins, PlayCommand,
      WaitedCommand
  <2>4. CASE Rest
    BY <1>8, <2>4 DEF Rest, vars, threadVars
  <2>5. QED
    BY <2>1, <2>2, <2>3, <2>4 DEF Next

(* While pthread_join waits for a thread nobody gives that thread work     *)
(* again, though the others still run: a countdown that ends while the     *)
(* buzzer's worker is joined, or a command, would keep it from returning.  *)
(* That the thread does the rest is MainReturns.                           *)
THEOREM JoinsEnd == SafeSpec => [][pc = "join" => Drains(Order[step])]_vars
<1>1. IInv /\ [Next]_vars => [pc = "join" => Drains(Order[step])]_vars
  BY JoinDrains
<1>2. QED
  BY <1>1, Inductive, PTL DEF SafeSpec

=============================================================================
