---------------------------- MODULE BuzzerProof ----------------------------
(***************************************************************************)
(* Proofs about Buzzer, for any number of tasks, any pitches, melodies and *)
(* durations of any length: the invariant IInv, one step per action, the   *)
(* safety properties that follow from it, and how late BUZZER OFF may be.  *)
(***************************************************************************)
EXTENDS Buzzer, SequenceTheorems, TLAPS

USE BuzzerConstants

-----------------------------------------------------------------------------
(* Operators *)

(* What is left of a queue when its head is taken. *)
LEMMA TailFacts ==
  ASSUME NEW s \in Seq(Task), s # << >>
  PROVE  /\ Len(s) \in Nat \ {0} /\ Head(s) = s[1] /\ s[1] \in Task
         /\ Tail(s) \in Seq(Task) /\ Len(Tail(s)) = Len(s) - 1
         /\ \A i \in 1..Len(Tail(s)) : Tail(s)[i] = s[i + 1]
OBVIOUS

(* What a queue is when a task has been appended. *)
LEMMA AppendFacts ==
  ASSUME NEW s \in Seq(Task), NEW t \in Task
  PROVE  /\ Len(s) \in Nat
         /\ Append(s, t) \in Seq(Task) /\ Len(Append(s, t)) = Len(s) + 1
         /\ \A i \in 1..Len(s) : Append(s, t)[i] = s[i]
         /\ Append(s, t)[Len(s) + 1] = t
OBVIOUS

(* Whatever was on the pin, a write leaves what it writes. *)
LEMMA Written ==
  ASSUME OutputInv, NEW hz, NEW on, WriteOutput(hz, on)
  PROVE  pin' = hz /\ current_tone_hz' = hz /\ buzzer_state' = on
BY DEF OutputInv, WriteOutput

(* The notes of a melody, and the tone of ON and BEEP, are frequencies. *)
LEMMA Tones ==
  /\ \A hz \in Pitch \cup {0, DefaultTone} : hz \in Nat /\ (hz > 0 <=> hz # 0)
  /\ DefaultTone > 0
OBVIOUS

-----------------------------------------------------------------------------
(* The invariant *)

(* IInv in two parts: the second is proved from the first.                  *)
BaseInv == TypeOK /\ TaskInv /\ OutputInv /\ DownInv

LEMMA InitIInv == Init => BaseInv
<1> SUFFICES ASSUME Init PROVE BaseInv
  OBVIOUS
<1>1. queue \in Seq(Task) /\ Len(queue) = 0 /\ kind \in [Task -> Kind]
  BY DEF Init, Kind
<1>2. 0 \in 0..MaxNotes /\ 0 \in 0..MaxSteps
  OBVIOUS
<1>3. TypeOK
  BY <1>1, <1>2 DEF Init, TypeOK, MainPC, ThreadPC
<1>4. TaskInv /\ OutputInv /\ DownInv
  BY <1>1 DEF Init, TaskInv, OutputInv, DownInv
<1>5. QED
  BY <1>3, <1>4 DEF BaseInv

(* What the thread that submits does besides. *)
SubmitterMoves ==
  /\ mtask' \in Task \cup {NoTask} /\ initialized' = initialized
  /\ pc' = pc \/ pc' = "await"
  /\ spc' = spc \/ (spc = "submit" /\ spc' = "idle")

(* A submission puts a task that was never seen before behind the queue.   *)
LEMMA SubmitStep ==
  ASSUME BaseInv, NEW t \in Task, NEW k \in Kind \ {"unused"}, Submit(t, k),
         SubmitterMoves
  PROVE  BaseInv'
<1> USE DEF SubmitterMoves
<1>1. TypeOK'
  <2>1. queue' \in Seq(Task) /\ kind' \in [Task -> Kind]
    BY AppendFacts DEF BaseInv, TypeOK, Submit
  <2>2. QED
    BY <2>1 DEF BaseInv, TypeOK, Submit, threadVars, outputVars, MainPC
<1>2. TaskInv'
  <2>1. /\ t # active /\ t \notin told
        /\ \A i \in 1..Len(queue) : queue[i] # t
    BY DEF BaseInv, TaskInv, TypeOK, Submit
  <2>2. /\ Len(queue) \in Nat /\ Len(queue') = Len(queue) + 1
        /\ \A i \in 1..Len(queue) : queue'[i] = queue[i] /\ queue[i] \in Task
        /\ queue'[Len(queue) + 1] = t
    BY AppendFacts DEF BaseInv, TypeOK, Submit
  <2>3. \A u \in Task : kind[u] # "unused" \/ u = t => kind'[u] # "unused"
    BY DEF BaseInv, TypeOK, Submit
  <2>4. UNCHANGED <<active, wpc, told>>
    BY DEF Submit, threadVars
  <2>5. \A i \in 1..Len(queue') :
          kind'[queue'[i]] # "unused" /\ queue'[i] \notin told \cup {active}
    BY <2>1, <2>2, <2>3 DEF BaseInv, TaskInv
  <2>6. \A i, j \in 1..Len(queue') : queue'[i] = queue'[j] => i = j
    BY <2>1, <2>2 DEF BaseInv, TaskInv
  <2>7. QED
    BY <2>3, <2>4, <2>5, <2>6 DEF BaseInv, TypeOK, TaskInv
<1>3. OutputInv' /\ DownInv'
  BY DEF BaseInv, OutputInv, DownInv, Submit, threadVars, outputVars
<1>4. QED
  BY <1>1, <1>2, <1>3 DEF BaseInv

(* The calls that submit, on the main thread and on the segment thread. *)
LEMMA SubmissionStep ==
  ASSUME BaseInv,
         \/ (\E t \in Task : BuzzerMusic(t))
         \/ (\E t \in Task : BuzzerOn(t))
         \/ (\E t \in Task : BeepSubmitted(t)) \/ BeepChecked \/ BeepFails
         \/ BuzzerOnReturns
  PROVE  BaseInv'
<1>1. ASSUME NEW t \in Task, BuzzerMusic(t) PROVE BaseInv'
  <2>1. PICK k \in Kind \ {"unused"} : Submit(t, k)
    BY <1>1 DEF BuzzerMusic, Kind
  <2>2. SubmitterMoves
    BY <1>1 DEF BuzzerMusic, SubmitterMoves, managerVars, BaseInv, TypeOK
  <2>3. QED
    BY <2>1, <2>2, SubmitStep
<1>2. ASSUME NEW t \in Task, BuzzerOn(t) PROVE BaseInv'
  <2>1. PICK k \in Kind \ {"unused"} : Submit(t, k)
    BY <1>2 DEF BuzzerOn, Kind
  <2>2. SubmitterMoves
    BY <1>2 DEF BuzzerOn, SubmitterMoves
  <2>3. QED
    BY <2>1, <2>2, SubmitStep
<1>3. ASSUME NEW t \in Task, BeepSubmitted(t) PROVE BaseInv'
  <2>1. PICK k \in Kind \ {"unused"} : Submit(t, k)
    BY <1>3 DEF BeepSubmitted, Kind
  <2>2. SubmitterMoves
    BY <1>3 DEF BeepSubmitted, SubmitterMoves, BaseInv, TypeOK
  <2>3. QED
    BY <2>1, <2>2, SubmitStep
<1> USE DEF BaseInv, TypeOK, TaskInv, OutputInv, DownInv, MainPC, ThreadPC, Kind
<1>4. CASE BeepChecked
  BY <1>4 DEF BeepChecked, managerVars, workerVars, threadVars, outputVars, histVars
<1>5. CASE BeepFails
  BY <1>5 DEF BeepFails, managerVars, workerVars, threadVars, outputVars, histVars
<1>6. CASE BuzzerOnReturns
  BY <1>6 DEF BuzzerOnReturns, managerVars, workerVars, threadVars, outputVars, histVars
<1>7. QED
  BY <1>1, <1>2, <1>3, <1>4, <1>5, <1>6

(* BUZZER OFF, and the end of the server. *)
LEMMA MainThreadStep ==
  ASSUME BaseInv,
         \/ BuzzerOffCancel \/ BuzzerOffWrite \/ CleanupBegins
         \/ SegmentJoined \/ StopOff \/ StopCancel \/ StopWorker
         \/ WorkerJoined \/ Unload
  PROVE  BaseInv'
<1> USE DEF BaseInv, TypeOK, TaskInv, OutputInv, DownInv, MainPC, ThreadPC, Kind
<1>1. CASE BuzzerOffCancel
  <2>1. queue' \in Seq(Task) /\ Len(queue') = 0
    BY <1>1 DEF BuzzerOffCancel
  <2>2. QED
    BY <1>1, <2>1 DEF BuzzerOffCancel, threadVars, outputVars
<1>2. CASE BuzzerOffWrite
  <2>1. pin' = 0 /\ current_tone_hz' = 0 /\ buzzer_state' = FALSE
    BY <1>2, Written DEF BuzzerOffWrite, StopPlayback, StopOutput
  <2>2. /\ stop_requested' = TRUE /\ told' \subseteq Task /\ held' = FALSE
        /\ told' \ told \subseteq {active}
        /\ wpc = "begin" => told' = told
        /\ told' # told => wpc \notin {"fetch", "exited"}
    BY <1>2 DEF BuzzerOffWrite, StopPlayback, StopOutput, Begun
  <2>3. \A i \in 1..Len(queue) : queue[i] \notin told' \cup {active}
    BY <2>2
  <2>4. QED
    BY <1>2, <2>1, <2>2, <2>3, ZenonT(60) DEF BuzzerOffWrite, workerVars, threadVars
<1>3. CASE CleanupBegins
  <2>1. TypeOK'
    BY <1>3, ZenonT(60) DEF CleanupBegins, managerVars, workerVars, threadVars,
      outputVars, histVars
  <2>2. TaskInv'
    BY <1>3 DEF CleanupBegins, managerVars, workerVars, threadVars, outputVars, histVars
  <2>3. OutputInv' /\ DownInv'
    BY <1>3 DEF CleanupBegins, managerVars, workerVars, threadVars, outputVars, histVars
  <2>4. QED
    BY <2>1, <2>2, <2>3
<1>4. CASE SegmentJoined
  BY <1>4 DEF SegmentJoined, managerVars, workerVars, threadVars, outputVars, histVars
<1>5. CASE StopOff
  <2>1. pin' = 0 /\ current_tone_hz' = 0 /\ buzzer_state' = FALSE
    BY <1>5, Written DEF StopOff, StopPlayback, StopOutput
  <2>2. /\ stop_requested' = TRUE /\ told' \subseteq Task /\ held' = FALSE
        /\ told' \ told \subseteq {active}
        /\ wpc = "begin" => told' = told
        /\ told' # told => wpc \notin {"fetch", "exited"}
    BY <1>5 DEF StopOff, StopPlayback, StopOutput, Begun
  <2>3. \A i \in 1..Len(queue) : queue[i] \notin told' \cup {active}
    BY <2>2
  <2>4. QED
    BY <1>5, <2>1, <2>2, <2>3, ZenonT(60) DEF StopOff, workerVars, threadVars
<1>6. CASE StopCancel
  <2>1. queue' \in Seq(Task) /\ Len(queue') = 0
    BY <1>6 DEF StopCancel
  <2>2. QED
    BY <1>6, <2>1 DEF StopCancel, threadVars, outputVars, histVars
<1>7. CASE StopWorker
  BY <1>7, ZenonT(60) DEF StopWorker, managerVars, workerVars, threadVars,
    outputVars, histVars
<1>8. CASE WorkerJoined
  BY <1>8 DEF WorkerJoined, managerVars, workerVars, threadVars, outputVars, histVars
<1>9. CASE Unload
  <2>1. pin' = 0 /\ current_tone_hz' = 0 /\ buzzer_state' = FALSE
    BY <1>9, Written DEF Unload, StopPlayback, StopOutput
  <2>2. /\ stop_requested' = TRUE /\ told' \subseteq Task /\ held' = FALSE
        /\ told' \ told \subseteq {active}
        /\ wpc = "begin" => told' = told
        /\ told' # told => wpc \notin {"fetch", "exited"}
    BY <1>9 DEF Unload, StopPlayback, StopOutput, Begun
  <2>3. \A i \in 1..Len(queue) : queue[i] \notin told' \cup {active}
    BY <2>2
  <2>4. QED
    BY <1>9, <2>1, <2>2, <2>3 DEF Unload, workerVars, threadVars
<1>10. QED
  BY <1>1, <1>2, <1>3, <1>4, <1>5, <1>6, <1>7, <1>8, <1>9

(* The worker takes a task and begins it. *)
LEMMA TaskBeginsStep ==
  ASSUME BaseInv,
         \/ Fetch \/ Exit \/ RunOn \/ RunBeep \/ RunMusic
  PROVE  BaseInv'
<1> USE DEF BaseInv, TypeOK, TaskInv, OutputInv, DownInv, MainPC, ThreadPC, Kind
<1>1. CASE Fetch
  <2>1. /\ active' = queue[1] /\ queue' \in Seq(Task) /\ active' \in Task
        /\ Len(queue) \in Nat \ {0} /\ Len(queue') = Len(queue) - 1
        /\ \A i \in 1..Len(queue') : queue'[i] = queue[i + 1]
    BY <1>1, TailFacts DEF Fetch
  <2>2. /\ kind[active'] # "unused" /\ active' \notin told
        /\ \A i \in 1..Len(queue') : queue'[i] # active'
    BY <2>1
  <2>3. QED
    BY <1>1, <2>1, <2>2 DEF Fetch, managerVars, outputVars, histVars
<1>2. CASE Exit
  BY <1>2 DEF Exit, managerVars, workerVars, threadVars, outputVars, histVars
<1>3. CASE RunOn
  <2>1. pin' = DefaultTone /\ current_tone_hz' = DefaultTone /\ buzzer_state' = TRUE
    BY <1>3, Written, Tones DEF RunOn, StartOutput
  <2>2. TypeOK'
    <3>1. {current_tone_hz', pin'} \subseteq Pitch \cup {0, DefaultTone}
      BY <2>1
    <3>2. notes' \in 0..MaxNotes /\ left' \in 0..MaxSteps
      BY <1>3 DEF RunOn, StartOutput, Return, managerVars, workerVars
    <3>3. QED
      BY <1>3, <2>1, <3>1, <3>2 DEF RunOn, StartOutput, Return, managerVars, workerVars
  <2>3. TaskInv'
    BY <1>3, <2>1, Tones DEF RunOn, StartOutput, Return, managerVars, workerVars
  <2>4. OutputInv' /\ DownInv'
    BY <1>3, <2>1, Tones DEF RunOn, StartOutput, Return, managerVars, workerVars
  <2>5. QED
    BY <2>2, <2>3, <2>4
<1>4. CASE RunBeep
  <2>1. pin' = DefaultTone /\ current_tone_hz' = DefaultTone /\ buzzer_state' = TRUE
    BY <1>4, Written, Tones DEF RunBeep, StartOutput
  <2>2. TypeOK'
    <3>1. {current_tone_hz', pin'} \subseteq Pitch \cup {0, DefaultTone}
      BY <2>1
    <3>2. notes' \in 0..MaxNotes /\ left' \in 0..MaxSteps
      BY <1>4 DEF RunBeep, StartOutput, managerVars, workerVars, histVars
    <3>3. QED
      BY <1>4, <2>1, <3>1, <3>2, ZenonT(60) DEF RunBeep, StartOutput, managerVars,
        workerVars, histVars
  <2>3. TaskInv'
    BY <1>4, <2>1, Tones DEF RunBeep, StartOutput, managerVars, workerVars, histVars
  <2>4. OutputInv' /\ DownInv'
    BY <1>4, <2>1, Tones DEF RunBeep, StartOutput, managerVars, workerVars, histVars
  <2>5. QED
    BY <2>2, <2>3, <2>4
<1>5. CASE RunMusic
  <2>1. TypeOK'
    BY <1>5, ZenonT(60) DEF RunMusic, managerVars, workerVars, threadVars,
      outputVars, histVars
  <2>2. TaskInv'
    BY <1>5 DEF RunMusic, managerVars, workerVars, threadVars, outputVars, histVars
  <2>3. OutputInv' /\ DownInv'
    BY <1>5 DEF RunMusic, managerVars, workerVars, threadVars, outputVars, histVars
  <2>4. QED
    BY <2>1, <2>2, <2>3
<1>6. QED
  BY <1>1, <1>2, <1>3, <1>4, <1>5

(* A melody on its way. *)
LEMMA MusicStep ==
  ASSUME BaseInv,
         \/ MusicSilence \/ MusicLoadFails \/ MusicBuild \/ MusicBuildFails
         \/ PlayNote \/ PlayStopped \/ PlayEnds \/ DelayStep \/ DelayEnds
         \/ End
  PROVE  BaseInv'
<1> USE DEF BaseInv, TypeOK, TaskInv, OutputInv, DownInv, MainPC, ThreadPC, Kind
<1>1. CASE MusicSilence
  <2>1. pin' = 0 /\ current_tone_hz' = 0 /\ buzzer_state' = FALSE
    BY <1>1, Written, Tones DEF MusicSilence, SilenceOutput
  <2>2. QED
    BY <1>1, <2>1, Tones, ZenonT(60) DEF MusicSilence, SilenceOutput, managerVars,
      workerVars
<1>2. CASE MusicLoadFails
  BY <1>2 DEF MusicLoadFails, Return, managerVars, workerVars, threadVars,
    outputVars, histVars
<1>3. CASE MusicBuild
  BY <1>3 DEF MusicBuild, managerVars, workerVars, threadVars, outputVars, histVars
<1>4. CASE MusicBuildFails
  BY <1>4 DEF MusicBuildFails, managerVars, workerVars, threadVars, outputVars, histVars
<1>5. CASE PlayNote
  <2>1. PICK hz \in Pitch : WriteOutput(hz, hz > 0)
    BY <1>5 DEF PlayNote
  <2>2. pin' = hz /\ current_tone_hz' = hz /\ buzzer_state' = (hz > 0)
    BY <2>1, Written
  <2>3. active \notin told
    BY <1>5 DEF PlayNote
  <2>4. notes' \in 0..MaxNotes /\ left' \in 0..MaxSteps
    BY <1>5 DEF PlayNote
  <2>5. TypeOK'
    BY <1>5, <2>2, <2>3, <2>4, Tones DEF PlayNote, managerVars, workerVars, histVars
  <2>6. TaskInv'
    BY <1>5, <2>2, <2>3, <2>4, Tones DEF PlayNote, managerVars, workerVars, histVars
  <2>7. OutputInv' /\ DownInv'
    BY <1>5, <2>2, <2>3, <2>4, Tones DEF PlayNote, managerVars, workerVars, histVars
  <2>8. QED
    BY <2>5, <2>6, <2>7
<1>6. CASE PlayStopped
  <2>1. pin' = 0 /\ current_tone_hz' = 0 /\ buzzer_state' = FALSE
    BY <1>6, Written, Tones DEF PlayStopped, SilenceOutput
  <2>2. QED
    BY <1>6, <2>1, Tones, ZenonT(60) DEF PlayStopped, SilenceOutput, managerVars,
      workerVars, histVars
<1>7. CASE PlayEnds
  BY <1>7 DEF PlayEnds, managerVars, workerVars, threadVars, outputVars, histVars
<1>8. CASE DelayStep
  <2>1. left' \in 0..MaxSteps
    BY <1>8 DEF DelayStep
  <2>2. QED
    BY <1>8, <2>1 DEF DelayStep, managerVars, workerVars, outputVars, histVars
<1>9. CASE DelayEnds
  BY <1>9 DEF DelayEnds, managerVars, workerVars, threadVars, outputVars, histVars
<1>10. CASE End
  <2>1. pin' = 0 /\ current_tone_hz' = 0 /\ buzzer_state' = FALSE
    BY <1>10, Written, Tones DEF End, SilenceOutput
  <2>2. TypeOK'
    <3>1. {current_tone_hz', pin'} \subseteq Pitch \cup {0, DefaultTone}
      BY <2>1
    <3>2. notes' \in 0..MaxNotes /\ left' \in 0..MaxSteps
      BY <1>10 DEF End, SilenceOutput, Return, managerVars, workerVars
    <3>3. QED
      BY <1>10, <2>1, <3>1, <3>2, ZenonT(60) DEF End, SilenceOutput, Return,
        managerVars, workerVars
  <2>3. TaskInv'
    BY <1>10, <2>1, Tones DEF End, SilenceOutput, Return, managerVars, workerVars
  <2>4. OutputInv' /\ DownInv'
    BY <1>10, <2>1, Tones DEF End, SilenceOutput, Return, managerVars, workerVars
  <2>5. QED
    BY <2>2, <2>3, <2>4
<1>11. QED
  BY <1>1, <1>2, <1>3, <1>4, <1>5, <1>6, <1>7, <1>8, <1>9, <1>10

LEMMA NextIInv == BaseInv /\ [Next]_vars => BaseInv'
<1> SUFFICES ASSUME BaseInv, [Next]_vars PROVE BaseInv'
  OBVIOUS
<1>1. CASE Rest \/ UNCHANGED vars
  BY <1>1 DEF Rest, vars, managerVars, workerVars, threadVars, outputVars,
    histVars, BaseInv, TypeOK, TaskInv, OutputInv, DownInv
<1>2. CASE WorkerStep
  BY <1>2, TaskBeginsStep, MusicStep DEF WorkerStep
<1>3. QED
  BY <1>1, <1>2, SubmissionStep, MainThreadStep
    DEF Next, MainStep, SegmentStep

-----------------------------------------------------------------------------
(* The tasks of BUZZER ON, and what BUZZER OFF leaves *)

LEMMA InitQuiet == Init => OnInv /\ QuietInv
BY DEF Init, OnInv, QuietInv

(* The thread that submits a task is not one that waits; if it then waits, *)
(* it is for this task.                                                    *)
LEMMA SubmitQuiet ==
  ASSUME BaseInv, OnInv, QuietInv, NEW t \in Task, NEW k, Submit(t, k),
         pc # "await" \/ UNCHANGED <<pc, mtask>>,
         k = "on" => pc' = "await" /\ mtask' = t,
         pc # "await" /\ k # "on" => pc' # "await"
  PROVE  OnInv' /\ QuietInv'
<1>1. /\ queue \in Seq(Task) /\ kind \in [Task -> Kind] /\ kind[t] = "unused"
      /\ active \in Task \cup {NoTask} /\ active # t /\ active' = active
      /\ queue' = Append(queue, t) /\ kind' = [kind EXCEPT ![t] = k] /\ quiet' = "no"
  BY DEF Submit, BaseInv, TypeOK, TaskInv, threadVars
<1>2. /\ Len(queue) \in Nat /\ Len(queue') = Len(queue) + 1
      /\ \A i \in 1..Len(queue) : queue'[i] = queue[i] /\ queue[i] \in Task
      /\ queue'[Len(queue) + 1] = t
  BY <1>1, AppendFacts
<1>3. \A i \in 1..Len(queue) : queue[i] # t
  BY <1>1 DEF BaseInv, TaskInv
<1>4. kind'[t] = k /\ \A u \in Task \ {t} : kind'[u] = kind[u]
  BY <1>1
<1>5. ASSUME NEW i \in 1..Len(queue'), kind'[queue'[i]] = "on"
      PROVE  pc' = "await" /\ queue'[i] = mtask'
  <2>1. CASE i \in 1..Len(queue)
    <3>1. kind[queue[i]] = "on" /\ queue'[i] = queue[i]
      BY <1>2, <1>3, <1>4, <1>5, <2>1
    <3>2. QED
      BY <2>1, <3>1 DEF OnInv
  <2>2. CASE i \notin 1..Len(queue)
    <3>1. i = Len(queue) + 1
      BY <1>2, <2>2
    <3>2. QED
      BY <1>2, <1>4, <1>5, <3>1
  <2>3. QED
    BY <2>1, <2>2
<1>6. active' # NoTask /\ kind'[active'] = "on" => pc' = "await" /\ active' = mtask'
  BY <1>1, <1>4 DEF OnInv
<1>7. QED
  BY <1>1, <1>5, <1>6 DEF OnInv, QuietInv

LEMMA MainQuiet ==
  ASSUME BaseInv, OnInv, QuietInv,
         \/ \E t \in Task : BuzzerMusic(t) \/ BuzzerOn(t) \/ BeepSubmitted(t)
         \/ BeepChecked \/ BeepFails \/ BuzzerOnReturns
         \/ BuzzerOffCancel \/ BuzzerOffWrite \/ CleanupBegins
         \/ SegmentJoined \/ StopOff \/ StopCancel \/ StopWorker
         \/ WorkerJoined \/ Unload
  PROVE  OnInv' /\ QuietInv'
<1>1. ASSUME NEW t \in Task, BuzzerMusic(t) PROVE OnInv' /\ QuietInv'
  BY <1>1, SubmitQuiet DEF BuzzerMusic, managerVars
<1>2. ASSUME NEW t \in Task, BuzzerOn(t) PROVE OnInv' /\ QuietInv'
  BY <1>2, SubmitQuiet DEF BuzzerOn
<1>3. ASSUME NEW t \in Task, BeepSubmitted(t) PROVE OnInv' /\ QuietInv'
  BY <1>3, SubmitQuiet DEF BeepSubmitted
<1>4. CASE BuzzerOnReturns
  <2>1. /\ queue \in Seq(Task) /\ mtask \notin Range(queue) \cup {active}
        /\ pc' = "idle" /\ UNCHANGED <<workerVars, threadVars, histVars>>
    BY <1>4 DEF BuzzerOnReturns, BaseInv, TypeOK
  <2>2. \A i \in 1..Len(queue) : queue[i] # mtask
    BY <2>1 DEF Range
  <2>3. /\ pc = "await" /\ mtask # active
        /\ UNCHANGED <<queue, kind, active, quiet, held>>
    BY <1>4, <2>1 DEF BuzzerOnReturns, workerVars, threadVars, histVars
  <2>4. OnInv'
    BY <2>2, <2>3 DEF OnInv
  <2>5. QuietInv'
    BY <2>1, <2>3 DEF QuietInv
  <2>6. QED
    BY <2>4, <2>5
<1>5. CASE BuzzerOffCancel \/ StopCancel
  <2>1. /\ queue' = << >> /\ Len(queue') = 0 /\ pc # "await"
        /\ pc' \in {"off", "stopWorker"} /\ UNCHANGED <<mtask, kind, threadVars>>
        /\ \/ quiet' = "called" /\ pc' = "off"
           \/ UNCHANGED histVars
    BY <1>5 DEF BuzzerOffCancel, StopCancel
  <2>2. OnInv'
    BY <2>1 DEF OnInv, threadVars
  <2>3. QuietInv'
    BY <1>5, <2>1, <2>2 DEF QuietInv, histVars, BuzzerOffCancel, StopCancel
  <2>4. QED
    BY <2>2, <2>3
<1>6. CASE BuzzerOffWrite \/ StopOff \/ Unload
  <2>1. /\ pc \in {"off", "stopOff", "unload"} /\ pc' \in {"idle", "stopCancel", "down"}
        /\ UNCHANGED <<mtask, workerVars, threadVars>> /\ held' = FALSE
        /\ \/ quiet' = quiet /\ pc # "off"
           \/ quiet' = "no"
           \/ quiet' = "yes" /\ quiet = "called"
    BY <1>6 DEF BuzzerOffWrite, StopOff, Unload, StopPlayback
  <2>2. QED
    BY <2>1 DEF OnInv, QuietInv, workerVars, threadVars
<1>7. CASE BeepChecked \/ BeepFails
  BY <1>7 DEF BeepChecked, BeepFails, OnInv, QuietInv, workerVars, threadVars, histVars
<1>8. CASE CleanupBegins \/ SegmentJoined \/ StopWorker \/ WorkerJoined
  <2>1. /\ pc \notin {"await", "off"} /\ pc' \notin {"await", "off"}
        /\ UNCHANGED <<queue, kind, threadVars, histVars>>
    BY <1>8 DEF CleanupBegins, SegmentJoined, StopWorker, WorkerJoined, workerVars
  <2>2. QED
    BY <2>1 DEF OnInv, QuietInv, threadVars, histVars
<1>9. QED
  BY <1>1, <1>2, <1>3, <1>4, <1>5, <1>6, <1>7, <1>8

LEMMA WorkerQuiet ==
  ASSUME BaseInv, OnInv, QuietInv, WorkerStep
  PROVE  OnInv' /\ QuietInv'
<1>1. CASE Fetch
  <2>1. /\ queue \in Seq(Task) /\ queue # << >> /\ active' = Head(queue)
        /\ queue' = Tail(queue) /\ UNCHANGED <<pc, mtask, kind, quiet, held>>
    BY <1>1 DEF Fetch, BaseInv, TypeOK, managerVars, histVars
  <2>2. /\ Len(queue) \in Nat \ {0} /\ active' = queue[1]
        /\ Len(queue') = Len(queue) - 1
        /\ \A i \in 1..Len(queue') : queue'[i] = queue[i + 1]
    BY <2>1, TailFacts
  <2>3. \A i \in 1..Len(queue') : i + 1 \in 1..Len(queue)
    BY <2>2
  <2>4. 1 \in 1..Len(queue)
    BY <2>2
  <2>5. OnInv'
    BY <2>1, <2>2, <2>3, <2>4 DEF OnInv
  <2>6. QuietInv'
    BY <2>1 DEF QuietInv
  <2>7. QED
    BY <2>5, <2>6
<1>2. CASE RunOn
  <2>1. pc = "await" /\ active' = NoTask
    BY <1>2 DEF RunOn, Return, OnInv, BaseInv, TaskInv
  <2>2. quiet = "no" /\ UNCHANGED <<queue, kind, pc, mtask, quiet>>
    BY <1>2, <2>1 DEF RunOn, QuietInv, managerVars, workerVars
  <2>3. QED
    BY <2>1, <2>2 DEF OnInv, QuietInv
<1>3. CASE ~Fetch /\ ~RunOn
  <2>1. UNCHANGED <<queue, kind, pc, mtask, quiet>> /\ active' \in {active, NoTask}
    BY <1>3 DEF WorkerStep, Exit, RunBeep, RunMusic, MusicSilence, MusicLoadFails,
      MusicBuild, MusicBuildFails, PlayNote, PlayStopped, PlayEnds, DelayStep,
      DelayEnds, End, Return, managerVars, workerVars, histVars
  <2>2. held' = held \/ held' = FALSE
    BY <1>3 DEF WorkerStep, Exit, RunBeep, RunMusic, MusicSilence, MusicLoadFails,
      MusicBuild, MusicBuildFails, PlayNote, PlayStopped, PlayEnds, DelayStep,
      DelayEnds, End, histVars
  <2>3. QED
    BY <2>1, <2>2 DEF OnInv, QuietInv
<1>4. QED
  BY <1>1, <1>2, <1>3

LEMMA NextQuiet == BaseInv /\ OnInv /\ QuietInv /\ [Next]_vars => OnInv' /\ QuietInv'
<1> SUFFICES ASSUME BaseInv, OnInv, QuietInv, [Next]_vars PROVE OnInv' /\ QuietInv'
  OBVIOUS
<1>1. CASE Rest \/ UNCHANGED vars
  BY <1>1 DEF Rest, vars, managerVars, workerVars, threadVars, histVars, OnInv, QuietInv
<1>2. QED
  BY <1>1, MainQuiet, WorkerQuiet DEF Next, MainStep, SegmentStep

-----------------------------------------------------------------------------
(* What follows *)

(* IInv holds in every state, however the three threads interleave. *)
THEOREM Inductive == SafeSpec => []IInv
<1>1. BaseInv /\ OnInv /\ QuietInv => IInv
  BY DEF BaseInv, IInv
<1>2. QED
  BY <1>1, InitIInv, InitQuiet, NextIInv, NextQuiet, PTL DEF SafeSpec

(* Every variable keeps its type: no thread runs a task that is none, no   *)
(* remaining time and no number of notes goes below 0.                     *)
THEOREM TypeCorrect == SafeSpec => []TypeOK
<1>1. IInv => TypeOK
  BY DEF IInv
<1>2. QED
  BY <1>1, Inductive, PTL

(* A task that was told to stop after it had begun is silent until it ends. *)
THEOREM StoppedIsSilent == SafeSpec => []StoppedTaskIsSilent
<1>1. IInv => StoppedTaskIsSilent
  BY DEF IInv, OutputInv, StoppedTaskIsSilent
<1>2. QED
  BY <1>1, Inductive, PTL

(* Between two tasks the pin sounds exactly if BUZZER ON left it so.       *)
THEOREM NoToneLeft == SafeSpec => []NoStuckTone
<1>1. IInv => NoStuckTone
  BY DEF IInv, OutputInv, NoStuckTone
<1>2. QED
  BY <1>1, Inductive, PTL

(* The state that STATUS reports is what the pin does.                     *)
THEOREM StatusTruthful == SafeSpec => []StatusIsTruthful
<1>1. IInv => StatusIsTruthful
  BY DEF IInv, OutputInv, StatusIsTruthful
<1>2. QED
  BY <1>1, Inductive, PTL

(* The plugin is unloaded only when no thread can enter it, and the pin is *)
(* then silent.                                                            *)
THEOREM UnloadedIsQuiet == SafeSpec => []NothingRunsAfterUnload
<1>1. IInv => NothingRunsAfterUnload
  BY DEF IInv, TaskInv, DownInv, NothingRunsAfterUnload
<1>2. QED
  BY <1>1, Inductive, PTL

(* After BUZZER OFF, and until a task is submitted, nothing waits for the  *)
(* worker, and what sounds is the one melody or beep that has not been     *)
(* told to stop.                                                           *)
OffAtMostLate ==
  quiet = "yes" =>
    /\ queue = << >>
    /\ pin # 0 => active \notin told \cup {NoTask} /\ kind[active] # "on"

(* So wrong can OffSilences be, and no more: after BUZZER OFF one task at  *)
(* most is heard, the one that the worker had taken and not begun; nothing *)
(* that was queued, nothing that had begun, and no BUZZER ON.              *)
THEOREM OffIsAtMostLate == SafeSpec => []OffAtMostLate
<1>1. IInv => OffAtMostLate
  BY DEF IInv, OutputInv, OnInv, QuietInv, OffAtMostLate
<1>2. QED
  BY <1>1, Inductive, PTL

=============================================================================
