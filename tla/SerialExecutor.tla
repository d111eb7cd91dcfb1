--------------------------- MODULE SerialExecutor ---------------------------
(***************************************************************************)
(* What a DeviceWorker promises its callers, without threads, locks, lists *)
(* or memory: tasks are admitted to a queue, run one at a time in the      *)
(* order of their admission, and each ends with exactly one outcome, the   *)
(* result of its run or the cancellation.  A synchronous submission is     *)
(* answered with the outcome of its own task; an asynchronous one is       *)
(* answered OK on admission.                                               *)
(***************************************************************************)
EXTENDS Sequences, Functions, DeviceResult

CONSTANTS Task,         \* the submissions
          NoTask        \* no task, not one of them

VARIABLES queue,        \* the admitted tasks that wait for their turn
          active,       \* the task being run, or NoTask
          withdrawn,    \* the tasks taken off the queue to be cancelled
          outcome,      \* how each task ended, "none" until then
          reply         \* what its submitter was told, "none" until then

vars == <<queue, active, withdrawn, outcome, reply>>

Verdict == DeviceResult \cup {"none"}

(* A task nobody has submitted yet. *)
Fresh(t) ==
  /\ t \notin Range(queue) \cup withdrawn \cup {active}
  /\ outcome[t] = "none" /\ reply[t] = "none"

Init ==
  /\ queue = << >> /\ active = NoTask /\ withdrawn = {}
  /\ outcome = [t \in Task |-> "none"]
  /\ reply = [t \in Task |-> "none"]

Admit(t, sync) ==
  /\ Fresh(t)
  /\ queue' = Append(queue, t)
  /\ reply' = IF sync THEN reply ELSE [reply EXCEPT ![t] = "OK"]
  /\ UNCHANGED <<active, withdrawn, outcome>>

Refuse(t) ==
  /\ Fresh(t)
  /\ \E e \in DeviceResult \ {"OK"} : reply' = [reply EXCEPT ![t] = e]
  /\ UNCHANGED <<queue, active, withdrawn, outcome>>

StartNext ==
  /\ active = NoTask /\ queue # << >>
  /\ active' = Head(queue) /\ queue' = Tail(queue)
  /\ UNCHANGED <<withdrawn, outcome, reply>>

Finish ==
  /\ active # NoTask
  /\ \E r \in DeviceResult : outcome' = [outcome EXCEPT ![active] = r]
  /\ active' = NoTask
  /\ UNCHANGED <<queue, withdrawn, reply>>

(* Everything that waits is withdrawn at once; the task being run is not. *)
Withdraw ==
  /\ withdrawn = {}
  /\ withdrawn' = Range(queue) /\ queue' = << >>
  /\ UNCHANGED <<active, outcome, reply>>

Cancel(t) ==
  /\ t \in withdrawn
  /\ withdrawn' = withdrawn \ {t}
  /\ outcome' = [outcome EXCEPT ![t] = "CANCELLED"]
  /\ UNCHANGED <<queue, active, reply>>

Answer(t) ==
  /\ outcome[t] # "none" /\ reply[t] = "none"
  /\ reply' = [reply EXCEPT ![t] = outcome[t]]
  /\ UNCHANGED <<queue, active, withdrawn, outcome>>

Next ==
  \/ StartNext \/ Finish \/ Withdraw
  \/ \E t \in Task :
       \/ \E sync \in BOOLEAN : Admit(t, sync)
       \/ Refuse(t) \/ Cancel(t) \/ Answer(t)

SafeSpec == Init /\ [][Next]_vars

(* The executor never rests while it has something to run, to finish, to   *)
(* cancel or to answer.                                                    *)
Spec ==
  /\ SafeSpec
  /\ WF_vars(StartNext) /\ WF_vars(Finish)
  /\ \A t \in Task : WF_vars(Cancel(t)) /\ WF_vars(Answer(t))

=============================================================================
