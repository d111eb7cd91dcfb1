---------------------------- MODULE DeviceWorker ----------------------------
(***************************************************************************)
(* One DeviceWorker of server/device/device_worker.c: a thread that runs   *)
(* the tasks of a linked list, the calls that submit, cancel and stop, and *)
(* the ownership of every task and of its context.                         *)
(*                                                                         *)
(* A critical section of worker->lock or task->lock is one action.  What   *)
(* the code does outside a lock on memory that another thread may reach    *)
(* (running a task, reading list->next of a detached list, destroying a    *)
(* task) is an action of its own.  A thread blocked in pthread_cond_wait   *)
(* is a program-counter value that only a signal, a broadcast or a         *)
(* spurious wakeup leaves, so a lost signal is a behaviour of the model.   *)
(*                                                                         *)
(* Every submission carries a context and a cleanup callback; the ones the *)
(* device manager makes without a cleanup are the same calls minus a free. *)
(***************************************************************************)
EXTENDS Naturals, Sequences, Functions, DeviceResult

CONSTANTS
  Task,            \* the DeviceTask objects that may be allocated
  Caller,          \* the threads that call the worker
  Owner,           \* the caller that starts, cancels and stops
  NoTask,          \* the NULL DeviceTask pointer
  CallersJoined    \* TRUE: as in device_manager.c, the other callers have
                   \* been joined before the owner stops the worker

ASSUME DeviceWorkerConstants ==
  /\ NoTask \notin Task
  /\ Owner \in Caller
  /\ CallersJoined \in BOOLEAN

VARIABLES
  started, running, head, tail,        \* the DeviceWorker structure
  wpc, wtask, wresult,                 \* the worker thread: pc, task, result
  mem, next, wait, done, result,       \* the DeviceTask structures
  ctx,                                 \* the context of each task
  pc, ctask, cnext,                    \* the callers: pc, task, next
  reply,                               \* what device_worker_submit returned
  pending, detached, phase, outcome    \* history: no guard reads these

workerVars == <<started, running, head, tail>>
threadVars == <<wpc, wtask, wresult>>
taskVars == <<mem, next, wait, done, result, ctx>>
callVars == <<pc, ctask, cnext, reply>>
histVars == <<pending, detached, phase, outcome>>
vars == <<workerVars, threadVars, taskVars, callVars, histVars>>

(* What the run function of a task may return: success or an error.        *)
RunResult == {"OK", "DEVICE_FAILED"}

Verdict == DeviceResult \cup {"none"}

WorkerPC == {"down", "top", "waiting", "run", "finish", "exited"}

CallPC == {"idle", "enqueue", "await", "blocked", "release",
           "cancel", "cancelTask", "join"}

Phase == {"new", "refused", "created", "queued", "running", "ran",
          "detached", "done"}

Allocation == {"unused", "live", "freed", "double"}

-----------------------------------------------------------------------------
Init ==
  /\ started = FALSE /\ running = FALSE /\ head = NoTask /\ tail = NoTask
  /\ wpc = "down" /\ wtask = NoTask /\ wresult = "OK"
  /\ mem = [t \in Task |-> "unused"]
  /\ next = [t \in Task |-> NoTask]
  /\ wait = [t \in Task |-> FALSE]
  /\ done = [t \in Task |-> FALSE]
  /\ result = [t \in Task |-> "OK"]
  /\ ctx = [t \in Task |-> "unused"]
  /\ pc = [c \in Caller |-> "idle"]
  /\ ctask = [c \in Caller |-> NoTask]
  /\ cnext = [c \in Caller |-> NoTask]
  /\ reply = [t \in Task |-> "none"]
  /\ pending = << >> /\ detached = << >>
  /\ phase = [t \in Task |-> "new"]
  /\ outcome = [t \in Task |-> "none"]

(* free() of a block: a second free of the same block is recorded. *)
Freed(a) == IF a = "live" THEN "freed" ELSE "double"

(* cleanup(context) and destroy_task(task) *)
Release(t) ==
  /\ ctx' = [ctx EXCEPT ![t] = Freed(@)]
  /\ mem' = [mem EXCEPT ![t] = Freed(@)]

(* A task nobody waits for belongs to whoever ends it; one that has a      *)
(* waiting submitter belongs to the submitter.                             *)
EnderOwnsAll(t) == TRUE         \* mutant: the ender frees every task
EnderOwns(t) == ~wait[t]

(* pthread_cond_signal(&worker->cond): only the worker thread waits on it. *)
SignalsNobody == wpc' = wpc     \* mutant: the signal is forgotten
SignalWorker == wpc' = IF wpc = "waiting" THEN "top" ELSE wpc

(* The callers' program counters once pthread_cond_signal(&task->cond) has *)
(* woken the submitter of the task, if it is blocked.                      *)
SignalForgotten(t) == pc        \* mutant
SubmitterSignalled(t) ==
  [c \in Caller |->
     IF pc[c] = "blocked" /\ ctask[c] = t THEN "await" ELSE pc[c]]

(* The tail once the head has become h. *)
TailKept(h) == tail             \* mutant: the tail is never reset
TailFor(h) == IF h = NoTask THEN NoTask ELSE tail

-----------------------------------------------------------------------------
(* device_worker_start *)

StartWorker ==
  /\ pc[Owner] = "idle" /\ wpc = "down"
  /\ started' = TRUE /\ running' = TRUE /\ head' = NoTask /\ tail' = NoTask
  /\ wpc' = "top"
  /\ UNCHANGED <<wtask, wresult, taskVars, callVars, histVars>>

(* The lock, the condition variable or the thread cannot be created:       *)
(* running stays set, started does not become so.                          *)
StartWorkerFails ==
  /\ pc[Owner] = "idle" /\ wpc = "down"
  /\ started' = FALSE /\ running' = TRUE /\ head' = NoTask /\ tail' = NoTask
  /\ UNCHANGED <<threadVars, taskVars, callVars, histVars>>

-----------------------------------------------------------------------------
(* device_worker_submit *)

(* Caller c can make a call: it is in none, and it has not been joined.    *)
MayCall(c) ==
  /\ pc[c] = "idle"
  /\ (CallersJoined /\ c # Owner) => running

(* The worker is not started, or create_task fails: the context is         *)
(* released and there is no task.                                          *)
SubmitFails(c, t) ==
  /\ MayCall(c) /\ phase[t] = "new"
  /\ ctx' = [ctx EXCEPT ![t] = "freed"]
  /\ reply' = [reply EXCEPT ![t] =
                 IF started THEN "DEVICE_FAILED" ELSE "THREAD_FAILED"]
  /\ phase' = [phase EXCEPT ![t] = "refused"]
  /\ UNCHANGED <<workerVars, threadVars, mem, next, wait, done, result,
                 pc, ctask, cnext, pending, detached, outcome>>

SubmitCreate(c, t, w) ==
  /\ MayCall(c) /\ phase[t] = "new"
  /\ started
  /\ mem' = [mem EXCEPT ![t] = "live"]
  /\ ctx' = [ctx EXCEPT ![t] = "live"]
  /\ wait' = [wait EXCEPT ![t] = w]
  /\ pc' = [pc EXCEPT ![c] = "enqueue"]
  /\ ctask' = [ctask EXCEPT ![c] = t]
  /\ phase' = [phase EXCEPT ![t] = "created"]
  /\ UNCHANGED <<workerVars, threadVars, next, done, result, cnext, reply,
                 pending, detached, outcome>>

(* Mutant: the rejected submission forgets cleanup(context). *)
SubmitRejectedKeepsContext(c) ==
  LET t == ctask[c] IN
  /\ pc[c] = "enqueue" /\ ~running
  /\ mem' = [mem EXCEPT ![t] = Freed(@)]
  /\ reply' = [reply EXCEPT ![t] = "THREAD_FAILED"]
  /\ pc' = [pc EXCEPT ![c] = "idle"]
  /\ ctask' = [ctask EXCEPT ![c] = NoTask]
  /\ phase' = [phase EXCEPT ![t] = "refused"]
  /\ UNCHANGED <<workerVars, threadVars, next, wait, done, result, ctx, cnext,
                 pending, detached, outcome>>

(* Under worker->lock the worker turns out to be stopping. *)
SubmitRejected(c) ==
  LET t == ctask[c] IN
  /\ pc[c] = "enqueue" /\ ~running
  /\ Release(t)
  /\ reply' = [reply EXCEPT ![t] = "THREAD_FAILED"]
  /\ pc' = [pc EXCEPT ![c] = "idle"]
  /\ ctask' = [ctask EXCEPT ![c] = NoTask]
  /\ phase' = [phase EXCEPT ![t] = "refused"]
  /\ UNCHANGED <<workerVars, threadVars, next, wait, done, result, cnext,
                 pending, detached, outcome>>

(* Links the task behind the tail and signals the worker; an asynchronous  *)
(* call returns OK.                                                        *)
SubmitEnqueue(c) ==
  LET t == ctask[c] IN
  /\ pc[c] = "enqueue" /\ running
  /\ IF tail = NoTask
       THEN head' = t /\ next' = next
       ELSE head' = head /\ next' = [next EXCEPT ![tail] = t]
  /\ tail' = t
  /\ SignalWorker
  /\ IF wait[t]
       THEN /\ pc' = [pc EXCEPT ![c] = "await"]
            /\ UNCHANGED <<ctask, reply>>
       ELSE /\ pc' = [pc EXCEPT ![c] = "idle"]
            /\ ctask' = [ctask EXCEPT ![c] = NoTask]
            /\ reply' = [reply EXCEPT ![t] = "OK"]
  /\ pending' = Append(pending, t)
  /\ phase' = [phase EXCEPT ![t] = "queued"]
  /\ UNCHANGED <<started, running, wtask, wresult, mem, wait, done, result,
                 ctx, cnext, detached, outcome>>

(* while (!task->done) pthread_cond_wait(...) *)
AwaitBlock(c) ==
  /\ pc[c] = "await" /\ ~done[ctask[c]]
  /\ pc' = [pc EXCEPT ![c] = "blocked"]
  /\ UNCHANGED <<workerVars, threadVars, taskVars, ctask, cnext, reply,
                 histVars>>

(* Mutant: `if` for `while`, any wakeup is taken for the completion. *)
AwaitAnyWakeup(c) ==
  /\ pc[c] = "await"
  /\ reply' = [reply EXCEPT ![ctask[c]] = result[ctask[c]]]
  /\ pc' = [pc EXCEPT ![c] = "release"]
  /\ UNCHANGED <<workerVars, threadVars, taskVars, ctask, cnext, histVars>>

AwaitDone(c) ==
  /\ pc[c] = "await" /\ done[ctask[c]]
  /\ reply' = [reply EXCEPT ![ctask[c]] = result[ctask[c]]]
  /\ pc' = [pc EXCEPT ![c] = "release"]
  /\ UNCHANGED <<workerVars, threadVars, taskVars, ctask, cnext, histVars>>

SubmitterWakesSpuriously(c) ==
  /\ pc[c] = "blocked"
  /\ pc' = [pc EXCEPT ![c] = "await"]
  /\ UNCHANGED <<workerVars, threadVars, taskVars, ctask, cnext, reply,
                 histVars>>

(* A synchronous submitter releases the context and destroys the task. *)
SubmitRelease(c) ==
  LET t == ctask[c] IN
  /\ pc[c] = "release"
  /\ Release(t)
  /\ pc' = [pc EXCEPT ![c] = "idle"]
  /\ ctask' = [ctask EXCEPT ![c] = NoTask]
  /\ UNCHANGED <<workerVars, threadVars, next, wait, done, result, cnext,
                 reply, histVars>>

-----------------------------------------------------------------------------
(* device_worker_loop *)

WorkerWait ==
  /\ wpc = "top" /\ running /\ head = NoTask
  /\ wpc' = "waiting"
  /\ UNCHANGED <<workerVars, wtask, wresult, taskVars, callVars, histVars>>

WorkerWakesSpuriously ==
  /\ wpc = "waiting"
  /\ wpc' = "top"
  /\ UNCHANGED <<workerVars, wtask, wresult, taskVars, callVars, histVars>>

(* Mutant: the worker leaves without running what is queued. *)
WorkerExitAtOnce ==
  /\ wpc = "top" /\ ~running
  /\ wpc' = "exited"
  /\ UNCHANGED <<workerVars, wtask, wresult, taskVars, callVars, histVars>>

WorkerExit ==
  /\ wpc = "top" /\ ~running /\ head = NoTask
  /\ wpc' = "exited"
  /\ UNCHANGED <<workerVars, wtask, wresult, taskVars, callVars, histVars>>

(* Unlinks the head, whether or not the worker is being stopped. *)
WorkerTake ==
  /\ wpc = "top" /\ head # NoTask
  /\ wtask' = head /\ wpc' = "run"
  /\ head' = next[head]
  /\ tail' = TailFor(next[head])
  /\ pending' = Tail(pending)
  /\ phase' = [phase EXCEPT ![head] = "running"]
  /\ UNCHANGED <<started, running, wresult, taskVars, callVars, detached,
                 outcome>>

(* task->run(task->context) returns. *)
WorkerRan(r) ==
  /\ wpc = "run"
  /\ wresult' = r /\ wpc' = "finish"
  /\ phase' = [phase EXCEPT ![wtask] = "ran"]
  /\ outcome' = [outcome EXCEPT ![wtask] = r]
  /\ UNCHANGED <<workerVars, wtask, taskVars, callVars, pending, detached>>

(* The submitter is waiting: hand it the result; the task is its to free.  *)
WorkerComplete ==
  /\ wpc = "finish" /\ ~EnderOwns(wtask)
  /\ result' = [result EXCEPT ![wtask] = wresult]
  /\ done' = [done EXCEPT ![wtask] = TRUE]
  /\ pc' = SubmitterSignalled(wtask)
  /\ wpc' = "top" /\ wtask' = NoTask
  /\ phase' = [phase EXCEPT ![wtask] = "done"]
  /\ UNCHANGED <<workerVars, wresult, mem, next, wait, ctx, ctask, cnext,
                 reply, pending, detached, outcome>>

(* Nobody is waiting: the worker releases the context and the task. *)
WorkerDiscard ==
  /\ wpc = "finish" /\ EnderOwns(wtask)
  /\ Release(wtask)
  /\ wpc' = "top" /\ wtask' = NoTask
  /\ phase' = [phase EXCEPT ![wtask] = "done"]
  /\ UNCHANGED <<workerVars, wresult, next, wait, done, result, callVars,
                 pending, detached, outcome>>

-----------------------------------------------------------------------------
(* device_worker_cancel_pending *)

CancelDetach ==
  /\ pc[Owner] = "idle" /\ started
  /\ ctask' = [ctask EXCEPT ![Owner] = head]
  /\ head' = NoTask /\ tail' = NoTask
  /\ pc' = [pc EXCEPT ![Owner] = "cancel"]
  /\ detached' = pending /\ pending' = << >>
  /\ phase' = [t \in Task |->
                 IF phase[t] = "queued" THEN "detached" ELSE phase[t]]
  /\ UNCHANGED <<started, running, threadVars, taskVars, cnext, reply,
                 outcome>>

(* next = task->next; task->next = NULL *)
CancelUnlink ==
  LET t == ctask[Owner] IN
  /\ pc[Owner] = "cancel" /\ t # NoTask
  /\ cnext' = [cnext EXCEPT ![Owner] = next[t]]
  /\ next' = [next EXCEPT ![t] = NoTask]
  /\ pc' = [pc EXCEPT ![Owner] = "cancelTask"]
  /\ UNCHANGED <<workerVars, threadVars, mem, wait, done, result, ctx,
                 ctask, reply, histVars>>

(* cancel_task(task, CANCELLED); task = next *)
CancelTask ==
  LET t == ctask[Owner] IN
  /\ pc[Owner] = "cancelTask"
  /\ IF EnderOwns(t)
       THEN /\ Release(t)
            /\ pc' = [pc EXCEPT ![Owner] = "cancel"]
            /\ UNCHANGED <<done, result>>
       ELSE /\ result' = [result EXCEPT ![t] = "CANCELLED"]
            /\ done' = [done EXCEPT ![t] = TRUE]
            /\ pc' = [SubmitterSignalled(t) EXCEPT ![Owner] = "cancel"]
            /\ UNCHANGED <<mem, ctx>>
  /\ ctask' = [ctask EXCEPT ![Owner] = cnext[Owner]]
  /\ cnext' = [cnext EXCEPT ![Owner] = NoTask]
  /\ detached' = Tail(detached)
  /\ phase' = [phase EXCEPT ![t] = "done"]
  /\ outcome' = [outcome EXCEPT ![t] = "CANCELLED"]
  /\ UNCHANGED <<workerVars, threadVars, next, wait, reply, pending>>

CancelReturns ==
  /\ pc[Owner] = "cancel" /\ ctask[Owner] = NoTask
  /\ pc' = [pc EXCEPT ![Owner] = "idle"]
  /\ UNCHANGED <<workerVars, threadVars, taskVars, ctask, cnext, reply,
                 histVars>>

-----------------------------------------------------------------------------
(* device_worker_stop *)

(* Under worker->lock: running = false, and the worker is woken. *)
StopBegin ==
  /\ pc[Owner] = "idle" /\ started
  /\ CallersJoined => \A c \in Caller \ {Owner} : pc[c] = "idle"
  /\ running' = FALSE
  /\ SignalWorker
  /\ pc' = [pc EXCEPT ![Owner] = "join"]
  /\ UNCHANGED <<started, head, tail, wtask, wresult, taskVars, ctask, cnext,
                 reply, histVars>>

(* pthread_join returns; the lock and the condition variable are destroyed. *)
(* A caller still on its way to the lock would find it destroyed, which has *)
(* no defined outcome: when callers are not joined first (CallersJoined is  *)
(* FALSE) the model assumes that they have all got past the lock by then.   *)
StopReturns ==
  /\ pc[Owner] = "join" /\ wpc = "exited"
  /\ ~CallersJoined => \A c \in Caller : pc[c] # "enqueue"
  /\ started' = FALSE
  /\ pc' = [pc EXCEPT ![Owner] = "idle"]
  /\ UNCHANGED <<running, head, tail, threadVars, taskVars, ctask, cnext,
                 reply, histVars>>

-----------------------------------------------------------------------------
(* The worker is stopped, every call has returned and no task is left to   *)
(* submit: the bounded model rests here, so that any other state without a *)
(* successor is a deadlock of the code.                                    *)
Rest ==
  /\ wpc = "exited" /\ ~started
  /\ \A c \in Caller : pc[c] = "idle"
  /\ \A t \in Task : phase[t] # "new"
  /\ UNCHANGED vars

WorkerStep ==
  \/ WorkerWait \/ WorkerExit \/ WorkerTake
  \/ WorkerComplete \/ WorkerDiscard
  \/ \E r \in RunResult : WorkerRan(r)

(* The steps of a call that has begun. *)
SubmitStep(c) ==
  \/ SubmitRejected(c) \/ SubmitEnqueue(c)
  \/ AwaitBlock(c) \/ AwaitDone(c) \/ SubmitRelease(c)

OwnerStep ==
  \/ CancelUnlink \/ CancelTask \/ CancelReturns
  \/ StopReturns

Next ==
  \/ StartWorker \/ StartWorkerFails
  \/ \E c \in Caller, t \in Task :
       \/ SubmitFails(c, t)
       \/ \E w \in BOOLEAN : SubmitCreate(c, t, w)
  \/ \E c \in Caller : SubmitStep(c) \/ SubmitterWakesSpuriously(c)
  \/ WorkerStep \/ WorkerWakesSpuriously
  \/ CancelDetach \/ OwnerStep
  \/ StopBegin
  \/ Rest

SafeSpec == Init /\ [][Next]_vars

(* The scheduler runs every thread that can run, and every run function    *)
(* returns (the LED and the light sensor write or read a pin, a beep has a *)
(* duration and a melody has an end).  No call is ever obliged to begin.   *)
Spec ==
  /\ SafeSpec
  /\ WF_vars(WorkerStep)
  /\ WF_vars(OwnerStep)
  /\ \A c \in Caller : WF_vars(SubmitStep(c))

-----------------------------------------------------------------------------
(* Properties *)

TypeOK ==
  /\ started \in BOOLEAN /\ running \in BOOLEAN
  /\ head \in Task \cup {NoTask} /\ tail \in Task \cup {NoTask}
  /\ wpc \in WorkerPC /\ wtask \in Task \cup {NoTask}
  /\ wresult \in RunResult
  /\ mem \in [Task -> Allocation] /\ ctx \in [Task -> Allocation]
  /\ next \in [Task -> Task \cup {NoTask}]
  /\ wait \in [Task -> BOOLEAN] /\ done \in [Task -> BOOLEAN]
  /\ result \in [Task -> DeviceResult]
  /\ pc \in [Caller -> CallPC]
  /\ ctask \in [Caller -> Task \cup {NoTask}]
  /\ cnext \in [Caller -> Task \cup {NoTask}]
  /\ reply \in [Task -> Verdict] /\ outcome \in [Task -> Verdict]
  /\ pending \in Seq(Task) /\ detached \in Seq(Task)
  /\ phase \in [Task -> Phase]

(* The tasks of s are linked in this order, from h to a NULL next. *)
Chain(s, h) ==
  /\ h = IF s = << >> THEN NoTask ELSE s[1]
  /\ \A i \in 1..Len(s) :
       next[s[i]] = IF i = Len(s) THEN NoTask ELSE s[i + 1]

(* The list from worker->head holds exactly the tasks that are accepted and *)
(* not yet taken, in the order of their submission, and worker->tail is its *)
(* last one; what cancel_pending has detached is linked from its local      *)
(* pointer in the same way.  A stale head, tail or next loses tasks.        *)
ListRepresentsQueue ==
  /\ Chain(pending, head)
  /\ tail = IF pending = << >> THEN NoTask ELSE pending[Len(pending)]
  /\ pc[Owner] = "cancel" => Chain(detached, ctask[Owner])
  /\ pc[Owner] = "cancelTask" =>
       /\ detached # << >> /\ ctask[Owner] = Head(detached)
       /\ Chain(Tail(detached), cnext[Owner])

(* The caller holds a pointer to its own task. *)
Submitting(c) == pc[c] \in {"enqueue", "await", "blocked", "release"}

(* No block is freed twice, and every task a thread may still reach, in the *)
(* list, detached from it, being run or waited for, is allocated.  The run  *)
(* function of a synchronous task, which writes into its submitter's frame, *)
(* only runs while the submitter waits; and worker->lock exists whenever a  *)
(* caller is about to take it.                                              *)
MemorySafe ==
  /\ \A t \in Task : mem[t] # "double" /\ ctx[t] # "double"
  /\ \A t \in Range(pending) \cup Range(detached) : mem[t] = "live"
  /\ wpc \in {"run", "finish"} => mem[wtask] = "live" /\ ctx[wtask] = "live"
  /\ wpc \in {"run", "finish"} /\ wait[wtask] =>
       \E c \in Caller : pc[c] \in {"await", "blocked"} /\ ctask[c] = wtask
  /\ \A c \in Caller :
       /\ Submitting(c) => mem[ctask[c]] = "live" /\ ctx[ctask[c]] = "live"
       /\ pc[c] = "enqueue" => started

(* Every allocated task and context is reachable by the one thread that is  *)
(* to free it: the list, the detached list, the worker or the submitter     *)
(* holds it.  A path that drops a task or forgets its context leaks it.     *)
NoLeak ==
  \A t \in Task : "live" \in {mem[t], ctx[t]} =>
    \/ t \in Range(pending) \cup Range(detached)
    \/ wpc \in {"run", "finish"} /\ wtask = t
    \/ \E c \in Caller : Submitting(c) /\ ctask[c] = t

(* What holds in every state, in the parts that keep one another: where the *)
(* phase of a task says it is, there it is, and only there.                 *)

Distinct(s) == \A i, j \in 1..Len(s) : s[i] = s[j] => i = j

(* s holds exactly the tasks in phase p, each once. *)
Holds(s, p) ==
  /\ Distinct(s)
  /\ \A i \in 1..Len(s) : phase[s[i]] = p
  /\ \A t \in Task : phase[t] = p => \E i \in 1..Len(s) : s[i] = t

QueueInv ==
  /\ Holds(pending, "queued")
  /\ Chain(pending, head)
  /\ tail = IF pending = << >> THEN NoTask ELSE pending[Len(pending)]
  /\ wpc \in {"down", "exited"} => pending = << >>
  /\ \A t \in Task : phase[t] \in {"new", "created"} => next[t] = NoTask

CancelInv ==
  /\ Holds(detached, "detached")
  /\ pc[Owner] \notin {"cancel", "cancelTask"} => detached = << >>
  /\ pc[Owner] = "cancel" => Chain(detached, ctask[Owner])
  /\ pc[Owner] = "cancelTask" =>
       /\ detached # << >> /\ ctask[Owner] = detached[1]
       /\ Chain(Tail(detached), cnext[Owner])

WorkerInv ==
  /\ wpc \notin {"run", "finish"} => wtask = NoTask
  /\ wpc \in {"run", "finish"} => wtask \in Task
  /\ \A t \in Task :
       /\ phase[t] = "running" <=> wpc = "run" /\ wtask = t
       /\ phase[t] = "ran" <=> wpc = "finish" /\ wtask = t
  /\ wpc = "exited" => ~running
  /\ started => wpc # "down"
  /\ pc[Owner] = "join" => ~running

(* A submitter holds its task alone, and a synchronous one until the end.   *)
CallInv ==
  /\ \A c \in Caller :
       /\ Submitting(c) => ctask[c] \in Task
       /\ pc[c] = "enqueue" => phase[ctask[c]] = "created" /\ started
       /\ pc[c] \in {"await", "blocked", "release"} =>
            /\ wait[ctask[c]]
            /\ phase[ctask[c]] \notin {"new", "refused", "created"}
            /\ mem[ctask[c]] = "live" /\ ctx[ctask[c]] = "live"
       /\ pc[c] = "release" => phase[ctask[c]] = "done"
       /\ pc[c] \in {"cancel", "cancelTask", "join"} => c = Owner
       /\ CallersJoined /\ pc[Owner] = "join" /\ c # Owner => pc[c] = "idle"
  /\ \A c, d \in Caller :
       Submitting(c) /\ Submitting(d) /\ ctask[c] = ctask[d] => c = d

MemoryInv ==
  \A t \in Task :
    /\ phase[t] = "new" => mem[t] = "unused" /\ ctx[t] = "unused"
    /\ phase[t] = "refused" => mem[t] # "live" /\ ctx[t] # "live"
    /\ phase[t] \in {"created", "queued", "running", "ran", "detached"} =>
         mem[t] = "live" /\ ctx[t] = "live"
    /\ mem[t] # "double" /\ ctx[t] # "double"
    /\ phase[t] = "created" =>
         \E c \in Caller : pc[c] = "enqueue" /\ ctask[c] = t
    /\ phase[t] \in {"queued", "running", "ran", "detached"} /\ wait[t] =>
         \E c \in Caller : pc[c] \in {"await", "blocked"} /\ ctask[c] = t
    /\ done[t] => phase[t] = "done"
    /\ phase[t] = "done" /\ "live" \in {mem[t], ctx[t]} =>
         \E c \in Caller : Submitting(c) /\ ctask[c] = t

IInv == TypeOK /\ QueueInv /\ CancelInv /\ WorkerInv /\ CallInv /\ MemoryInv

(* A task has an outcome once it has run or been cancelled, the result that *)
(* its submitter reads is this outcome, and it has not been read before.   *)
AnswerInv ==
  /\ \A t \in Task :
       /\ phase[t] \in {"new", "created"} => reply[t] = "none"
       /\ outcome[t] # "none" <=> phase[t] \in {"ran", "done"}
       /\ phase[t] = "ran" => outcome[t] = wresult
       /\ done[t] => result[t] = outcome[t]
  /\ \A c \in Caller :
       pc[c] \in {"await", "blocked"} => reply[ctask[c]] = "none"

RefInv == IInv /\ AnswerInv

(* The abstract executor a worker implements: tasks start in the order of   *)
(* their submission, one at a time; a cancelled task never runs; a          *)
(* synchronous submitter gets the outcome of its own task.                  *)
(* With fairness: every task somebody waits for is completed and answered,  *)
(* device_worker_submit returns, and no wakeup is lost.                     *)
Executor == INSTANCE SerialExecutor WITH
  queue <- pending,
  active <- IF wpc = "run" THEN wtask ELSE NoTask,
  withdrawn <- Range(detached)

ImplementsExecutorSafety == Executor!SafeSpec
ImplementsExecutor == Executor!Spec

(* device_worker_stop returns: the worker notices, empties its queue, and   *)
(* leaves.                                                                  *)
StopCompletes == pc[Owner] = "join" ~> pc[Owner] = "idle"

=============================================================================
