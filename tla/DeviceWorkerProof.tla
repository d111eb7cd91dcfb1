------------------------- MODULE DeviceWorkerProof -------------------------
(***************************************************************************)
(* Proofs about DeviceWorker, for any number of tasks and callers, under   *)
(* either discipline of its callers.  IInv is inductive: each of its parts *)
(* has a lemma with one step per action, and the steps that move a task    *)
(* from one place to another have lemmas of their own.  The second half    *)
(* proves the refinement of SerialExecutor.                                *)
(***************************************************************************)
EXTENDS DeviceWorker, SequenceTheorems, TLAPS

USE DeviceWorkerConstants

-----------------------------------------------------------------------------
(* Sequences of tasks. *)

(* What is left of a queue when its head is taken. *)
LEMMA TailFacts ==
  ASSUME NEW s \in Seq(Task), s # << >>
  PROVE  /\ Len(s) \in Nat \ {0} /\ s[1] \in Task
         /\ Tail(s) \in Seq(Task) /\ Len(Tail(s)) = Len(s) - 1
         /\ \A i \in 1..Len(Tail(s)) : Tail(s)[i] = s[i + 1]
         /\ Tail(s) = << >> <=> Len(s) = 1
<1>1. /\ Len(s) \in Nat \ {0} /\ s[1] \in Task
      /\ Tail(s) \in Seq(Task) /\ Len(Tail(s)) = Len(s) - 1
      /\ \A i \in 1..Len(Tail(s)) : Tail(s)[i] = s[i + 1]
  OBVIOUS
<1>2. Tail(s) = << >> <=> Len(Tail(s)) = 0
  BY <1>1, EmptySeq
<1>3. QED
  BY <1>1, <1>2

(* What a queue is when a task has been appended. *)
LEMMA AppendFacts ==
  ASSUME NEW s \in Seq(Task), NEW t \in Task
  PROVE  /\ Len(s) \in Nat
         /\ Append(s, t) \in Seq(Task) /\ Append(s, t) # << >>
         /\ Len(Append(s, t)) = Len(s) + 1
         /\ \A i \in 1..Len(s) : Append(s, t)[i] = s[i]
         /\ Append(s, t)[Len(s) + 1] = t
  OBVIOUS

(* A list that represents s is empty exactly when s is, and unlinking its  *)
(* head leaves a list that represents the tail of s.                       *)
LEMMA ChainFacts ==
  ASSUME TypeOK, NEW s \in Seq(Task), NEW h, Chain(s, h)
  PROVE  /\ h = NoTask <=> s = << >>
         /\ s # << >> => h = s[1] /\ h \in Task /\ Chain(Tail(s), next[h])
<1>1. CASE s = << >>
  BY <1>1 DEF Chain
<1>2. CASE s # << >>
  <2>1. h = s[1] /\ h \in Task
    BY <1>2, TailFacts DEF Chain
  <2>2. Chain(Tail(s), next[h])
    BY <1>2, <2>1, TailFacts DEF Chain
  <2>3. QED
    BY <1>2, <2>1, <2>2
<1>3. QED
  BY <1>1, <1>2

-----------------------------------------------------------------------------

(* The steps that move a task from one place to another. *)

(* An accepted task has a type: no NULL task is linked. *)
LEMMA EnqueueKeepsType ==
  ASSUME IInv, NEW c \in Caller, SubmitEnqueue(c)
  PROVE  TypeOK'
<1>1. TypeOK /\ ctask[c] \in Task
  BY DEF IInv, CallInv, Submitting, SubmitEnqueue
<1>2. pending' \in Seq(Task)
  BY <1>1, AppendFacts DEF TypeOK, SubmitEnqueue
<1>3. head' \in Task \cup {NoTask} /\ next' \in [Task -> Task \cup {NoTask}]
  BY <1>1 DEF TypeOK, SubmitEnqueue
<1>4. /\ pc' \in [Caller -> CallPC]
      /\ ctask' \in [Caller -> Task \cup {NoTask}]
      /\ reply' \in [Task -> Verdict]
  <2>1. CASE wait[ctask[c]]
    BY <1>1, <2>1 DEF TypeOK, SubmitEnqueue, CallPC
  <2>2. CASE ~wait[ctask[c]]
    BY <1>1, <2>2 DEF TypeOK, SubmitEnqueue, CallPC, Verdict, DeviceResult
  <2>3. QED
    BY <2>1, <2>2
<1>5. wpc' \in WorkerPC
  BY <1>1 DEF TypeOK, SubmitEnqueue, SignalWorker, WorkerPC
<1>6. phase' \in [Task -> Phase]
  BY <1>1 DEF TypeOK, SubmitEnqueue, Phase
<1>7. QED
  BY <1>1, <1>2, <1>3, <1>4, <1>5, <1>6 DEF TypeOK, SubmitEnqueue

(* A cancelled task leaves a list that is not empty. *)
LEMMA CancelKeepsType ==
  ASSUME IInv, CancelTask
  PROVE  TypeOK'
<1> DEFINE t == ctask[Owner]
<1>1. /\ TypeOK /\ detached # << >> /\ t = detached[1]
  BY DEF IInv, CancelInv, CancelTask
<1>2. detached \in Seq(Task) /\ t \in Task
  BY <1>1, TailFacts DEF TypeOK
<1>3. detached' \in Seq(Task)
  BY <1>1, <1>2, TailFacts DEF CancelTask
<1>4. /\ phase' \in [Task -> Phase] /\ outcome' \in [Task -> Verdict]
      /\ ctask' \in [Caller -> Task \cup {NoTask}]
      /\ cnext' \in [Caller -> Task \cup {NoTask}]
  BY <1>1, <1>2 DEF TypeOK, CancelTask, Phase, Verdict, DeviceResult
<1>5. /\ mem' \in [Task -> Allocation] /\ ctx' \in [Task -> Allocation]
      /\ done' \in [Task -> BOOLEAN] /\ result' \in [Task -> DeviceResult]
      /\ pc' \in [Caller -> CallPC]
  <2>1. CASE EnderOwns(t)
    BY <1>1, <1>2, <2>1
    DEF TypeOK, CancelTask, Release, Freed, Allocation, CallPC
  <2>2. CASE ~EnderOwns(t)
    <3>1. SubmitterSignalled(t) \in [Caller -> CallPC]
      BY <1>1 DEF TypeOK, SubmitterSignalled, CallPC
    <3>2. pc' \in [Caller -> CallPC]
      BY <2>2, <3>1 DEF CancelTask, CallPC
    <3>3. QED
      BY <1>1, <1>2, <2>2, <3>2 DEF TypeOK, CancelTask, DeviceResult
  <2>3. QED
    BY <2>1, <2>2
<1>6. QED
  BY <1>1, <1>3, <1>4, <1>5
  DEF TypeOK, CancelTask, workerVars, threadVars

(* Taking the head unlinks exactly the oldest task. *)
LEMMA TakeKeepsQueue ==
  ASSUME IInv, WorkerTake
  PROVE  QueueInv'
<1>1. TypeOK /\ pending \in Seq(Task) /\ Chain(pending, head) /\ head # NoTask
  BY DEF IInv, TypeOK, QueueInv, WorkerTake
<1>2. /\ pending # << >> /\ head = pending[1] /\ head \in Task
      /\ Chain(Tail(pending), next[head])
  BY <1>1, ChainFacts
<1>3. /\ Holds(pending, "queued")
      /\ tail = pending[Len(pending)]
      /\ \A t \in Task : phase[t] \in {"new", "created"} => next[t] = NoTask
  BY <1>2 DEF IInv, QueueInv
<1>4. /\ pending' = Tail(pending) /\ head' = next[head] /\ next' = next
      /\ phase' = [phase EXCEPT ![head] = "running"]
      /\ tail' = TailFor(next[head]) /\ wpc' = "run"
  BY DEF WorkerTake, taskVars
<1>5. Chain(pending, head)'
  BY <1>2, <1>4 DEF Chain
<1>6. Holds(pending, "queued")'
  <2>1. phase \in [Task -> Phase]
    BY <1>1 DEF TypeOK
  <2>2. Distinct(Tail(pending))
    BY <1>1, <1>2, <1>3, TailFacts DEF Holds, Distinct
  <2>3. \A i \in 1..Len(Tail(pending)) :
          /\ Tail(pending)[i] \in Task /\ Tail(pending)[i] # head
          /\ phase[Tail(pending)[i]] = "queued"
    BY <1>1, <1>2, <1>3, TailFacts DEF Holds, Distinct
  <2>4. ASSUME NEW t \in Task, phase[t] = "queued", t # head
        PROVE  \E i \in 1..Len(Tail(pending)) : Tail(pending)[i] = t
    <3>1. PICK j \in 1..Len(pending) : pending[j] = t
      BY <1>3, <2>4 DEF Holds
    <3>2. j # 1 /\ j - 1 \in 1..Len(Tail(pending))
      BY <1>1, <1>2, <2>4, <3>1, TailFacts
    <3>3. QED
      BY <1>1, <1>2, <3>1, <3>2, TailFacts
  <2>5. QED
    BY <1>2, <1>4, <2>1, <2>2, <2>3, <2>4 DEF Holds
<1>7. tail' = IF pending' = << >> THEN NoTask ELSE pending'[Len(pending')]
  <2>1. CASE Tail(pending) = << >>
    BY <1>4, <1>2, <2>1 DEF TailFor, Chain
  <2>2. CASE Tail(pending) # << >>
    <3>1. next[head] # NoTask
      BY <1>1, <1>2, <2>2, ChainFacts, TailFacts
    <3>2. Tail(pending)[Len(Tail(pending))] = pending[Len(pending)]
      BY <1>1, <1>2, <2>2, TailFacts
    <3>3. QED
      BY <1>3, <1>4, <2>2, <3>1, <3>2 DEF TailFor
  <2>3. QED
    BY <2>1, <2>2
<1>8. QED
  BY <1>1, <1>2, <1>3, <1>4, <1>5, <1>6, <1>7 DEF QueueInv, TypeOK

(* Linking a new task behind the tail leaves the detached list alone. *)
LEMMA EnqueueKeepsDetached ==
  ASSUME IInv, NEW c \in Caller, SubmitEnqueue(c)
  PROVE  CancelInv'
<1> DEFINE t == ctask[c]
<1>1. /\ TypeOK /\ QueueInv /\ CancelInv
      /\ t \in Task /\ phase[t] = "created" /\ pc[c] = "enqueue"
  BY DEF IInv, CallInv, Submitting, SubmitEnqueue
<1>2. /\ phase' = [phase EXCEPT ![t] = "queued"]
      /\ detached' = detached /\ cnext' = cnext
      /\ next' = IF tail = NoTask THEN next ELSE [next EXCEPT ![tail] = t]
  BY DEF SubmitEnqueue
<1>3. \A d \in Caller : d # c => pc'[d] = pc[d] /\ ctask'[d] = ctask[d]
  BY <1>1 DEF SubmitEnqueue, TypeOK
<1>4. pc'[c] \in {"await", "idle"}
  BY <1>1 DEF SubmitEnqueue, TypeOK
<1>5. \A i \in 1..Len(detached) :
        detached[i] \in Task /\ next'[detached[i]] = next[detached[i]]
  <2>1. tail # NoTask => tail \in Task /\ phase[tail] = "queued"
    <3>1. CASE pending = << >>
      BY <1>1, <3>1 DEF QueueInv
    <3>2. CASE pending # << >>
      BY <1>1, <3>2, TailFacts DEF QueueInv, Holds, TypeOK
    <3>3. QED
      BY <3>1, <3>2
  <2>2. \A i \in 1..Len(detached) :
          detached[i] \in Task /\ phase[detached[i]] = "detached"
    BY <1>1 DEF CancelInv, Holds, TypeOK
  <2>3. QED
    BY <1>1, <1>2, <2>1, <2>2 DEF TypeOK
<1>6. Holds(detached, "detached")'
  BY <1>1, <1>2, <1>5 DEF CancelInv, Holds, Distinct, TypeOK
<1>7. CASE c = Owner
  BY <1>1, <1>2, <1>4, <1>6, <1>7 DEF CancelInv
<1>8. CASE c # Owner
  <2>1. pc'[Owner] = pc[Owner] /\ ctask'[Owner] = ctask[Owner]
    BY <1>3, <1>8
  <2>2. pc[Owner] = "cancel" => Chain(detached, ctask[Owner])'
    BY <1>1, <1>2, <1>5, <2>1 DEF CancelInv, Chain
  <2>3. pc[Owner] = "cancelTask" => Chain(Tail(detached), cnext[Owner])'
    <3>1. SUFFICES ASSUME pc[Owner] = "cancelTask"
                   PROVE  Chain(Tail(detached), cnext[Owner])'
      OBVIOUS
    <3>2. /\ detached \in Seq(Task) /\ detached # << >>
          /\ Chain(Tail(detached), cnext[Owner])
      BY <1>1, <3>1 DEF CancelInv, TypeOK
    <3>3. \A i \in 1..Len(Tail(detached)) :
            next'[Tail(detached)[i]] = next[Tail(detached)[i]]
      BY <1>5, <3>2, TailFacts
    <3>4. QED
      BY <1>2, <3>2, <3>3 DEF Chain
  <2>4. QED
    BY <1>1, <1>2, <1>6, <2>1, <2>2, <2>3 DEF CancelInv
<1>9. QED
  BY <1>7, <1>8

(* Taking the head leaves the detached list alone. *)
LEMMA TakeKeepsDetached ==
  ASSUME IInv, WorkerTake
  PROVE  CancelInv'
<1>1. /\ TypeOK /\ QueueInv /\ CancelInv
      /\ pending \in Seq(Task) /\ head # NoTask
  BY DEF IInv, TypeOK, WorkerTake
<1>2. head \in Task /\ phase[head] = "queued"
  BY <1>1, ChainFacts, TailFacts DEF QueueInv, Holds
<1>3. /\ phase' = [phase EXCEPT ![head] = "running"]
      /\ detached' = detached /\ next' = next
      /\ pc' = pc /\ ctask' = ctask /\ cnext' = cnext
  BY DEF WorkerTake, taskVars, callVars
<1>4. Holds(detached, "detached")'
  BY <1>1, <1>2, <1>3 DEF CancelInv, Holds, Distinct, TypeOK
<1>5. QED
  BY <1>1, <1>3, <1>4 DEF CancelInv, Chain

(* task->next is read before it is cleared. *)
LEMMA UnlinkKeepsDetached ==
  ASSUME IInv, CancelUnlink
  PROVE  CancelInv'
<1> DEFINE t == ctask[Owner]
<1>1. /\ TypeOK /\ CancelInv /\ detached \in Seq(Task)
      /\ Chain(detached, t) /\ t # NoTask
  BY DEF IInv, TypeOK, CancelInv, CancelUnlink
<1>2. /\ detached # << >> /\ t = detached[1] /\ t \in Task
      /\ Chain(Tail(detached), next[t])
  BY <1>1, ChainFacts
<1>3. /\ next' = [next EXCEPT ![t] = NoTask] /\ cnext'[Owner] = next[t]
      /\ pc'[Owner] = "cancelTask" /\ ctask' = ctask
      /\ detached' = detached /\ phase' = phase
  BY <1>1 DEF TypeOK, CancelUnlink, histVars
<1>4. Chain(Tail(detached), cnext[Owner])'
  <2>1. \A i \in 1..Len(Tail(detached)) :
          Tail(detached)[i] \in Task /\ Tail(detached)[i] # t
    BY <1>1, <1>2, TailFacts DEF CancelInv, Holds, Distinct
  <2>2. \A i \in 1..Len(Tail(detached)) :
          next'[Tail(detached)[i]] = next[Tail(detached)[i]]
    BY <1>1, <1>3, <2>1 DEF TypeOK
  <2>3. QED
    BY <1>2, <1>3, <2>2 DEF Chain
<1>5. QED
  BY <1>1, <1>2, <1>3, <1>4 DEF CancelInv, Holds, Distinct

(* Cancelling the first detached task leaves the others linked. *)
LEMMA CancelKeepsDetached ==
  ASSUME IInv, CancelTask
  PROVE  CancelInv'
<1> DEFINE t == ctask[Owner]
<1>1. /\ TypeOK /\ detached \in Seq(Task) /\ Holds(detached, "detached")
      /\ detached # << >> /\ t = detached[1]
      /\ Chain(Tail(detached), cnext[Owner])
  BY DEF IInv, TypeOK, CancelInv, CancelTask
<1>2. t \in Task
  BY <1>1, TailFacts
<1>3. /\ detached' = Tail(detached) /\ next' = next
      /\ phase' = [phase EXCEPT ![t] = "done"]
      /\ ctask'[Owner] = cnext[Owner]
  BY <1>1 DEF TypeOK, CancelTask
<1>4. pc'[Owner] = "cancel"
  BY <1>1 DEF TypeOK, CancelTask, SubmitterSignalled
<1>5. Holds(detached, "detached")'
  <2>1. Distinct(Tail(detached))
    BY <1>1, TailFacts DEF Holds, Distinct
  <2>2. \A i \in 1..Len(Tail(detached)) :
          /\ Tail(detached)[i] \in Task /\ Tail(detached)[i] # t
          /\ phase[Tail(detached)[i]] = "detached"
    BY <1>1, TailFacts DEF Holds, Distinct
  <2>3. ASSUME NEW u \in Task, phase[u] = "detached", u # t
        PROVE  \E i \in 1..Len(Tail(detached)) : Tail(detached)[i] = u
    <3>1. PICK j \in 1..Len(detached) : detached[j] = u
      BY <1>1, <2>3 DEF Holds
    <3>2. j # 1 /\ j - 1 \in 1..Len(Tail(detached))
      BY <1>1, <2>3, <3>1, TailFacts
    <3>3. Tail(detached)[j - 1] = detached[j - 1 + 1]
      BY <1>1, <3>2, TailFacts
    <3>4. QED
      BY <3>1, <3>2, <3>3
  <2>4. QED
    BY <1>1, <1>2, <1>3, <2>1, <2>2, <2>3 DEF Holds, TypeOK
<1>6. Chain(detached, ctask[Owner])'
  BY <1>1, <1>3 DEF Chain
<1>7. QED
  BY <1>4, <1>5, <1>6 DEF CancelInv

(* The task being cancelled is the first of the detached ones. *)
LEMMA CancelledTask ==
  ASSUME IInv, CancelTask
  PROVE  ctask[Owner] \in Task /\ phase[ctask[Owner]] = "detached"
<1>1. /\ detached \in Seq(Task) /\ detached # << >>
      /\ ctask[Owner] = detached[1] /\ Holds(detached, "detached")
  BY DEF IInv, TypeOK, CancelInv, CancelTask
<1>2. 1 \in 1..Len(detached) /\ detached[1] \in Task
  BY <1>1, TailFacts
<1>3. QED
  BY <1>1, <1>2 DEF Holds

(* Cancelling a task frees no task that a caller holds, and a signalled    *)
(* submitter goes on holding its own.                                      *)
LEMMA CancelKeepsCalls ==
  ASSUME IInv, CancelTask
  PROVE  CallInv'
<1> DEFINE t == ctask[Owner]
<1>1. /\ TypeOK /\ CallInv /\ t \in Task /\ phase[t] = "detached"
      /\ pc[Owner] = "cancelTask"
  BY CancelledTask DEF IInv, CancelTask
<1>2. /\ phase' = [phase EXCEPT ![t] = "done"]
      /\ ctask' = [ctask EXCEPT ![Owner] = cnext[Owner]]
      /\ wait' = wait /\ started' = started /\ running' = running
  BY DEF CancelTask, workerVars
<1>3. CASE EnderOwns(t)
  BY <1>1, <1>2, <1>3 DEF CancelTask, EnderOwns, Release, CallInv, TypeOK,
    Submitting
<1>4. CASE ~EnderOwns(t)
  <2>1. /\ mem' = mem /\ ctx' = ctx
        /\ pc' = [SubmitterSignalled(t) EXCEPT ![Owner] = "cancel"]
    BY <1>4 DEF CancelTask
  <2>2. pc'[Owner] = "cancel"
    BY <2>1 DEF SubmitterSignalled
  <2>3. \A c \in Caller : c # Owner =>
          /\ ctask'[c] = ctask[c]
          /\ pc'[c] = IF pc[c] = "blocked" /\ ctask[c] = t
                        THEN "await" ELSE pc[c]
    BY <1>1, <1>2, <2>1 DEF SubmitterSignalled, TypeOK
  <2>4. \A c \in Caller : Submitting(c)' =>
          Submitting(c) /\ ctask'[c] = ctask[c]
    BY <2>2, <2>3 DEF Submitting
  <2>5. \A c, d \in Caller :
          Submitting(c)' /\ Submitting(d)' /\ ctask'[c] = ctask'[d] => c = d
    BY <1>1, <2>4 DEF CallInv
  <2>6. ASSUME NEW c \in Caller
        PROVE  /\ (Submitting(c) => ctask[c] \in Task)'
               /\ (pc[c] = "enqueue" =>
                     phase[ctask[c]] = "created" /\ started)'
               /\ (pc[c] \in {"await", "blocked", "release"} =>
                     /\ wait[ctask[c]]
                     /\ phase[ctask[c]] \notin {"new", "refused", "created"}
                     /\ mem[ctask[c]] = "live" /\ ctx[ctask[c]] = "live")'
               /\ (pc[c] = "release" => phase[ctask[c]] = "done")'
               /\ (pc[c] \in {"cancel", "cancelTask", "join"} => c = Owner)'
    BY <1>1, <1>2, <2>1, <2>2, <2>3 DEF CallInv, Submitting, TypeOK
  <2>7. QED
    BY <2>2, <2>5, <2>6 DEF CallInv
<1>5. QED
  BY <1>3, <1>4

(* A queued task has its waiting submitter, if it has one. *)
LEMMA EnqueueKeepsMemory ==
  ASSUME IInv, NEW c \in Caller, SubmitEnqueue(c)
  PROVE  MemoryInv'
<1> DEFINE t == ctask[c]
<1>1. /\ TypeOK /\ CallInv /\ MemoryInv
      /\ t \in Task /\ phase[t] = "created" /\ pc[c] = "enqueue"
  BY DEF IInv, CallInv, Submitting, SubmitEnqueue
<1>2. /\ phase' = [phase EXCEPT ![t] = "queued"]
      /\ mem' = mem /\ ctx' = ctx /\ wait' = wait /\ done' = done
  BY DEF SubmitEnqueue
<1>3. \A d \in Caller : d # c => pc'[d] = pc[d] /\ ctask'[d] = ctask[d]
  BY <1>1 DEF SubmitEnqueue, TypeOK
<1>4. wait[t] => pc'[c] = "await" /\ ctask'[c] = t
  BY <1>1 DEF SubmitEnqueue, TypeOK
<1>5. ASSUME NEW u \in Task, u # t, NEW d \in Caller, ctask[d] = u
      PROVE  d # c /\ ctask'[d] = u /\ pc'[d] = pc[d]
  BY <1>3, <1>5
<1>6. mem[t] = "live" /\ ctx[t] = "live" /\ ~done[t]
  BY <1>1 DEF MemoryInv, TypeOK
<1>7. QED
  BY <1>1, <1>2, <1>4, <1>5, <1>6 DEF MemoryInv, Submitting, TypeOK

(* A cancelled task is freed here or by its submitter, never by both. *)
LEMMA CancelKeepsMemory ==
  ASSUME IInv, CancelTask
  PROVE  MemoryInv'
<1> DEFINE t == ctask[Owner]
<1>1. /\ TypeOK /\ CallInv /\ MemoryInv
      /\ t \in Task /\ phase[t] = "detached" /\ pc[Owner] = "cancelTask"
  BY CancelledTask DEF IInv, CancelTask
<1>2. /\ phase' = [phase EXCEPT ![t] = "done"]
      /\ ctask' = [ctask EXCEPT ![Owner] = cnext[Owner]]
      /\ wait' = wait
  BY DEF CancelTask
<1>3. mem[t] = "live" /\ ctx[t] = "live"
  BY <1>1 DEF MemoryInv
<1>4. CASE EnderOwns(t)
  <2>1. /\ mem' = [mem EXCEPT ![t] = "freed"]
        /\ ctx' = [ctx EXCEPT ![t] = "freed"]
        /\ pc' = [pc EXCEPT ![Owner] = "cancel"] /\ done' = done
    BY <1>1, <1>3, <1>4 DEF CancelTask, Release, Freed, TypeOK
  <2>2. \A c \in Caller : pc[c] \in {"enqueue", "await", "blocked", "release"}
          => pc'[c] = pc[c] /\ ctask'[c] = ctask[c]
    BY <1>1, <1>2, <2>1 DEF TypeOK
  <2>3. QED
    BY <1>1, <1>2, <1>4, <2>1, <2>2 DEF MemoryInv, EnderOwns, Submitting, TypeOK
<1>5. CASE ~EnderOwns(t)
  <2>1. /\ mem' = mem /\ ctx' = ctx
        /\ done' = [done EXCEPT ![t] = TRUE]
        /\ pc' = [SubmitterSignalled(t) EXCEPT ![Owner] = "cancel"]
    BY <1>5 DEF CancelTask
  <2>2. \A c \in Caller : c # Owner =>
          /\ ctask'[c] = ctask[c]
          /\ pc'[c] = IF pc[c] = "blocked" /\ ctask[c] = t
                        THEN "await" ELSE pc[c]
    BY <1>1, <1>2, <2>1 DEF SubmitterSignalled, TypeOK
  <2>3. \A c \in Caller :
          /\ Submitting(c) => ctask'[c] = ctask[c] /\ Submitting(c)'
          /\ pc[c] \in {"await", "blocked"} => pc'[c] \in {"await", "blocked"}
          /\ pc[c] = "enqueue" => pc'[c] = "enqueue"
    BY <1>1, <2>2 DEF Submitting
  <2>4. \E c \in Caller : pc[c] \in {"await", "blocked"} /\ ctask[c] = t
    BY <1>1, <1>5 DEF MemoryInv, EnderOwns
  <2>5. ASSUME NEW u \in Task
        PROVE  \A c \in Caller : Submitting(c) /\ ctask[c] = u =>
                 Submitting(c)' /\ ctask'[c] = u
    BY <2>3
  <2>6. QED
    BY <1>1, <1>2, <2>1, <2>3, <2>4, <2>5 DEF MemoryInv, Submitting, TypeOK
<1>6. QED
  BY <1>4, <1>5

-----------------------------------------------------------------------------
(* Each part of the invariant is preserved by every step. *)

(* Every variable keeps its type: the queue's head is only taken from a    *)
(* queue that has one, and no call uses a NULL task.                       *)
LEMMA TypeOKStep == IInv /\ [Next]_vars => TypeOK'
<1> SUFFICES ASSUME IInv, [Next]_vars PROVE TypeOK'
  OBVIOUS
<1> USE DEF IInv, TypeOK, QueueInv, Holds, Distinct, Chain, CancelInv,
      WorkerInv, CallInv, Submitting, vars, workerVars, threadVars, taskVars,
      callVars, histVars, Verdict, WorkerPC, CallPC, Phase, Allocation,
      RunResult, DeviceResult
<1>1. ASSUME StartWorker PROVE TypeOK'
  BY <1>1 DEF StartWorker
<1>2. ASSUME StartWorkerFails PROVE TypeOK'
  BY <1>2 DEF StartWorkerFails
<1>3. ASSUME NEW c \in Caller, NEW t \in Task, SubmitFails(c, t) PROVE TypeOK'
  BY <1>3 DEF SubmitFails, MayCall
<1>4. ASSUME NEW c \in Caller, NEW t \in Task,
             NEW w \in BOOLEAN, SubmitCreate(c, t, w)
      PROVE  TypeOK'
  BY <1>4 DEF SubmitCreate, MayCall
<1>5. ASSUME NEW c \in Caller, SubmitRejected(c) PROVE TypeOK'
  BY <1>5 DEF SubmitRejected, Release, Freed
<1>6. ASSUME NEW c \in Caller, SubmitEnqueue(c) PROVE TypeOK'
  BY <1>6, EnqueueKeepsType
<1>7. ASSUME NEW c \in Caller, AwaitBlock(c) PROVE TypeOK'
  BY <1>7 DEF AwaitBlock
<1>8. ASSUME NEW c \in Caller, AwaitDone(c) PROVE TypeOK'
  BY <1>8 DEF AwaitDone
<1>9. ASSUME NEW c \in Caller, SubmitterWakesSpuriously(c) PROVE TypeOK'
  BY <1>9 DEF SubmitterWakesSpuriously
<1>10. ASSUME NEW c \in Caller, SubmitRelease(c) PROVE TypeOK'
  BY <1>10 DEF SubmitRelease, Release, Freed
<1>11. ASSUME
         \/ WorkerWait
         \/ WorkerWakesSpuriously
         \/ WorkerExit
      PROVE  TypeOK'
  BY <1>11 DEF WorkerWait, WorkerWakesSpuriously, WorkerExit
<1>12. ASSUME WorkerTake PROVE TypeOK'
  BY <1>12 DEF WorkerTake, TailFor
<1>13. ASSUME NEW r \in RunResult, WorkerRan(r) PROVE TypeOK'
  BY <1>13 DEF WorkerRan
<1>14. ASSUME WorkerComplete PROVE TypeOK'
  BY <1>14 DEF WorkerComplete, EnderOwns, SubmitterSignalled
<1>15. ASSUME WorkerDiscard PROVE TypeOK'
  BY <1>15 DEF WorkerDiscard, EnderOwns, Release, Freed
<1>16. ASSUME CancelDetach PROVE TypeOK'
  BY <1>16 DEF CancelDetach
<1>17. ASSUME CancelUnlink PROVE TypeOK'
  BY <1>17 DEF CancelUnlink
<1>18. ASSUME CancelTask PROVE TypeOK'
  BY <1>18, CancelKeepsType
<1>19. ASSUME CancelReturns PROVE TypeOK'
  BY <1>19 DEF CancelReturns
<1>20. ASSUME StopBegin PROVE TypeOK'
  BY <1>20 DEF StopBegin, SignalWorker
<1>21. ASSUME StopReturns PROVE TypeOK'
  BY <1>21 DEF StopReturns
<1>22. ASSUME
         \/ Rest
         \/ UNCHANGED vars
      PROVE  TypeOK'
  BY <1>22 DEF Rest
<1> HIDE DEF TypeOK, QueueInv, Holds, Distinct, Chain, CancelInv, WorkerInv,
      CallInv, Submitting
<1>23. QED
  BY <1>1, <1>2, <1>3, <1>4, <1>5, <1>6, <1>7, <1>8, <1>9, <1>10, <1>11,
    <1>12, <1>13, <1>14, <1>15, <1>16, <1>17, <1>18, <1>19, <1>20, <1>21,
    <1>22 DEF Next, SubmitStep, WorkerStep,
    OwnerStep

(* The linked list goes on representing the queue. *)
LEMMA QueueInvStep == IInv /\ [Next]_vars => QueueInv'
<1> SUFFICES ASSUME IInv, [Next]_vars PROVE QueueInv'
  OBVIOUS
<1> USE DEF IInv, TypeOK, QueueInv, Holds, Distinct, Chain, CancelInv,
      WorkerInv, CallInv, Submitting, vars, workerVars, threadVars, taskVars,
      callVars, histVars
<1>1. ASSUME StartWorker PROVE QueueInv'
  BY <1>1 DEF StartWorker
<1>2. ASSUME StartWorkerFails PROVE QueueInv'
  BY <1>2 DEF StartWorkerFails
<1>3. ASSUME NEW c \in Caller, NEW t \in Task, SubmitFails(c, t)
      PROVE  QueueInv'
  BY <1>3 DEF SubmitFails, MayCall
<1>4. ASSUME NEW c \in Caller, NEW t \in Task,
             NEW w \in BOOLEAN, SubmitCreate(c, t, w)
      PROVE  QueueInv'
  BY <1>4 DEF SubmitCreate, MayCall
<1>5. ASSUME NEW c \in Caller, SubmitRejected(c) PROVE QueueInv'
  BY <1>5 DEF SubmitRejected, Release, Freed
<1>6. ASSUME NEW c \in Caller, SubmitEnqueue(c) PROVE QueueInv'
  BY <1>6, SMTT(30) DEF SubmitEnqueue, SignalWorker
<1>7. ASSUME NEW c \in Caller, AwaitBlock(c) PROVE QueueInv'
  BY <1>7 DEF AwaitBlock
<1>8. ASSUME NEW c \in Caller, AwaitDone(c) PROVE QueueInv'
  BY <1>8 DEF AwaitDone
<1>9. ASSUME NEW c \in Caller, SubmitterWakesSpuriously(c) PROVE QueueInv'
  BY <1>9 DEF SubmitterWakesSpuriously
<1>10. ASSUME NEW c \in Caller, SubmitRelease(c) PROVE QueueInv'
  BY <1>10 DEF SubmitRelease, Release, Freed
<1>11. ASSUME
         \/ WorkerWait
         \/ WorkerWakesSpuriously
         \/ WorkerExit
      PROVE  QueueInv'
  BY <1>11 DEF WorkerWait, WorkerWakesSpuriously, WorkerExit
<1>12. ASSUME WorkerTake PROVE QueueInv'
  BY <1>12, TakeKeepsQueue
<1>13. ASSUME NEW r \in RunResult, WorkerRan(r) PROVE QueueInv'
  BY <1>13 DEF WorkerRan
<1>14. ASSUME WorkerComplete PROVE QueueInv'
  BY <1>14 DEF WorkerComplete, EnderOwns, SubmitterSignalled
<1>15. ASSUME WorkerDiscard PROVE QueueInv'
  BY <1>15 DEF WorkerDiscard, EnderOwns, Release, Freed
<1>16. ASSUME CancelDetach PROVE QueueInv'
  BY <1>16 DEF CancelDetach
<1>17. ASSUME CancelUnlink PROVE QueueInv'
  BY <1>17 DEF CancelUnlink
<1>18. ASSUME CancelTask PROVE QueueInv'
  BY <1>18, SMTT(30) DEF CancelTask, EnderOwns, SubmitterSignalled, Release, Freed
<1>19. ASSUME CancelReturns PROVE QueueInv'
  BY <1>19 DEF CancelReturns
<1>20. ASSUME StopBegin PROVE QueueInv'
  BY <1>20 DEF StopBegin, SignalWorker
<1>21. ASSUME StopReturns PROVE QueueInv'
  BY <1>21 DEF StopReturns
<1>22. ASSUME
         \/ Rest
         \/ UNCHANGED vars
      PROVE  QueueInv'
  BY <1>22 DEF Rest
<1> HIDE DEF TypeOK, QueueInv, Holds, Distinct, Chain, CancelInv, WorkerInv,
      CallInv, Submitting
<1>23. QED
  BY <1>1, <1>2, <1>3, <1>4, <1>5, <1>6, <1>7, <1>8, <1>9, <1>10, <1>11,
    <1>12, <1>13, <1>14, <1>15, <1>16, <1>17, <1>18, <1>19, <1>20, <1>21,
    <1>22 DEF Next, SubmitStep, WorkerStep,
    OwnerStep

(* CancelInv speaks of the detached list, its links and the owner only. *)
LEMMA CancelInvRests ==
  ASSUME CancelInv, UNCHANGED <<detached, phase, next, pc, ctask, cnext>>
  PROVE  CancelInv'
BY DEF CancelInv, Holds, Distinct, Chain

(* What cancel_pending detached stays linked until it is all cancelled. *)
LEMMA CancelInvStep == IInv /\ [Next]_vars => CancelInv'
<1> SUFFICES ASSUME IInv, [Next]_vars PROVE CancelInv'
  OBVIOUS
<1> USE DEF IInv, TypeOK, QueueInv, Holds, Distinct, Chain, CancelInv,
      WorkerInv, CallInv, Submitting, vars, workerVars, threadVars, taskVars,
      callVars, histVars
<1>1. ASSUME StartWorker PROVE CancelInv'
  BY <1>1 DEF StartWorker
<1>2. ASSUME StartWorkerFails PROVE CancelInv'
  BY <1>2 DEF StartWorkerFails
<1>3. ASSUME NEW c \in Caller, NEW t \in Task, SubmitFails(c, t)
      PROVE  CancelInv'
  BY <1>3 DEF SubmitFails, MayCall
<1>4. ASSUME NEW c \in Caller, NEW t \in Task,
             NEW w \in BOOLEAN, SubmitCreate(c, t, w)
      PROVE  CancelInv'
  BY <1>4 DEF SubmitCreate, MayCall
<1>5. ASSUME NEW c \in Caller, SubmitRejected(c) PROVE CancelInv'
  BY <1>5 DEF SubmitRejected, Release, Freed
<1>6. ASSUME NEW c \in Caller, SubmitEnqueue(c) PROVE CancelInv'
  BY <1>6, EnqueueKeepsDetached
<1>7. ASSUME NEW c \in Caller, AwaitBlock(c) PROVE CancelInv'
  BY <1>7 DEF AwaitBlock
<1>8. ASSUME NEW c \in Caller, AwaitDone(c) PROVE CancelInv'
  BY <1>8 DEF AwaitDone
<1>9. ASSUME NEW c \in Caller, SubmitterWakesSpuriously(c) PROVE CancelInv'
  BY <1>9 DEF SubmitterWakesSpuriously
<1>10. ASSUME NEW c \in Caller, SubmitRelease(c) PROVE CancelInv'
  BY <1>10 DEF SubmitRelease, Release, Freed
<1>11. ASSUME
         \/ WorkerWait
         \/ WorkerWakesSpuriously
         \/ WorkerExit
      PROVE  CancelInv'
  BY <1>11, SMTT(30) DEF WorkerWait, WorkerWakesSpuriously, WorkerExit
<1>12. ASSUME WorkerTake PROVE CancelInv'
  BY <1>12, TakeKeepsDetached
<1>13. ASSUME NEW r \in RunResult, WorkerRan(r) PROVE CancelInv'
  BY <1>13 DEF WorkerRan
<1>14. ASSUME WorkerComplete PROVE CancelInv'
  BY <1>14 DEF WorkerComplete, EnderOwns, SubmitterSignalled
<1>15. ASSUME WorkerDiscard PROVE CancelInv'
  BY <1>15 DEF WorkerDiscard, EnderOwns, Release, Freed
<1>16. ASSUME CancelDetach PROVE CancelInv'
  BY <1>16 DEF CancelDetach
<1>17. ASSUME CancelUnlink PROVE CancelInv'
  BY <1>17, UnlinkKeepsDetached
<1>18. ASSUME CancelTask PROVE CancelInv'
  BY <1>18, CancelKeepsDetached
<1>19. ASSUME CancelReturns PROVE CancelInv'
  BY <1>19 DEF CancelReturns
<1>20. ASSUME StopBegin PROVE CancelInv'
  BY <1>20 DEF StopBegin, SignalWorker
<1>21. ASSUME StopReturns PROVE CancelInv'
  BY <1>21 DEF StopReturns
<1>22. ASSUME
         \/ Rest
         \/ UNCHANGED vars
      PROVE  CancelInv'
  <2>1. UNCHANGED <<detached, phase, next, pc, ctask, cnext>>
    BY <1>22 DEF Rest
  <2>2. QED
    BY <2>1, CancelInvRests DEF IInv
<1> HIDE DEF TypeOK, QueueInv, Holds, Distinct, Chain, CancelInv, WorkerInv,
      CallInv, Submitting
<1>23. QED
  BY <1>1, <1>2, <1>3, <1>4, <1>5, <1>6, <1>7, <1>8, <1>9, <1>10, <1>11,
    <1>12, <1>13, <1>14, <1>15, <1>16, <1>17, <1>18, <1>19, <1>20, <1>21,
    <1>22 DEF Next, SubmitStep, WorkerStep,
    OwnerStep

(* The worker's program counter, its task and the task's phase agree. *)
LEMMA WorkerInvStep == IInv /\ [Next]_vars => WorkerInv'
<1> SUFFICES ASSUME IInv, [Next]_vars PROVE WorkerInv'
  OBVIOUS
<1> USE DEF IInv, TypeOK, QueueInv, Holds, Distinct, Chain, CancelInv,
      WorkerInv, CallInv, Submitting, vars, workerVars, threadVars, taskVars,
      callVars, histVars
<1>1. ASSUME StartWorker PROVE WorkerInv'
  BY <1>1 DEF StartWorker
<1>2. ASSUME StartWorkerFails PROVE WorkerInv'
  BY <1>2 DEF StartWorkerFails
<1>3. ASSUME NEW c \in Caller, NEW t \in Task, SubmitFails(c, t)
      PROVE  WorkerInv'
  BY <1>3 DEF SubmitFails, MayCall
<1>4. ASSUME NEW c \in Caller, NEW t \in Task,
             NEW w \in BOOLEAN, SubmitCreate(c, t, w)
      PROVE  WorkerInv'
  BY <1>4 DEF SubmitCreate, MayCall
<1>5. ASSUME NEW c \in Caller, SubmitRejected(c) PROVE WorkerInv'
  BY <1>5 DEF SubmitRejected, Release, Freed
<1>6. ASSUME NEW c \in Caller, SubmitEnqueue(c) PROVE WorkerInv'
  BY <1>6 DEF SubmitEnqueue, SignalWorker
<1>7. ASSUME NEW c \in Caller, AwaitBlock(c) PROVE WorkerInv'
  BY <1>7 DEF AwaitBlock
<1>8. ASSUME NEW c \in Caller, AwaitDone(c) PROVE WorkerInv'
  BY <1>8 DEF AwaitDone
<1>9. ASSUME NEW c \in Caller, SubmitterWakesSpuriously(c) PROVE WorkerInv'
  BY <1>9 DEF SubmitterWakesSpuriously
<1>10. ASSUME NEW c \in Caller, SubmitRelease(c) PROVE WorkerInv'
  BY <1>10 DEF SubmitRelease, Release, Freed
<1>11. ASSUME
         \/ WorkerWait
         \/ WorkerWakesSpuriously
         \/ WorkerExit
      PROVE  WorkerInv'
  BY <1>11 DEF WorkerWait, WorkerWakesSpuriously, WorkerExit
<1>12. ASSUME WorkerTake PROVE WorkerInv'
  BY <1>12 DEF WorkerTake, TailFor
<1>13. ASSUME NEW r \in RunResult, WorkerRan(r) PROVE WorkerInv'
  BY <1>13 DEF WorkerRan
<1>14. ASSUME WorkerComplete PROVE WorkerInv'
  BY <1>14 DEF WorkerComplete, EnderOwns, SubmitterSignalled
<1>15. ASSUME WorkerDiscard PROVE WorkerInv'
  BY <1>15 DEF WorkerDiscard, EnderOwns, Release, Freed
<1>16. ASSUME CancelDetach PROVE WorkerInv'
  BY <1>16 DEF CancelDetach
<1>17. ASSUME CancelUnlink PROVE WorkerInv'
  BY <1>17 DEF CancelUnlink
<1>18. ASSUME CancelTask PROVE WorkerInv'
  BY <1>18 DEF CancelTask, EnderOwns, SubmitterSignalled, Release, Freed
<1>19. ASSUME CancelReturns PROVE WorkerInv'
  BY <1>19 DEF CancelReturns
<1>20. ASSUME StopBegin PROVE WorkerInv'
  BY <1>20 DEF StopBegin, SignalWorker
<1>21. ASSUME StopReturns PROVE WorkerInv'
  BY <1>21 DEF StopReturns
<1>22. ASSUME
         \/ Rest
         \/ UNCHANGED vars
      PROVE  WorkerInv'
  BY <1>22 DEF Rest
<1> HIDE DEF TypeOK, QueueInv, Holds, Distinct, Chain, CancelInv, WorkerInv,
      CallInv, Submitting
<1>23. QED
  BY <1>1, <1>2, <1>3, <1>4, <1>5, <1>6, <1>7, <1>8, <1>9, <1>10, <1>11,
    <1>12, <1>13, <1>14, <1>15, <1>16, <1>17, <1>18, <1>19, <1>20, <1>21,
    <1>22 DEF Next, SubmitStep, WorkerStep,
    OwnerStep

(* No two callers share a task, and the task a caller waits for is there. *)
LEMMA CallInvStep == IInv /\ [Next]_vars => CallInv'
<1> SUFFICES ASSUME IInv, [Next]_vars PROVE CallInv'
  OBVIOUS
<1> USE DEF IInv, TypeOK, QueueInv, Holds, Distinct, Chain, CancelInv,
      WorkerInv, CallInv, Submitting, MemoryInv, vars, workerVars, threadVars,
      taskVars, callVars, histVars
<1>1. ASSUME StartWorker PROVE CallInv'
  BY <1>1 DEF StartWorker
<1>2. ASSUME StartWorkerFails PROVE CallInv'
  BY <1>2 DEF StartWorkerFails
<1>3. ASSUME NEW c \in Caller, NEW t \in Task, SubmitFails(c, t)
      PROVE  CallInv'
  BY <1>3 DEF SubmitFails, MayCall
<1>4. ASSUME NEW c \in Caller, NEW t \in Task,
             NEW w \in BOOLEAN, SubmitCreate(c, t, w)
      PROVE  CallInv'
  BY <1>4 DEF SubmitCreate, MayCall
<1>5. ASSUME NEW c \in Caller, SubmitRejected(c) PROVE CallInv'
  BY <1>5 DEF SubmitRejected, Release, Freed
<1>6. ASSUME NEW c \in Caller, SubmitEnqueue(c) PROVE CallInv'
  BY <1>6, SMTT(30) DEF SubmitEnqueue, SignalWorker
<1>7. ASSUME NEW c \in Caller, AwaitBlock(c) PROVE CallInv'
  BY <1>7 DEF AwaitBlock
<1>8. ASSUME NEW c \in Caller, AwaitDone(c) PROVE CallInv'
  BY <1>8 DEF AwaitDone
<1>9. ASSUME NEW c \in Caller, SubmitterWakesSpuriously(c) PROVE CallInv'
  BY <1>9 DEF SubmitterWakesSpuriously
<1>10. ASSUME NEW c \in Caller, SubmitRelease(c) PROVE CallInv'
  BY <1>10 DEF SubmitRelease, Release, Freed
<1>11. ASSUME
         \/ WorkerWait
         \/ WorkerWakesSpuriously
         \/ WorkerExit
      PROVE  CallInv'
  BY <1>11 DEF WorkerWait, WorkerWakesSpuriously, WorkerExit
<1>12. ASSUME WorkerTake PROVE CallInv'
  BY <1>12 DEF WorkerTake, TailFor
<1>13. ASSUME NEW r \in RunResult, WorkerRan(r) PROVE CallInv'
  BY <1>13 DEF WorkerRan
<1>14. ASSUME WorkerComplete PROVE CallInv'
  BY <1>14 DEF WorkerComplete, EnderOwns, SubmitterSignalled
<1>15. ASSUME WorkerDiscard PROVE CallInv'
  BY <1>15 DEF WorkerDiscard, EnderOwns, Release, Freed
<1>16. ASSUME CancelDetach PROVE CallInv'
  BY <1>16 DEF CancelDetach
<1>17. ASSUME CancelUnlink PROVE CallInv'
  BY <1>17 DEF CancelUnlink
<1>18. ASSUME CancelTask PROVE CallInv'
  BY <1>18, CancelKeepsCalls
<1>19. ASSUME CancelReturns PROVE CallInv'
  BY <1>19 DEF CancelReturns
<1>20. ASSUME StopBegin PROVE CallInv'
  BY <1>20 DEF StopBegin, SignalWorker
<1>21. ASSUME StopReturns PROVE CallInv'
  BY <1>21 DEF StopReturns
<1>22. ASSUME
         \/ Rest
         \/ UNCHANGED vars
      PROVE  CallInv'
  BY <1>22 DEF Rest
<1> HIDE DEF TypeOK, QueueInv, Holds, Distinct, Chain, CancelInv, WorkerInv,
      CallInv, Submitting, MemoryInv
<1>23. QED
  BY <1>1, <1>2, <1>3, <1>4, <1>5, <1>6, <1>7, <1>8, <1>9, <1>10, <1>11,
    <1>12, <1>13, <1>14, <1>15, <1>16, <1>17, <1>18, <1>19, <1>20, <1>21,
    <1>22 DEF Next, SubmitStep, WorkerStep,
    OwnerStep

(* A task is allocated while somebody may reach it, and freed once. *)
LEMMA MemoryInvStep == IInv /\ [Next]_vars => MemoryInv'
<1> SUFFICES ASSUME IInv, [Next]_vars PROVE MemoryInv'
  OBVIOUS
<1> USE DEF IInv, TypeOK, QueueInv, Holds, Distinct, Chain, CancelInv,
      WorkerInv, CallInv, Submitting, MemoryInv, vars, workerVars, threadVars,
      taskVars, callVars, histVars
<1>1. ASSUME StartWorker PROVE MemoryInv'
  BY <1>1 DEF StartWorker
<1>2. ASSUME StartWorkerFails PROVE MemoryInv'
  BY <1>2 DEF StartWorkerFails
<1>3. ASSUME NEW c \in Caller, NEW t \in Task, SubmitFails(c, t)
      PROVE  MemoryInv'
  BY <1>3 DEF SubmitFails, MayCall
<1>4. ASSUME NEW c \in Caller, NEW t \in Task,
             NEW w \in BOOLEAN, SubmitCreate(c, t, w)
      PROVE  MemoryInv'
  BY <1>4 DEF SubmitCreate, MayCall
<1>5. ASSUME NEW c \in Caller, SubmitRejected(c) PROVE MemoryInv'
  BY <1>5 DEF SubmitRejected, Release, Freed
<1>6. ASSUME NEW c \in Caller, SubmitEnqueue(c) PROVE MemoryInv'
  BY <1>6, EnqueueKeepsMemory
<1>7. ASSUME NEW c \in Caller, AwaitBlock(c) PROVE MemoryInv'
  BY <1>7 DEF AwaitBlock
<1>8. ASSUME NEW c \in Caller, AwaitDone(c) PROVE MemoryInv'
  BY <1>8 DEF AwaitDone
<1>9. ASSUME NEW c \in Caller, SubmitterWakesSpuriously(c) PROVE MemoryInv'
  BY <1>9 DEF SubmitterWakesSpuriously
<1>10. ASSUME NEW c \in Caller, SubmitRelease(c) PROVE MemoryInv'
  BY <1>10 DEF SubmitRelease, Release, Freed
<1>11. ASSUME
         \/ WorkerWait
         \/ WorkerWakesSpuriously
         \/ WorkerExit
      PROVE  MemoryInv'
  BY <1>11 DEF WorkerWait, WorkerWakesSpuriously, WorkerExit
<1>12. ASSUME WorkerTake PROVE MemoryInv'
  BY <1>12 DEF WorkerTake, TailFor
<1>13. ASSUME NEW r \in RunResult, WorkerRan(r) PROVE MemoryInv'
  BY <1>13 DEF WorkerRan
<1>14. ASSUME WorkerComplete PROVE MemoryInv'
  BY <1>14 DEF WorkerComplete, EnderOwns, SubmitterSignalled
<1>15. ASSUME WorkerDiscard PROVE MemoryInv'
  BY <1>15 DEF WorkerDiscard, EnderOwns, Release, Freed
<1>16. ASSUME CancelDetach PROVE MemoryInv'
  BY <1>16 DEF CancelDetach
<1>17. ASSUME CancelUnlink PROVE MemoryInv'
  BY <1>17 DEF CancelUnlink
<1>18. ASSUME CancelTask PROVE MemoryInv'
  BY <1>18, CancelKeepsMemory
<1>19. ASSUME CancelReturns PROVE MemoryInv'
  BY <1>19 DEF CancelReturns
<1>20. ASSUME StopBegin PROVE MemoryInv'
  BY <1>20 DEF StopBegin, SignalWorker
<1>21. ASSUME StopReturns PROVE MemoryInv'
  BY <1>21 DEF StopReturns
<1>22. ASSUME
         \/ Rest
         \/ UNCHANGED vars
      PROVE  MemoryInv'
  BY <1>22 DEF Rest
<1> HIDE DEF TypeOK, QueueInv, Holds, Distinct, Chain, CancelInv, WorkerInv,
      CallInv, Submitting, MemoryInv
<1>23. QED
  BY <1>1, <1>2, <1>3, <1>4, <1>5, <1>6, <1>7, <1>8, <1>9, <1>10, <1>11,
    <1>12, <1>13, <1>14, <1>15, <1>16, <1>17, <1>18, <1>19, <1>20, <1>21,
    <1>22 DEF Next, SubmitStep, WorkerStep,
    OwnerStep

-----------------------------------------------------------------------------
(* The invariant, and what it implies. *)

LEMMA InitIInv == Init => IInv
<1> SUFFICES ASSUME Init PROVE IInv
  OBVIOUS
<1>1. TypeOK
  <2>1. /\ mem \in [Task -> Allocation] /\ ctx \in [Task -> Allocation]
        /\ result \in [Task -> DeviceResult] /\ phase \in [Task -> Phase]
        /\ reply \in [Task -> Verdict] /\ outcome \in [Task -> Verdict]
    BY DEF Init, Allocation, DeviceResult, Phase, Verdict
  <2>2. /\ next \in [Task -> Task \cup {NoTask}]
        /\ wait \in [Task -> BOOLEAN] /\ done \in [Task -> BOOLEAN]
        /\ pc \in [Caller -> CallPC]
        /\ ctask \in [Caller -> Task \cup {NoTask}]
        /\ cnext \in [Caller -> Task \cup {NoTask}]
    BY DEF Init, CallPC
  <2>3. pending \in Seq(Task) /\ detached \in Seq(Task)
    BY EmptySeq DEF Init
  <2>4. QED
    BY <2>1, <2>2, <2>3 DEF Init, TypeOK, WorkerPC, RunResult
<1>2. QueueInv /\ CancelInv
  BY <1>1 DEF Init, TypeOK, QueueInv, CancelInv, Holds, Distinct, Chain
<1>3. WorkerInv /\ CallInv /\ MemoryInv
  BY DEF Init, WorkerInv, CallInv, MemoryInv, Submitting
<1>4. QED
  BY <1>1, <1>2, <1>3 DEF IInv

(* IInv holds in every state, with or without fairness. *)
THEOREM Inductive == SafeSpec => []IInv
<1>1. IInv /\ [Next]_vars => IInv'
  BY TypeOKStep, QueueInvStep, CancelInvStep, WorkerInvStep, CallInvStep,
    MemoryInvStep DEF IInv
<1>2. QED
  BY InitIInv, <1>1, PTL DEF SafeSpec

(* Type correctness: no NULL or foreign pointer gets where a task belongs. *)
THEOREM TypeCorrect == SafeSpec => []TypeOK
<1>1. IInv => TypeOK
  BY DEF IInv
<1>2. QED
  BY <1>1, Inductive, PTL

(* The linked list holds exactly the accepted tasks in the order of their  *)
(* submission, for any number of them.                                     *)
THEOREM ListCorrect == SafeSpec => []ListRepresentsQueue
<1>1. IInv => ListRepresentsQueue
  BY TailFacts DEF IInv, TypeOK, QueueInv, CancelInv, ListRepresentsQueue
<1>2. QED
  BY <1>1, Inductive, PTL

(* No double free, no use after free, no lock used after its destruction,  *)
(* and no task that runs after its waiting submitter has gone.             *)
THEOREM MemorySafety == SafeSpec => []MemorySafe
<1>1. ASSUME IInv PROVE MemorySafe
  <2>1. \A t \in Task : mem[t] # "double" /\ ctx[t] # "double"
    BY <1>1 DEF IInv, MemoryInv
  <2>2. \A t \in Range(pending) \cup Range(detached) : mem[t] = "live"
    <3>1. /\ pending \in Seq(Task) /\ detached \in Seq(Task)
          /\ Holds(pending, "queued") /\ Holds(detached, "detached")
      BY <1>1 DEF IInv, TypeOK, QueueInv, CancelInv
    <3>2. ASSUME NEW t \in Range(pending) PROVE mem[t] = "live"
      BY <1>1, <3>1, <3>2, RangeEquality DEF Holds, IInv, MemoryInv
    <3>3. ASSUME NEW t \in Range(detached) PROVE mem[t] = "live"
      BY <1>1, <3>1, <3>3, RangeEquality DEF Holds, IInv, MemoryInv
    <3>4. QED
      BY <3>2, <3>3
  <2>3. wpc \in {"run", "finish"} =>
          /\ mem[wtask] = "live" /\ ctx[wtask] = "live"
          /\ wait[wtask] =>
               \E c \in Caller : pc[c] \in {"await", "blocked"} /\ ctask[c] = wtask
    BY <1>1 DEF IInv, WorkerInv, MemoryInv
  <2>4. ASSUME NEW c \in Caller
        PROVE  /\ Submitting(c) =>
                    mem[ctask[c]] = "live" /\ ctx[ctask[c]] = "live"
               /\ pc[c] = "enqueue" => started
    BY <1>1 DEF IInv, CallInv, MemoryInv, Submitting
  <2>5. QED
    BY <2>1, <2>2, <2>3, <2>4 DEF MemorySafe
<1>2. QED
  BY <1>1, Inductive, PTL

(* Every allocated task and context is held by the thread that is to free  *)
(* it.                                                                     *)
THEOREM LeakFreedom == SafeSpec => []NoLeak
<1>1. ASSUME IInv PROVE NoLeak
  <2>1. ASSUME NEW t \in Task, "live" \in {mem[t], ctx[t]}
        PROVE  \/ t \in Range(pending) \cup Range(detached)
               \/ wpc \in {"run", "finish"} /\ wtask = t
               \/ \E c \in Caller : Submitting(c) /\ ctask[c] = t
    <3>1. phase[t] \in Phase \ {"new", "refused"}
      BY <1>1, <2>1 DEF IInv, TypeOK, MemoryInv
    <3>2. CASE phase[t] = "queued"
      BY <1>1, <3>2, RangeEquality DEF IInv, TypeOK, QueueInv, Holds
    <3>3. CASE phase[t] = "detached"
      BY <1>1, <3>3, RangeEquality DEF IInv, TypeOK, CancelInv, Holds
    <3>4. CASE phase[t] \in {"running", "ran"}
      BY <1>1, <3>4 DEF IInv, WorkerInv
    <3>5. CASE phase[t] \in {"created", "done"}
      BY <1>1, <2>1, <3>5 DEF IInv, MemoryInv, Submitting
    <3>6. QED
      BY <3>1, <3>2, <3>3, <3>4, <3>5 DEF Phase
  <2>2. QED
    BY <2>1 DEF NoLeak
<1>2. QED
  BY <1>1, Inductive, PTL

-----------------------------------------------------------------------------
(* The worker implements SerialExecutor: AnswerInv is kept beside IInv, and *)
(* every step of the worker, its list and its callers is a step of the     *)
(* executor or leaves it alone.                                            *)

(* The task that the worker takes is queued. *)
LEMMA TakenTask ==
  ASSUME IInv, WorkerTake
  PROVE  /\ pending \in Seq(Task) /\ pending # << >> /\ head = pending[1]
         /\ head \in Task /\ phase[head] = "queued"
<1>1. /\ pending \in Seq(Task) /\ Chain(pending, head) /\ head # NoTask
      /\ TypeOK /\ Holds(pending, "queued")
  BY DEF WorkerTake, IInv, TypeOK, QueueInv
<1>2. pending # << >> /\ head = pending[1]
  BY <1>1, ChainFacts
<1>3. QED
  BY <1>1, <1>2, TailFacts DEF Holds

LEMMA AnswerInvStep == RefInv /\ [Next]_vars => AnswerInv'
<1> SUFFICES ASSUME RefInv, [Next]_vars PROVE AnswerInv'
  OBVIOUS
<1> USE DEF RefInv, IInv, TypeOK, WorkerInv, CallInv, Submitting, MemoryInv,
      AnswerInv, vars, workerVars, threadVars, taskVars, callVars, histVars
<1>1. ASSUME StartWorker \/ StartWorkerFails PROVE AnswerInv'
  BY <1>1 DEF StartWorker, StartWorkerFails
<1>2. ASSUME NEW c \in Caller, NEW t \in Task, SubmitFails(c, t)
      PROVE  AnswerInv'
  BY <1>2 DEF SubmitFails, MayCall
<1>3. ASSUME NEW c \in Caller, NEW t \in Task,
             NEW w \in BOOLEAN, SubmitCreate(c, t, w)
      PROVE  AnswerInv'
  BY <1>3 DEF SubmitCreate, MayCall
<1>4. ASSUME NEW c \in Caller, SubmitRejected(c) PROVE AnswerInv'
  BY <1>4 DEF SubmitRejected, Release, Freed
<1>5. ASSUME NEW c \in Caller, SubmitEnqueue(c) PROVE AnswerInv'
  <2>1. CASE wait[ctask[c]]
    BY <1>5, <2>1 DEF SubmitEnqueue, SignalWorker
  <2>2. CASE ~wait[ctask[c]]
    BY <1>5, <2>2 DEF SubmitEnqueue, SignalWorker
  <2>3. QED
    BY <2>1, <2>2
<1>6. ASSUME NEW c \in Caller, AwaitBlock(c) PROVE AnswerInv'
  BY <1>6 DEF AwaitBlock
<1>7. ASSUME NEW c \in Caller, AwaitDone(c) PROVE AnswerInv'
  BY <1>7 DEF AwaitDone
<1>8. ASSUME NEW c \in Caller, SubmitterWakesSpuriously(c) PROVE AnswerInv'
  BY <1>8 DEF SubmitterWakesSpuriously
<1>9. ASSUME NEW c \in Caller, SubmitRelease(c) PROVE AnswerInv'
  BY <1>9 DEF SubmitRelease, Release, Freed
<1>10. ASSUME WorkerWait \/ WorkerWakesSpuriously \/ WorkerExit
       PROVE  AnswerInv'
  BY <1>10 DEF WorkerWait, WorkerWakesSpuriously, WorkerExit
<1>11. ASSUME WorkerTake PROVE AnswerInv'
  BY <1>11, TakenTask DEF WorkerTake, TailFor
<1>12. ASSUME NEW r \in RunResult, WorkerRan(r) PROVE AnswerInv'
  BY <1>12 DEF WorkerRan, RunResult
<1>13. ASSUME WorkerComplete PROVE AnswerInv'
  BY <1>13 DEF WorkerComplete, EnderOwns, SubmitterSignalled
<1>14. ASSUME WorkerDiscard PROVE AnswerInv'
  BY <1>14 DEF WorkerDiscard, EnderOwns, Release, Freed
<1>15. ASSUME CancelDetach PROVE AnswerInv'
  BY <1>15 DEF CancelDetach
<1>16. ASSUME CancelUnlink PROVE AnswerInv'
  BY <1>16 DEF CancelUnlink
<1>17. ASSUME CancelTask PROVE AnswerInv'
  <2>1. ctask[Owner] \in Task /\ phase[ctask[Owner]] = "detached"
    BY <1>17, CancelledTask
  <2>2. CASE EnderOwns(ctask[Owner])
    BY <1>17, <2>1, <2>2 DEF CancelTask, Release
  <2>3. CASE ~EnderOwns(ctask[Owner])
    <3>1. \A c \in Caller : pc'[c] \in {"await", "blocked"} =>
            pc[c] \in {"await", "blocked"} /\ ctask'[c] = ctask[c]
      <4>1. /\ pc' = [SubmitterSignalled(ctask[Owner])
                        EXCEPT ![Owner] = "cancel"]
            /\ ctask' = [ctask EXCEPT ![Owner] = cnext[Owner]]
        BY <1>17, <2>3 DEF CancelTask
      <4>2. pc'[Owner] = "cancel"
        BY <4>1 DEF SubmitterSignalled
      <4>3. \A c \in Caller \ {Owner} :
              /\ ctask'[c] = ctask[c]
              /\ pc'[c] \in {"await", "blocked"} =>
                   pc[c] \in {"await", "blocked"}
        BY <4>1 DEF SubmitterSignalled
      <4>4. QED
        BY <4>2, <4>3
    <3>2. QED
      BY <1>17, <2>1, <2>3, <3>1 DEF CancelTask
  <2>4. QED
    BY <2>2, <2>3
<1>18. ASSUME CancelReturns \/ StopBegin \/ StopReturns PROVE AnswerInv'
  BY <1>18 DEF CancelReturns, StopBegin, StopReturns, SignalWorker
<1>19. ASSUME Rest \/ UNCHANGED vars PROVE AnswerInv'
  BY <1>19 DEF Rest
<1> HIDE DEF RefInv, IInv, TypeOK, WorkerInv, CallInv, Submitting, MemoryInv,
      AnswerInv
<1>20. QED
  BY <1>1, <1>2, <1>3, <1>4, <1>5, <1>6, <1>7, <1>8, <1>9, <1>10, <1>11,
    <1>12, <1>13, <1>14, <1>15, <1>16, <1>17, <1>18, <1>19
    DEF Next, SubmitStep, WorkerStep, OwnerStep

LEMMA InitAnswerInv == Init => AnswerInv
BY DEF Init, AnswerInv

-----------------------------------------------------------------------------
(* The executor's steps *)

(* The task the worker is running, as the executor sees it. *)
Active == IF wpc = "run" THEN wtask ELSE NoTask

(* The executor's result codes and ranges are the worker's. *)
LEMMA SameWords ==
  /\ Executor!DeviceResult = DeviceResult
  /\ \A f : Executor!Range(f) = Range(f)
BY DEF Executor!DeviceResult, DeviceResult, Executor!Range, Range

(* A step that changes nothing the executor knows. *)
Stutters == UNCHANGED <<pending, Active, Range(detached), outcome, reply>>

LEMMA StutterMaps == Stutters => UNCHANGED Executor!vars
BY DEF Stutters, Active, Executor!vars

(* A task before its admission is fresh to the executor. *)
LEMMA FreshTask ==
  ASSUME RefInv, NEW t \in Task, phase[t] \in {"new", "created"}
  PROVE  Executor!Fresh(t)
<1>1. /\ pending \in Seq(Task) /\ detached \in Seq(Task)
      /\ Holds(pending, "queued") /\ Holds(detached, "detached")
  BY DEF RefInv, IInv, TypeOK, QueueInv, CancelInv
<1>2. t \notin Range(pending) /\ t \notin Range(detached)
  BY <1>1, RangeEquality DEF Holds
<1>3. t # Active
  BY DEF Active, RefInv, IInv, WorkerInv
<1>4. outcome[t] = "none" /\ reply[t] = "none"
  BY DEF RefInv, AnswerInv
<1>5. QED
  BY <1>2, <1>3, <1>4, SameWords DEF Executor!Fresh, Active

LEMMA RefuseMaps ==
  ASSUME RefInv, NEW c \in Caller, NEW t \in Task,
         SubmitFails(c, t) \/ (SubmitRejected(c) /\ t = ctask[c])
  PROVE  Executor!Refuse(t)
<1>1. phase[t] \in {"new", "created"}
  BY DEF SubmitFails, SubmitRejected, RefInv, IInv, CallInv
<1>2. UNCHANGED <<pending, wpc, wtask, detached, outcome>>
  BY DEF SubmitFails, SubmitRejected, threadVars, Release
<1>3. \E e \in DeviceResult \ {"OK"} : reply' = [reply EXCEPT ![t] = e]
  BY DEF SubmitFails, SubmitRejected, DeviceResult
<1>4. QED
  BY <1>1, <1>2, <1>3, FreshTask, SameWords DEF Executor!Refuse

LEMMA AdmitMaps ==
  ASSUME RefInv, NEW c \in Caller, SubmitEnqueue(c)
  PROVE  ctask[c] \in Task /\ Executor!Admit(ctask[c], wait[ctask[c]])
<1>1. ctask[c] \in Task /\ phase[ctask[c]] = "created"
  BY DEF SubmitEnqueue, RefInv, IInv, CallInv, Submitting
<1>2. /\ UNCHANGED <<wtask, detached, outcome>>
      /\ pending' = Append(pending, ctask[c])
      /\ wpc' \in {wpc, "top"} /\ (wpc' # wpc => wpc = "waiting")
  BY DEF SubmitEnqueue, SignalWorker
<1>3. reply' = IF wait[ctask[c]] THEN reply
               ELSE [reply EXCEPT ![ctask[c]] = "OK"]
  BY DEF SubmitEnqueue
<1>4. QED
  BY <1>1, <1>2, <1>3, FreshTask DEF Executor!Admit

LEMMA AnswerMaps ==
  ASSUME RefInv, NEW c \in Caller, AwaitDone(c)
  PROVE  ctask[c] \in Task /\ Executor!Answer(ctask[c])
<1> DEFINE t == ctask[c]
<1>1. /\ t \in Task /\ done[t] /\ reply[t] = "none"
      /\ reply' = [reply EXCEPT ![t] = result[t]]
      /\ UNCHANGED <<pending, wpc, wtask, detached, outcome>>
  BY DEF AwaitDone, RefInv, IInv, CallInv, Submitting, AnswerInv, threadVars,
    histVars
<1>2. outcome[t] # "none" /\ result[t] = outcome[t]
  BY <1>1 DEF RefInv, IInv, MemoryInv, AnswerInv
<1>3. QED
  BY <1>1, <1>2 DEF Executor!Answer

LEMMA StartMaps == ASSUME RefInv, WorkerTake PROVE Executor!StartNext
<1>1. pending # << >> /\ Head(pending) = head
  BY TakenTask DEF RefInv
<1>2. QED
  BY <1>1 DEF WorkerTake, callVars, Executor!StartNext

LEMMA FinishMaps ==
  ASSUME RefInv, NEW r \in RunResult, WorkerRan(r) PROVE Executor!Finish
<1>1. wpc = "run" /\ wtask \in Task /\ wtask # NoTask /\ r \in DeviceResult
  BY DEF WorkerRan, RefInv, IInv, WorkerInv, RunResult, DeviceResult
<1>2. QED
  BY <1>1, SameWords DEF WorkerRan, callVars, Executor!Finish

LEMMA WithdrawMaps == ASSUME RefInv, CancelDetach PROVE Executor!Withdraw
<1>1. detached = << >>
  BY DEF CancelDetach, RefInv, IInv, CancelInv
<1>2. Range(detached) = {}
  BY <1>1 DEF Range
<1>3. QED
  BY <1>2, SameWords DEF CancelDetach, threadVars, Executor!Withdraw

LEMMA CancelMaps ==
  ASSUME RefInv, CancelTask
  PROVE  ctask[Owner] \in Task /\ Executor!Cancel(ctask[Owner])
<1> DEFINE t == ctask[Owner]
<1>1. /\ detached \in Seq(Task) /\ detached # << >> /\ t = detached[1]
      /\ Distinct(detached)
  BY DEF CancelTask, RefInv, IInv, TypeOK, CancelInv, Holds
<1>2. t \in Task
  BY <1>1, TailFacts
<1>3. t \in Range(detached)
  BY <1>1, TailFacts, RangeEquality
<1>4. Range(Tail(detached)) = Range(detached) \ {t}
  <2>1. /\ Range(detached) = {detached[i] : i \in 1..Len(detached)}
        /\ Range(Tail(detached)) =
             {Tail(detached)[i] : i \in 1..Len(Tail(detached))}
    <3>1. Tail(detached) \in Seq(Task)
      BY <1>1, TailFacts
    <3>2. QED
      BY <1>1, <3>1, RangeEquality
  <2>2. \A i \in 1..Len(Tail(detached)) :
          /\ i + 1 \in 1..Len(detached)
          /\ Tail(detached)[i] = detached[i + 1] /\ detached[i + 1] # t
    BY <1>1, TailFacts DEF Distinct
  <2>3. \A j \in 1..Len(detached) : detached[j] # t =>
          /\ j - 1 \in 1..Len(Tail(detached))
          /\ Tail(detached)[j - 1] = detached[j]
    BY <1>1, TailFacts
  <2>4. QED
    BY <2>1, <2>2, <2>3
<1>5. QED
  BY <1>2, <1>3, <1>4 DEF CancelTask, threadVars, Executor!Cancel

(* What the other steps do inside the worker the executor does not see. *)
LEMMA InsideStutters ==
  ASSUME RefInv,
         \/ StartWorker \/ StartWorkerFails
         \/ \E c \in Caller, t \in Task, w \in BOOLEAN : SubmitCreate(c, t, w)
         \/ \E c \in Caller : \/ AwaitBlock(c) \/ SubmitRelease(c)
                              \/ SubmitterWakesSpuriously(c)
         \/ WorkerWait \/ WorkerWakesSpuriously \/ WorkerExit
         \/ WorkerComplete \/ WorkerDiscard
         \/ CancelUnlink \/ CancelReturns \/ StopBegin \/ StopReturns
         \/ Rest \/ UNCHANGED vars
  PROVE  Stutters
<1>1. UNCHANGED <<pending, detached, outcome, reply>>
  BY DEF StartWorker, StartWorkerFails, SubmitCreate, AwaitBlock,
    SubmitRelease, SubmitterWakesSpuriously, WorkerWait,
    WorkerWakesSpuriously, WorkerExit, WorkerComplete, WorkerDiscard,
    CancelUnlink, CancelReturns, StopBegin, StopReturns, Rest, vars, callVars,
    histVars
<1>2. \/ UNCHANGED <<wpc, wtask>>
      \/ wpc # "run" /\ wpc' # "run"
  BY DEF StartWorker, StartWorkerFails, SubmitCreate, AwaitBlock,
    SubmitRelease, SubmitterWakesSpuriously, WorkerWait,
    WorkerWakesSpuriously, WorkerExit, WorkerComplete, WorkerDiscard,
    CancelUnlink, CancelReturns, StopBegin, StopReturns, SignalWorker, Rest,
    vars, threadVars
<1>3. QED
  BY <1>1, <1>2 DEF Stutters, Active

LEMMA StepMaps == RefInv /\ [Next]_vars => [Executor!Next]_Executor!vars
<1> SUFFICES ASSUME RefInv, [Next]_vars
             PROVE  [Executor!Next]_Executor!vars
  OBVIOUS
<1>1. ASSUME NEW c \in Caller, NEW t \in Task, SubmitFails(c, t)
      PROVE  Executor!Next
  BY <1>1, RefuseMaps DEF Executor!Next
<1>2. ASSUME NEW c \in Caller, SubmitRejected(c) PROVE Executor!Next
  <2>1. ctask[c] \in Task
    BY <1>2 DEF SubmitRejected, RefInv, IInv, CallInv, Submitting
  <2>2. Executor!Refuse(ctask[c])
    BY <1>2, <2>1, RefuseMaps
  <2>3. QED
    BY <2>1, <2>2 DEF Executor!Next
<1>3. ASSUME NEW c \in Caller, SubmitEnqueue(c) PROVE Executor!Next
  <2>1. ctask[c] \in Task /\ Executor!Admit(ctask[c], wait[ctask[c]])
    BY <1>3, AdmitMaps
  <2>2. wait[ctask[c]] \in BOOLEAN
    BY <2>1 DEF RefInv, IInv, TypeOK
  <2>3. QED
    BY <2>1, <2>2 DEF Executor!Next
<1>4. ASSUME NEW c \in Caller, AwaitDone(c) PROVE Executor!Next
  BY <1>4, AnswerMaps DEF Executor!Next
<1>5. ASSUME WorkerTake PROVE Executor!Next
  BY <1>5, StartMaps DEF Executor!Next
<1>6. ASSUME NEW r \in RunResult, WorkerRan(r) PROVE Executor!Next
  BY <1>6, FinishMaps DEF Executor!Next
<1>7. ASSUME CancelDetach PROVE Executor!Next
  BY <1>7, WithdrawMaps DEF Executor!Next
<1>8. ASSUME CancelTask PROVE Executor!Next
  BY <1>8, CancelMaps DEF Executor!Next
<1>9. QED
  BY <1>1, <1>2, <1>3, <1>4, <1>5, <1>6, <1>7, <1>8, InsideStutters,
    StutterMaps DEF Next, SubmitStep, WorkerStep, OwnerStep

-----------------------------------------------------------------------------
(* RefInv holds in every state: besides IInv, every outcome is decided     *)
(* once, and is what the waiting submitter will read.                      *)
THEOREM AnswersInductive == SafeSpec => []RefInv
<1>1. Init => RefInv
  BY InitIInv, InitAnswerInv DEF RefInv
<1>2. RefInv /\ [Next]_vars => RefInv'
  BY AnswerInvStep, TypeOKStep, QueueInvStep, CancelInvStep, WorkerInvStep,
    CallInvStep, MemoryInvStep DEF RefInv, IInv
<1>3. QED
  BY <1>1, <1>2, PTL DEF SafeSpec

(* The worker, its linked list and its condition variables implement the   *)
(* executor: tasks start in the order of their submission, one at a time,  *)
(* each ends once, and a submitter is told the outcome of its own task.    *)
THEOREM Refinement == SafeSpec => ImplementsExecutorSafety
<1>1. Init => Executor!Init
  BY DEF Init, Executor!Init, Range
<1>2. RefInv /\ [Next]_vars => [Executor!Next]_Executor!vars
  BY StepMaps
<1>3. QED
  BY <1>1, <1>2, AnswersInductive, PTL
    DEF SafeSpec, ImplementsExecutorSafety, Executor!SafeSpec

=============================================================================
