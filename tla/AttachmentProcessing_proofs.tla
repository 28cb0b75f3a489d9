--------------------- MODULE AttachmentProcessing_proofs ---------------------
(***************************************************************************)
(* Theorems of AttachmentProcessing, for any set of attachments and of     *)
(* worker slots, any lease and any number of attempts.                     *)
(***************************************************************************)
EXTENDS AttachmentProcessing, TLAPS

\* What the row says of a busy worker's claim as long as the file exists: the
\* claim is of an issued attempt; while it is the row's own attempt the row is
\* running and exactly as old as the claim; once superseded it has expired.
ClaimOK(w) ==
  LET m == task[w].msg IN
  (Busy(w) /\ status[m.att] # "deleted") =>
    /\ m.attempt <= job[m.att].attempt
    /\ m.attempt = job[m.att].attempt =>
         job[m.att].state = "running" /\ task[w].age = job[m.att].age
    /\ m.attempt # job[m.att].attempt => task[w].age = Lease

IInv ==
  /\ TypeOK
  /\ \A w \in Workers : ClaimOK(w)
  /\ OneScannerPerAttempt
  /\ OutcomeIsCurrent

-----------------------------------------------------------------------------
\* The verdict of a finished check is a scan status (AttachmentProcessingService
\* .finish writes nothing else into the column).
LEMMA VerdictType ==
  ASSUME NEW old \in ScanStatuses, NEW r \in ScanResults \union {"raised"}
  PROVE  Verdict(old, r) \in ScanStatuses
BY DEF Verdict, ScanStatuses, ScanResults

\* A capped age stays in range (every age of the module).
LEMMA OlderType ==
  ASSUME NEW cap \in Nat, NEW age \in 0..cap
  PROVE  Older(age, cap) \in 0..cap
BY DEF Older

\* finish() leaves a well-typed row, whatever it decides.
LEMMA FinishType ==
  ASSUME TypeOK, NEW m \in Message, NEW expected,
         NEW r \in ScanResults \union {"raised"}, FinishJob(m, expected, r)
  PROVE  job' \in [Attachments -> Job] /\ author' \in [Attachments -> 0..MaxAttempts]
<1>1. CASE UNCHANGED <<job, author>>
  BY <1>1 DEF TypeOK
<1>2. CASE Current(m, expected)
  <2>1. m.att \in Attachments /\ m.attempt \in 1..MaxAttempts
    BY DEF Message
  <2>2. job[m.att] \in Job
    BY <2>1 DEF TypeOK
  <2>3. Verdict(job[m.att].scan, r) \in ScanStatuses
    BY <2>2, VerdictType DEF Job
  <2>5. job' \in [Attachments -> Job]
    BY <1>2, <2>1, <2>3, PositiveLease, NaturalBounds DEF FinishJob, TypeOK, Job, Settled
  <2>6. author' \in [Attachments -> 0..MaxAttempts]
    BY <1>2, <2>1, NaturalBounds DEF FinishJob, TypeOK
  <2>7. QED BY <2>5, <2>6
<1>3. QED BY <1>1, <1>2 DEF FinishJob

\* queue() issues a well-typed attempt.
LEMMA EnqueueType ==
  ASSUME TypeOK, NEW a \in Attachments, Enqueue(a)
  PROVE  /\ job' \in [Attachments -> Job]
         /\ outbox' \subseteq Message
         /\ author' \in [Attachments -> 0..MaxAttempts]
<1>1. job[a] \in Job /\ job[a].attempt \in 0..MaxAttempts /\ job[a].scan \in ScanStatuses
  BY DEF TypeOK, Job
<1>2. job[a].attempt + 1 \in 1..MaxAttempts
  BY <1>1, NaturalBounds DEF Enqueue
<1>3. job' \in [Attachments -> Job]
  BY <1>1, <1>2, PositiveLease, NaturalBounds DEF Enqueue, TypeOK, Job, InFlight
<1>4. [att |-> a, attempt |-> job[a].attempt + 1] \in Message
  BY <1>2 DEF Message
<1>5. QED BY <1>3, <1>4, NaturalBounds DEF Enqueue, TypeOK

-----------------------------------------------------------------------------
\* Every variable keeps its type, whatever order requests, publication,
\* delivery, scans, crashes and deletions come in.
THEOREM TypeCorrect == Spec => []TypeOK
<1> USE PositiveLease, NaturalBounds
<1>1. Init => TypeOK
  BY DEF Init, TypeOK, NoJob, Job, ScanStatuses, ScanResults, InFlight, Busy
<1>2. TypeOK /\ [Next]_vars => TypeOK'
  <2> SUFFICES ASSUME TypeOK, [Next]_vars PROVE TypeOK'
    OBVIOUS
  <2>1. ASSUME NEW a \in Attachments, Complete(a) PROVE TypeOK'
    BY <2>1, EnqueueType DEF Complete, TypeOK, Busy
  <2>2. ASSUME NEW a \in Attachments, Retry(a) PROVE TypeOK'
    BY <2>2, EnqueueType DEF Retry, TypeOK, Busy
  <2>3. ASSUME NEW a \in Attachments, Delete(a) PROVE TypeOK'
    <3>1. job' \in [Attachments -> Job]
      BY <2>3 DEF Delete, TypeOK, Job, NoJob, ScanStatuses, ScanResults
    <3>2. QED BY <2>3, <3>1 DEF Delete, TypeOK, Busy
  <2>4. ASSUME NEW m \in Message, Publish(m) PROVE TypeOK'
    BY <2>4 DEF Publish, TypeOK, Busy
  <2>5. ASSUME NEW m \in Message, RecordUnsent(m) PROVE TypeOK'
    BY <2>5, FinishType DEF RecordUnsent, TypeOK, Busy
  <2>6. ASSUME NEW m \in Message, IgnoreMessage(m) PROVE TypeOK'
    BY <2>6 DEF IgnoreMessage, TypeOK, Busy
  <2>7. ASSUME NEW w \in Workers, Scan(w) PROVE TypeOK'
    BY <2>7 DEF Scan, TypeOK, Busy, Task
  <2>8. ASSUME NEW w \in Workers, Report(w) PROVE TypeOK'
    <3>1. task[w] \in Task
      BY <2>8 DEF Report, TypeOK, Busy
    <3>2. task[w].msg \in Message /\ task[w].result \in ScanResults \union {"raised"}
      BY <3>1 DEF Task
    <3>3. job' \in [Attachments -> Job] /\ author' \in [Attachments -> 0..MaxAttempts]
      BY <2>8, <3>2, FinishType DEF Report
    <3>4. \A v \in Workers : Busy(v)' => task'[v] \in Task
      BY <2>8 DEF Report, TypeOK, Busy
    <3>5. QED BY <2>8, <3>3, <3>4 DEF Report, TypeOK
  <2>9. ASSUME NEW w \in Workers, NEW m \in Message, Claim(w, m) PROVE TypeOK'
    <3>1. job' \in [Attachments -> Job]
      BY <2>9 DEF Claim, TypeOK, Job, Message, InFlight
    <3>2. [msg |-> m, result |-> "raised", age |-> 0] \in Task
      BY DEF Task
    <3>3. task' \in [Workers -> Task \union {NoTask}]
      BY <2>9, <3>2 DEF Claim, TypeOK
    <3>4. \A v \in Workers : Busy(v)' => task'[v] \in Task
      BY <2>9, <3>2 DEF Claim, TypeOK, Busy
    <3>5. QED BY <2>9, <3>1, <3>3, <3>4 DEF Claim, TypeOK
  <2>10. CASE Tick
    <3>1. job' \in [Attachments -> Job]
      <4> SUFFICES ASSUME NEW a \in Attachments PROVE job'[a] \in Job
        BY <2>10 DEF Tick
      <4>1. job[a] \in Job
        BY DEF TypeOK
      <4>2. Older(job[a].age, Lease) \in 0..Lease
        BY <4>1, OlderType DEF Job
      <4>3. QED BY <2>10, <4>1, <4>2 DEF Tick, Job
    <3>2. \A w \in Workers : Busy(w)' => task'[w] \in Task
      <4> SUFFICES ASSUME NEW w \in Workers, Busy(w) PROVE task'[w] \in Task
        BY <2>10 DEF Tick, Busy
      <4>1. task[w] \in Task
        BY DEF TypeOK
      <4>2. Older(task[w].age, Lease) \in 0..Lease
        BY <4>1, OlderType DEF Task
      <4>3. QED BY <2>10, <4>1, <4>2 DEF Tick, Task
    <3>3. grant' \in [Attachments -> 0..GrantPeriod]
      BY <2>10, OlderType DEF Tick, TypeOK
    <3>4. task' \in [Workers -> Task \union {NoTask}]
      BY <2>10, <3>2 DEF Tick, TypeOK, Busy
    <3>5. QED BY <2>10, <3>1, <3>2, <3>3, <3>4 DEF Tick, TypeOK
  <2>11. ASSUME NEW m \in Message, Fault(m) PROVE TypeOK'
    <3>1. CASE PublishRaises(m)
      BY <3>1 DEF PublishRaises, TypeOK, Busy
    <3>2. CASE ForgetMessage(m)
      BY <3>2 DEF ForgetMessage, TypeOK, Busy
    <3>3. CASE LoseMessage(m)
      BY <3>3 DEF LoseMessage, TypeOK, Busy
    <3>4. ASSUME NEW w \in Workers, WorkerStops(w) PROVE TypeOK'
      BY <3>4 DEF WorkerStops, TypeOK, Busy
    <3>5. QED BY <2>11, <3>1, <3>2, <3>3, <3>4 DEF Fault
  <2>12. CASE UNCHANGED vars
    BY <2>12 DEF vars, TypeOK, Busy
  <2>13. QED
    BY <2>1, <2>2, <2>3, <2>4, <2>5, <2>6, <2>7, <2>8, <2>9, <2>10, <2>11, <2>12
       DEF Next, Work
<1>3. QED BY <1>1, <1>2, PTL DEF Spec

-----------------------------------------------------------------------------
\* A step that leaves rows, claims and authors alone preserves the invariant
\* (publication, loss and dropping of messages).
LEMMA MessagesOnly ==
  ASSUME IInv, TypeOK', UNCHANGED <<status, job, pc, task, author>>
  PROVE  IInv'
BY DEF IInv, ClaimOK, OneScannerPerAttempt, OutcomeIsCurrent, Busy

\* Issuing an attempt is safe when the row is idle, settled, or expired.
LEMMA EnqueueInv ==
  ASSUME IInv, TypeOK', NEW a \in Attachments, Enqueue(a), ~LeaseHeld(a),
         status'[a] # "deleted", status[a] # "deleted",
         \A b \in Attachments : b # a => status'[b] = status[b],
         UNCHANGED <<pc, task>>
  PROVE  IInv'
<1>1. ASSUME NEW w \in Workers PROVE ClaimOK(w)'
  <2> SUFFICES ASSUME Busy(w), status'[task[w].msg.att] # "deleted"
               PROVE  ClaimOK(w)'
    BY DEF ClaimOK, Busy
  <2> DEFINE m == task[w].msg
  <2>1. m.att \in Attachments /\ m.attempt \in 1..MaxAttempts /\ task[w].age \in 0..Lease
    BY DEF IInv, TypeOK, Task, Message
  <2>2. job[a] \in Job /\ job[m.att] \in Job
    BY <2>1 DEF IInv, TypeOK
  <2>3. /\ m.attempt <= job[m.att].attempt
        /\ m.attempt = job[m.att].attempt =>
             job[m.att].state = "running" /\ task[w].age = job[m.att].age
        /\ m.attempt # job[m.att].attempt => task[w].age = Lease
    BY <2>1 DEF IInv, ClaimOK
  <2>4. CASE m.att # a
    BY <2>1, <2>3, <2>4 DEF Enqueue, IInv, TypeOK, ClaimOK
  <2>5. CASE m.att = a
    <3>1. task[w].age = Lease
      BY <2>2, <2>3, <2>5, PositiveLease DEF LeaseHeld, InFlight, Job
    <3>2. job'[a].attempt = job[a].attempt + 1
      BY DEF Enqueue, IInv, TypeOK
    <3>3. m.attempt < job'[a].attempt
      BY <2>1, <2>2, <2>3, <2>5, <3>2, NaturalBounds DEF Job
    <3>4. QED BY <2>1, <2>5, <3>1, <3>2, <3>3, <2>2, NaturalBounds DEF ClaimOK, Job
  <2>6. QED BY <2>4, <2>5
<1>2. OneScannerPerAttempt'
  BY DEF IInv, OneScannerPerAttempt, Busy
<1>3. OutcomeIsCurrent'
  BY DEF Enqueue, IInv, OutcomeIsCurrent, TypeOK, Settled
<1>4. QED BY <1>1, <1>2, <1>3 DEF IInv

\* finish() touches no claim but the caller's own: the row it settles is held
\* by no busy worker once the caller is out of the way.
LEMMA FinishInv ==
  ASSUME IInv, TypeOK', NEW m \in Message, NEW expected,
         NEW r \in ScanResults \union {"raised"}, FinishJob(m, expected, r),
         UNCHANGED status,
         \A w \in Workers : Busy(w)' => /\ Busy(w) /\ task'[w] = task[w]
                                        /\ Current(m, expected) => task[w].msg # m
  PROVE  IInv'
<1>0. m.att \in Attachments /\ m.attempt \in 1..MaxAttempts
  BY DEF Message
<1>1. ASSUME NEW w \in Workers PROVE ClaimOK(w)'
  <2> SUFFICES ASSUME Busy(w)', status'[task'[w].msg.att] # "deleted"
               PROVE  ClaimOK(w)'
    BY DEF ClaimOK
  <2>1. Busy(w) /\ task'[w] = task[w] /\ task[w].msg \in Message /\ task[w] \in Task
    BY DEF IInv, TypeOK, Task
  <2>2. ClaimOK(w) /\ status[task[w].msg.att] # "deleted"
    BY <2>1 DEF IInv
  <2>3. CASE UNCHANGED <<job, author>>
    BY <2>1, <2>2, <2>3 DEF ClaimOK
  <2>4. CASE Current(m, expected)
    <3>1. task[w].msg # m
      BY <2>1, <2>4
    <3>2. task[w].msg.att # m.att \/ task[w].msg.attempt # m.attempt
      BY <2>1, <3>1 DEF Message
    <3>3. job'[m.att].attempt = job[m.att].attempt
            /\ \A a \in Attachments : a # m.att => job'[a] = job[a]
      BY <1>0, <2>4 DEF FinishJob, Current, IInv, TypeOK
    <3>4. CASE task[w].msg.att # m.att
      BY <2>1, <2>2, <3>3, <3>4 DEF ClaimOK, Message
    <3>5. CASE task[w].msg.att = m.att /\ task[w].msg.attempt # m.attempt
      BY <2>1, <2>2, <2>4, <3>3, <3>5 DEF ClaimOK, Current
    <3>6. QED BY <3>2, <3>4, <3>5
  <2>5. QED BY <2>3, <2>4 DEF FinishJob
<1>2. OneScannerPerAttempt'
  BY DEF IInv, OneScannerPerAttempt
<1>3. OutcomeIsCurrent'
  <2>1. CASE UNCHANGED <<job, author>>
    BY <2>1 DEF IInv, OutcomeIsCurrent
  <2>2. CASE Current(m, expected)
    <3>1. job'[m.att].attempt = m.attempt /\ job'[m.att].state \in Settled
      BY <1>0, <2>2 DEF FinishJob, IInv, TypeOK, Current, Settled
    <3>2. author' = [author EXCEPT ![m.att] = m.attempt]
            /\ \A a \in Attachments : a # m.att => job'[a] = job[a]
      BY <1>0, <2>2 DEF FinishJob, IInv, TypeOK
    <3>3. QED BY <1>0, <3>1, <3>2 DEF IInv, OutcomeIsCurrent, TypeOK
  <2>3. QED BY <2>1, <2>2 DEF FinishJob
<1>4. QED BY <1>1, <1>2, <1>3 DEF IInv

-----------------------------------------------------------------------------
LEMMA InitInv == Init => IInv
<1> SUFFICES ASSUME Init PROVE IInv
  OBVIOUS
<1>1. TypeOK
  BY PositiveLease, NaturalBounds
     DEF Init, TypeOK, NoJob, Job, ScanStatuses, ScanResults, InFlight, Busy
<1>2. QED
  BY <1>1 DEF Init, IInv, ClaimOK, OneScannerPerAttempt, OutcomeIsCurrent, Busy, NoJob, Settled

LEMMA NextInv ==
  ASSUME IInv, TypeOK', [Next]_vars
  PROVE  IInv'
<1> USE PositiveLease, NaturalBounds
<1>1. ASSUME NEW a \in Attachments, Complete(a) PROVE IInv'
  <2>1. ~LeaseHeld(a)
    BY <1>1 DEF Complete, LeaseHeld, InFlight
  <2>2. status'[a] # "deleted" /\ \A b \in Attachments : b # a => status'[b] = status[b]
    BY <1>1 DEF Complete, IInv, TypeOK
  <2>3. QED BY <1>1, <2>1, <2>2, EnqueueInv DEF Complete
<1>2. ASSUME NEW a \in Attachments, Retry(a) PROVE IInv'
  BY <1>2, EnqueueInv DEF Retry
<1>3. ASSUME NEW a \in Attachments, Delete(a) PROVE IInv'
  <2>1. status' = [status EXCEPT ![a] = "deleted"] /\ UNCHANGED <<pc, task>>
    BY <1>3 DEF Delete
  <2>2. \A b \in Attachments : b # a => job'[b] = job[b]
    BY <1>3 DEF Delete, IInv, TypeOK
  <2>3. job'[a].state = "none" /\ author' = [author EXCEPT ![a] = 0]
    BY <1>3 DEF Delete, IInv, TypeOK, NoJob
  <2>4. \A w \in Workers : ClaimOK(w)'
    BY <2>1, <2>2 DEF IInv, TypeOK, ClaimOK, Busy, Task, Message
  <2>5. OneScannerPerAttempt'
    BY <2>1 DEF IInv, OneScannerPerAttempt, Busy
  <2>6. OutcomeIsCurrent'
    BY <2>2, <2>3 DEF IInv, TypeOK, OutcomeIsCurrent, Settled
  <2>7. QED BY <2>4, <2>5, <2>6 DEF IInv
<1>4. ASSUME NEW m \in Message, Publish(m) PROVE IInv'
  BY <1>4, MessagesOnly DEF Publish
<1>5. ASSUME NEW m \in Message, RecordUnsent(m) PROVE IInv'
  <2>1. \A w \in Workers : Busy(w) /\ Current(m, "queued") => task[w].msg # m
    BY DEF IInv, ClaimOK, Current
  <2>2. \A w \in Workers : Busy(w)' => /\ Busy(w) /\ task'[w] = task[w]
                                       /\ Current(m, "queued") => task[w].msg # m
    BY <1>5, <2>1 DEF RecordUnsent, Busy
  <2>3. FinishJob(m, "queued", "raised") /\ UNCHANGED status
    BY <1>5 DEF RecordUnsent
  <2>4. QED BY <2>2, <2>3, FinishInv
<1>6. ASSUME NEW m \in Message, IgnoreMessage(m) PROVE IInv'
  BY <1>6, MessagesOnly DEF IgnoreMessage
<1>7. ASSUME NEW w \in Workers, Scan(w) PROVE IInv'
  <2>1. /\ UNCHANGED <<status, job, author>>
        /\ \A v \in Workers : Busy(v)' = Busy(v)
    BY <1>7 DEF Scan, IInv, TypeOK, Busy
  <2>2. \A v \in Workers : Busy(v) => task'[v].msg = task[v].msg /\ task'[v].age = task[v].age
    BY <1>7 DEF Scan, IInv, TypeOK, Busy, Task
  <2>3. \A v \in Workers : ClaimOK(v)'
    BY <2>1, <2>2 DEF IInv, ClaimOK
  <2>4. OneScannerPerAttempt'
    BY <2>1, <2>2 DEF IInv, OneScannerPerAttempt
  <2>5. QED BY <2>1, <2>3, <2>4 DEF IInv, OutcomeIsCurrent
<1>8. ASSUME NEW w \in Workers, Report(w) PROVE IInv'
  <2> DEFINE m == task[w].msg
  <2>1. m \in Message /\ task[w].result \in ScanResults \union {"raised"} /\ Busy(w)
    BY <1>8 DEF Report, IInv, TypeOK, Task, Busy
  <2>2. \A v \in Workers : Busy(v)' => v # w /\ Busy(v) /\ task'[v] = task[v]
    BY <1>8 DEF Report, IInv, TypeOK, Busy
  <2>3. \A v \in Workers : Busy(v)' => task[v].msg # m
    BY <2>1, <2>2 DEF IInv, OneScannerPerAttempt
  <2>4. FinishJob(m, "running", task[w].result) /\ UNCHANGED status
    BY <1>8 DEF Report
  <2>5. QED BY <2>1, <2>2, <2>3, <2>4, FinishInv
<1>9. ASSUME NEW w \in Workers, NEW m \in Message, Claim(w, m) PROVE IInv'
  <2>1. m.att \in Attachments /\ Current(m, "queued") /\ UNCHANGED <<status, author>>
    BY <1>9 DEF Claim, Message
  <2>2. job' = [job EXCEPT ![m.att].state = "running", ![m.att].age = 0]
    BY <1>9 DEF Claim
  <2>3. /\ job'[m.att].state = "running" /\ job'[m.att].age = 0
        /\ job'[m.att].attempt = m.attempt
        /\ \A a \in Attachments : a # m.att => job'[a] = job[a]
    BY <2>1, <2>2 DEF IInv, TypeOK, Job, Current
  <2>4. task'[w].msg = m /\ task'[w].age = 0
    BY <1>9 DEF Claim, IInv, TypeOK
  <2>5. \A v \in Workers : v # w => task'[v] = task[v] /\ Busy(v)' = Busy(v)
    BY <1>9 DEF Claim, IInv, TypeOK, Busy
  <2>6. \A v \in Workers : Busy(v) => task[v].msg # m
    BY <2>1 DEF IInv, ClaimOK, Current
  <2>7. ASSUME NEW v \in Workers PROVE ClaimOK(v)'
    <3>1. CASE v = w
      BY <2>3, <2>4, <3>1, <2>1 DEF ClaimOK, Message
    <3>2. CASE v # w /\ Busy(v) /\ task[v].msg.att = m.att
      <4>1. task[v].msg.attempt # m.attempt
        BY <2>1, <3>2 DEF IInv, ClaimOK, Current
      <4>2. QED BY <2>1, <2>3, <2>5, <3>2, <4>1 DEF IInv, ClaimOK, Current
    <3>3. CASE v # w /\ ~(Busy(v) /\ task[v].msg.att = m.att)
      BY <2>1, <2>3, <2>5, <3>3 DEF IInv, TypeOK, Task, Message, ClaimOK
    <3>4. QED BY <3>1, <3>2, <3>3
  <2>8. OneScannerPerAttempt'
    BY <2>4, <2>5, <2>6 DEF IInv, OneScannerPerAttempt
  <2>9. OutcomeIsCurrent'
    BY <2>1, <2>3 DEF IInv, OutcomeIsCurrent, Current, Settled
  <2>10. QED BY <2>7, <2>8, <2>9 DEF IInv
<1>10. CASE Tick
  <2>1. UNCHANGED <<status, pc, author>>
    BY <1>10 DEF Tick
  <2>2. \A a \in Attachments : /\ job'[a].attempt = job[a].attempt
                               /\ job'[a].state = job[a].state
                               /\ job[a].state = "running" =>
                                    job'[a].age = Older(job[a].age, Lease)
    BY <1>10 DEF Tick, IInv, TypeOK, Job, InFlight
  <2>3. \A w \in Workers : Busy(w) => /\ task'[w].msg = task[w].msg
                                      /\ task'[w].age = Older(task[w].age, Lease)
    BY <1>10 DEF Tick, IInv, TypeOK, Task
  <2>4. Older(Lease, Lease) = Lease
    BY DEF Older
  <2>5. ASSUME NEW w \in Workers PROVE ClaimOK(w)'
    BY <2>1, <2>2, <2>3, <2>4 DEF IInv, TypeOK, Task, Message, ClaimOK, Busy
  <2>6. OneScannerPerAttempt'
    BY <2>1, <2>3 DEF IInv, OneScannerPerAttempt, Busy
  <2>7. OutcomeIsCurrent'
    BY <2>1, <2>2 DEF IInv, OutcomeIsCurrent
  <2>8. QED BY <2>5, <2>6, <2>7 DEF IInv
<1>11. ASSUME NEW m \in Message, Fault(m) PROVE IInv'
  <2>1. CASE PublishRaises(m)
    BY <2>1, MessagesOnly DEF PublishRaises
  <2>2. CASE ForgetMessage(m)
    BY <2>2, MessagesOnly DEF ForgetMessage
  <2>3. CASE LoseMessage(m)
    BY <2>3, MessagesOnly DEF LoseMessage
  <2>4. ASSUME NEW w \in Workers, WorkerStops(w) PROVE IInv'
    <3>1. \A v \in Workers : Busy(v)' => Busy(v) /\ task'[v] = task[v]
      BY <2>4 DEF WorkerStops, IInv, TypeOK, Busy
    <3>2. UNCHANGED <<status, job, author>>
      BY <2>4 DEF WorkerStops
    <3>3. QED BY <3>1, <3>2 DEF IInv, ClaimOK, OneScannerPerAttempt, OutcomeIsCurrent
  <2>5. QED BY <1>11, <2>1, <2>2, <2>3, <2>4 DEF Fault
<1>12. CASE UNCHANGED vars
  BY <1>12, MessagesOnly DEF vars
<1>13. QED
  BY <1>1, <1>2, <1>3, <1>4, <1>5, <1>6, <1>7, <1>8, <1>9, <1>10, <1>11, <1>12
     DEF Next, Work

\* The strengthened invariant holds in every reachable state.
THEOREM Invariance == Spec => []IInv
<1>1. Init => IInv
  BY InitInv
<1>2. IInv /\ TypeOK' /\ [Next]_vars => IInv'
  BY NextInv
<1>3. QED BY <1>1, <1>2, TypeCorrect, PTL DEF Spec

-----------------------------------------------------------------------------
\* claim() is exclusive for any number of workers and duplicate deliveries.
THEOREM Exclusion == Spec => []OneScannerPerAttempt
<1>1. IInv => OneScannerPerAttempt
  BY DEF IInv
<1>2. QED BY <1>1, Invariance, PTL

\* A late publication failure never fails an attempt a worker is scanning for.
THEOREM LiveClaims == Spec => []LiveClaimIsRunning
<1>1. IInv => LiveClaimIsRunning
  BY DEF IInv, ClaimOK, LiveClaimIsRunning
<1>2. QED BY <1>1, Invariance, PTL

\* For any lease: an attempt is superseded under a busy worker only once the
\* worker's claim is at least a lease old.
THEOREM Takeover == Spec => []NoEarlyTakeover
<1>1. IInv => NoEarlyTakeover
  BY DEF IInv, ClaimOK, NoEarlyTakeover
<1>2. QED BY <1>1, Invariance, PTL

\* The outcome on the row is always the current attempt's own.
THEOREM Fencing == Spec => []OutcomeIsCurrent
<1>1. IInv => OutcomeIsCurrent
  BY DEF IInv
<1>2. QED BY <1>1, Invariance, PTL

\* What the runs check as one invariant: types, exclusive and live claims, outcomes
\* of the current attempt (claim(), fail_dispatch() and finish() are all fenced).
THEOREM Soundness == Spec => []Inv
<1>1. TypeOK /\ OneScannerPerAttempt /\ LiveClaimIsRunning /\ OutcomeIsCurrent => Inv
  BY DEF Inv
<1>2. QED BY <1>1, TypeCorrect, Exclusion, LiveClaims, Fencing, PTL

-----------------------------------------------------------------------------
(* What each kind of step does to the job of every attachment: nothing, or *)
(* one step of the abstract job.                                           *)

AbsJob(a) == <<job[a].attempt, Phase(a), author[a]>>
AbsVars == <<[a \in Attachments |-> job[a].attempt], [a \in Attachments |-> Phase(a)], author>>

LEMMA AbstractStutter ==
  ASSUME TypeOK, TypeOK', \A a \in Attachments : AbsJob(a)' = AbsJob(a)
  PROVE  UNCHANGED AbsVars
<1>1. author' = author
  BY DEF AbsJob, TypeOK
<1>2. \A a \in Attachments : job'[a].attempt = job[a].attempt /\ Phase(a)' = Phase(a)
  BY DEF AbsJob
<1>3. QED BY <1>1, <1>2 DEF AbsVars

\* A step that changes one attachment's abstract job in one of the four ways of
\* FencedJob is that step of FencedJob.
LEMMA AbstractStep ==
  ASSUME TypeOK, TypeOK', NEW a \in Attachments,
         \A b \in Attachments : b # a => AbsJob(b)' = AbsJob(b),
         \/ /\ Phase(a) # "gone"
            /\ AbsJob(a)' = <<job[a].attempt + 1, "queued", 0>>
         \/ /\ Phase(a) = "queued"
            /\ AbsJob(a)' = <<job[a].attempt, "running", author[a]>>
         \/ /\ Phase(a) = "running" \/ (Phase(a) = "queued" /\ Phase(a)' = "failed")
            /\ Phase(a)' \in Settled
            /\ AbsJob(a)' = <<job[a].attempt, Phase(a)', job[a].attempt>>
         \/ /\ Phase(a) # "gone"
            /\ AbsJob(a)' = <<job[a].attempt, "gone", 0>>
  PROVE  Abstract!JobNext
<1> DEFINE A == [b \in Attachments |-> job[b].attempt]
           P == [b \in Attachments |-> Phase(b)]
<1>0. \A b \in Attachments : b # a => /\ job'[b].attempt = job[b].attempt
                                      /\ Phase(b)' = Phase(b)
                                      /\ author'[b] = author[b]
  BY DEF AbsJob
<1>1. author \in [Attachments -> 0..MaxAttempts] /\ author' \in [Attachments -> 0..MaxAttempts]
  BY DEF TypeOK
<1>2. CASE Phase(a) # "gone" /\ AbsJob(a)' = <<job[a].attempt + 1, "queued", 0>>
  <2>1. A' = [A EXCEPT ![a] = @ + 1] /\ P' = [P EXCEPT ![a] = "queued"]
    BY <1>0, <1>2 DEF AbsJob
  <2>2. author' = [author EXCEPT ![a] = 0]
    BY <1>0, <1>1, <1>2 DEF AbsJob
  <2>3. Abstract!Issue(a)
    BY <1>2, <2>1, <2>2 DEF Abstract!Issue
  <2>4. QED BY <2>3 DEF Abstract!JobNext
<1>3. CASE Phase(a) = "queued" /\ AbsJob(a)' = <<job[a].attempt, "running", author[a]>>
  <2>1. A' = A /\ P' = [P EXCEPT ![a] = "running"]
    BY <1>0, <1>3 DEF AbsJob
  <2>2. author' = author
    BY <1>0, <1>1, <1>3 DEF AbsJob
  <2>3. Abstract!Start(a)
    BY <1>3, <2>1, <2>2 DEF Abstract!Start
  <2>4. QED BY <2>3 DEF Abstract!JobNext
<1>4. CASE /\ Phase(a) = "running" \/ (Phase(a) = "queued" /\ Phase(a)' = "failed")
           /\ Phase(a)' \in Settled
           /\ AbsJob(a)' = <<job[a].attempt, Phase(a)', job[a].attempt>>
  <2>1. A' = A /\ P' = [P EXCEPT ![a] = Phase(a)']
    BY <1>0, <1>4 DEF AbsJob
  <2>2. author' = [author EXCEPT ![a] = A[a]]
    BY <1>0, <1>1, <1>4 DEF AbsJob
  <2>3. Phase(a)' \in Abstract!Outcomes
    BY <1>4 DEF Settled, Abstract!Outcomes
  <2>4. Abstract!Settle(a)
    BY <1>4, <2>1, <2>2, <2>3 DEF Abstract!Settle
  <2>5. QED BY <2>4 DEF Abstract!JobNext
<1>5. CASE Phase(a) # "gone" /\ AbsJob(a)' = <<job[a].attempt, "gone", 0>>
  <2>1. A' = A /\ P' = [P EXCEPT ![a] = "gone"]
    BY <1>0, <1>5 DEF AbsJob
  <2>2. author' = [author EXCEPT ![a] = 0]
    BY <1>0, <1>1, <1>5 DEF AbsJob
  <2>3. Abstract!Discard(a)
    BY <1>5, <2>1, <2>2 DEF Abstract!Discard
  <2>4. QED BY <2>3 DEF Abstract!JobNext
<1>6. QED BY <1>2, <1>3, <1>4, <1>5

\* Issuing an attempt is the abstract Issue.
LEMMA EnqueueStep ==
  ASSUME TypeOK, TypeOK', NEW a \in Attachments, Enqueue(a),
         status[a] # "deleted", status'[a] # "deleted",
         \A b \in Attachments : b # a => status'[b] = status[b]
  PROVE  Abstract!JobNext
<1>1. \A b \in Attachments : b # a => job'[b] = job[b] /\ author'[b] = author[b]
  BY DEF Enqueue, TypeOK
<1>2. job'[a].attempt = job[a].attempt + 1 /\ job'[a].state = "queued" /\ author'[a] = 0
  BY DEF Enqueue, TypeOK
<1>3. AbsJob(a)' = <<job[a].attempt + 1, "queued", 0>>
  BY <1>2 DEF AbsJob, Phase
<1>4. Phase(a) # "gone"
  BY DEF Phase, TypeOK, Job, InFlight, Settled
<1>5. \A b \in Attachments : b # a => AbsJob(b)' = AbsJob(b)
  BY <1>1 DEF AbsJob, Phase
<1>6. QED BY <1>3, <1>4, <1>5, AbstractStep

\* finish() is the abstract Settle, or nothing.
LEMMA FinishStep ==
  ASSUME TypeOK, TypeOK', NEW m \in Message, NEW expected, NEW r,
         FinishJob(m, expected, r), UNCHANGED status,
         expected = "running" \/ (expected = "queued" /\ r = "raised")
  PROVE  Abstract!JobNext \/ UNCHANGED AbsVars
<1>0. m.att \in Attachments
  BY DEF Message
<1>1. CASE UNCHANGED <<job, author>>
  BY <1>1, AbstractStutter DEF AbsJob, Phase
<1>2. CASE Current(m, expected)
  <2>1. /\ job'[m.att].attempt = job[m.att].attempt
        /\ job'[m.att].state = IF r = "raised" THEN "failed" ELSE "completed"
        /\ author'[m.att] = job[m.att].attempt
    BY <1>0, <1>2 DEF FinishJob, Current, TypeOK
  <2>2. \A b \in Attachments : b # m.att => job'[b] = job[b] /\ author'[b] = author[b]
    BY <1>0, <1>2 DEF FinishJob, TypeOK
  <2>3. Phase(m.att) = expected /\ status[m.att] # "deleted"
    BY <1>2 DEF Phase, Current
  <2>4. Phase(m.att)' = IF r = "raised" THEN "failed" ELSE "completed"
    BY <2>1, <2>3 DEF Phase
  <2>5. AbsJob(m.att)' = <<job[m.att].attempt, Phase(m.att)', job[m.att].attempt>>
    BY <2>1 DEF AbsJob
  <2>6. \A b \in Attachments : b # m.att => AbsJob(b)' = AbsJob(b)
    BY <2>2 DEF AbsJob, Phase
  <2>7. Phase(m.att)' \in Settled
    BY <2>4 DEF Settled
  <2>8. QED BY <1>0, <2>3, <2>4, <2>5, <2>6, <2>7, AbstractStep
<1>3. QED BY <1>1, <1>2 DEF FinishJob

\* The checks of an attachment implement the abstract fenced job.
THEOREM Refinement == Spec => ImplementsFencedJob
<1>1. Init => Abstract!JobInit
  BY DEF Init, Abstract!JobInit, Phase, NoJob
<1>2. TypeOK /\ TypeOK' /\ [Next]_vars => [Abstract!JobNext]_AbsVars
  <2> SUFFICES ASSUME TypeOK, TypeOK', [Next]_vars
               PROVE  Abstract!JobNext \/ UNCHANGED AbsVars
    OBVIOUS
  <2>1. ASSUME NEW a \in Attachments, Complete(a) PROVE Abstract!JobNext
    BY <2>1, EnqueueStep DEF Complete, TypeOK
  <2>2. ASSUME NEW a \in Attachments, Retry(a) PROVE Abstract!JobNext
    BY <2>2, EnqueueStep DEF Retry
  <2>3. ASSUME NEW a \in Attachments, Delete(a) PROVE Abstract!JobNext
    <3>1. job'[a].attempt = job[a].attempt /\ author'[a] = 0 /\ status'[a] = "deleted"
      BY <2>3 DEF Delete, TypeOK
    <3>2. \A b \in Attachments : b # a => /\ job'[b] = job[b] /\ author'[b] = author[b]
                                          /\ status'[b] = status[b]
      BY <2>3 DEF Delete, TypeOK
    <3>3. AbsJob(a)' = <<job[a].attempt, "gone", 0>>
      BY <3>1 DEF AbsJob, Phase
    <3>4. \A b \in Attachments : b # a => AbsJob(b)' = AbsJob(b)
      BY <3>2 DEF AbsJob, Phase
    <3>5. Phase(a) # "gone"
      BY <2>3 DEF Delete, Phase, TypeOK, Job, InFlight, Settled
    <3>6. QED BY <3>3, <3>4, <3>5, AbstractStep
  <2>4. ASSUME NEW m \in Message, RecordUnsent(m)
        PROVE  Abstract!JobNext \/ UNCHANGED AbsVars
    BY <2>4, FinishStep DEF RecordUnsent
  <2>5. ASSUME NEW w \in Workers, Report(w)
        PROVE  Abstract!JobNext \/ UNCHANGED AbsVars
    <3>1. task[w].msg \in Message
      BY <2>5 DEF Report, TypeOK, Task, Busy
    <3>2. FinishJob(task[w].msg, "running", task[w].result) /\ UNCHANGED status
      BY <2>5 DEF Report
    <3>3. QED BY <3>1, <3>2, FinishStep
  <2>6. ASSUME NEW w \in Workers, NEW m \in Message, Claim(w, m) PROVE Abstract!JobNext
    <3>1. m.att \in Attachments /\ UNCHANGED <<status, author>>
            /\ Phase(m.att) = "queued" /\ status[m.att] # "deleted"
      BY <2>6 DEF Claim, Message, Current, Phase
    <3>2. job' = [job EXCEPT ![m.att].state = "running", ![m.att].age = 0]
      BY <2>6 DEF Claim
    <3>3. /\ job'[m.att].attempt = job[m.att].attempt /\ job'[m.att].state = "running"
          /\ \A b \in Attachments : b # m.att => job'[b] = job[b]
      BY <3>1, <3>2 DEF TypeOK, Job
    <3>4. AbsJob(m.att)' = <<job[m.att].attempt, "running", author[m.att]>>
      BY <3>1, <3>3 DEF AbsJob, Phase
    <3>5. \A b \in Attachments : b # m.att => AbsJob(b)' = AbsJob(b)
      BY <3>1, <3>3 DEF AbsJob, Phase
    <3>6. QED BY <3>1, <3>4, <3>5, AbstractStep
  <2>7. CASE Tick
    <3>1. \A a \in Attachments : job'[a].attempt = job[a].attempt /\ job'[a].state = job[a].state
      BY <2>7 DEF Tick, TypeOK, Job
    <3>2. UNCHANGED <<status, author>>
      BY <2>7 DEF Tick
    <3>3. QED BY <3>1, <3>2, AbstractStutter DEF AbsJob, Phase
  <2>8. CASE UNCHANGED <<status, job, author>>
    BY <2>8, AbstractStutter DEF AbsJob, Phase
  <2>9. ASSUME NEW m \in Message, Publish(m) \/ IgnoreMessage(m) \/ Fault(m)
        PROVE  UNCHANGED <<status, job, author>>
    BY <2>9 DEF Publish, IgnoreMessage, Fault, PublishRaises, ForgetMessage, LoseMessage,
                WorkerStops
  <2>10. ASSUME NEW w \in Workers, Scan(w) PROVE UNCHANGED <<status, job, author>>
    BY <2>10 DEF Scan
  <2>11. CASE UNCHANGED vars
    BY <2>8, <2>11 DEF vars
  <2>12. QED
    BY <2>1, <2>2, <2>3, <2>4, <2>5, <2>6, <2>7, <2>8, <2>9, <2>10, <2>11 DEF Next, Work
<1>3. QED
  BY <1>1, <1>2, TypeCorrect, PTL
     DEF Spec, ImplementsFencedJob, Abstract!JobSpec, Abstract!jobVars, AbsVars

-----------------------------------------------------------------------------
\* What one step can do to the row of an attachment that keeps its attempt and
\* survives: nothing that matters, a claim of a queued attempt, or the settling
\* of one in flight.
LEMMA RowStep ==
  ASSUME TypeOK, [Next]_vars, NEW a \in Attachments,
         job'[a].attempt = job[a].attempt, status'[a] # "deleted"
  PROVE  \/ job'[a] = job[a]
         \/ job[a].state \in InFlight /\ job'[a].scan = job[a].scan
         \/ /\ job[a].state \in InFlight
            /\ \E r \in ScanResults \union {"raised"} :
                 /\ job'[a].scan = Verdict(job[a].scan, r)
                 /\ r # "raised" => /\ job[a].state = "running"
                                    /\ job'[a].state = "completed"
<1> DEFINE Goal == \/ job'[a] = job[a]
                   \/ job[a].state \in InFlight /\ job'[a].scan = job[a].scan
                   \/ /\ job[a].state \in InFlight
                      /\ \E r \in ScanResults \union {"raised"} :
                           /\ job'[a].scan = Verdict(job[a].scan, r)
                           /\ r # "raised" => /\ job[a].state = "running"
                                              /\ job'[a].state = "completed"
<1>0. job[a].attempt + 1 # job[a].attempt
  BY NaturalBounds DEF TypeOK, Job
<1>1. ASSUME NEW m \in Message, NEW r \in ScanResults \union {"raised"}, NEW expected,
             expected = "running" \/ (expected = "queued" /\ r = "raised"),
             FinishJob(m, expected, r)
      PROVE  Goal
  <2>1. CASE UNCHANGED <<job, author>> \/ m.att # a
    BY <1>1, <2>1 DEF FinishJob, TypeOK, Message
  <2>2. CASE Current(m, expected) /\ m.att = a
    <3>1. /\ job'[a].scan = Verdict(job[a].scan, r)
          /\ job'[a].state = IF r = "raised" THEN "failed" ELSE "completed"
      BY <1>1, <2>2 DEF FinishJob, TypeOK
    <3>2. job[a].state = expected
      BY <2>2 DEF Current
    <3>3. QED BY <1>1, <3>1, <3>2 DEF InFlight
  <2>3. QED BY <1>1, <2>1, <2>2 DEF FinishJob
<1>2. ASSUME NEW b \in Attachments, Enqueue(b) PROVE Goal
  BY <1>0, <1>2 DEF Enqueue, TypeOK
<1>3. ASSUME NEW b \in Attachments, Delete(b) PROVE Goal
  BY <1>3 DEF Delete, TypeOK
<1>4. ASSUME NEW m \in Message, RecordUnsent(m) PROVE Goal
  BY <1>1, <1>4 DEF RecordUnsent
<1>5. ASSUME NEW w \in Workers, Report(w) PROVE Goal
  <2>1. task[w].msg \in Message /\ task[w].result \in ScanResults \union {"raised"}
    BY <1>5 DEF Report, TypeOK, Task, Busy
  <2>2. QED BY <1>1, <1>5, <2>1 DEF Report
<1>6. ASSUME NEW w \in Workers, NEW m \in Message, Claim(w, m) PROVE Goal
  <2>1. m.att \in Attachments /\ job[m.att].state = "queued"
    BY <1>6 DEF Claim, Message, Current
  <2>2. job' = [job EXCEPT ![m.att].state = "running", ![m.att].age = 0]
    BY <1>6 DEF Claim
  <2>3. QED BY <2>1, <2>2 DEF TypeOK, Job, InFlight
<1>7. CASE Tick
  BY <1>7 DEF Tick, TypeOK, Job
<1>8. CASE UNCHANGED job
  BY <1>8
<1>9. QED
  BY <1>2, <1>3, <1>4, <1>5, <1>6, <1>7, <1>8
     DEF Next, Work, Fault, vars, Complete, Retry, Publish, IgnoreMessage, PublishRaises,
         ForgetMessage, LoseMessage, WorkerStops, Scan

\* An attempt's outcome never changes once written.
THEOREM Finality == Spec => OutcomeIsFinal
<1>1. TypeOK /\ [Next]_vars =>
        [\A a \in Attachments :
           (job[a].state \in Settled /\ job'[a].attempt = job[a].attempt
              /\ status'[a] # "deleted") => job'[a] = job[a]]_vars
  BY RowStep DEF InFlight, Settled
<1>2. QED BY <1>1, TypeCorrect, PTL DEF Spec, OutcomeIsFinal

\* A known infection goes away only with a completed, clean re-check.
THEOREM Stickiness == Spec => InfectionIsSticky
<1> DEFINE Cleared(a) == job[a].scan = "infected" /\ job'[a].scan # "infected"
                           /\ status'[a] # "deleted"
<1>1. ASSUME TypeOK, [Next]_vars, NEW a \in Attachments, Cleared(a)
      PROVE  job'[a].state = "completed" /\ job'[a].scan = "clean" /\ job[a].state = "running"
  <2>1. CASE job'[a].attempt = job[a].attempt
    BY <1>1, <2>1, RowStep DEF Verdict, ScanResults
  <2>2. CASE job'[a].attempt # job[a].attempt
    <3>1. ASSUME NEW m \in Message, NEW e, NEW r, FinishJob(m, e, r)
          PROVE  job'[a].attempt = job[a].attempt
      <4>1. CASE UNCHANGED <<job, author>>
        BY <4>1
      <4>2. CASE Current(m, e) /\ m.att # a
        BY <1>1, <3>1, <4>2 DEF FinishJob, TypeOK, Message
      <4>3. CASE Current(m, e) /\ m.att = a
        BY <1>1, <3>1, <4>3 DEF FinishJob, TypeOK
      <4>4. QED BY <3>1, <4>1, <4>2, <4>3 DEF FinishJob
    <3>2. \A b \in Attachments : Enqueue(b) => job'[a].scan = job[a].scan
      BY <1>1 DEF Enqueue, TypeOK
    <3>3. \A b \in Attachments : Delete(b) => b = a \/ job'[a] = job[a]
      BY <1>1 DEF Delete, TypeOK
    <3>8. ~Delete(a)
      BY <1>1 DEF Delete, TypeOK
    <3>4. \A w \in Workers : Report(w) => task[w].msg \in Message
      BY <1>1 DEF Report, TypeOK, Task, Busy
    <3>5. ASSUME NEW w \in Workers, NEW m \in Message, Claim(w, m)
          PROVE  job'[a].attempt = job[a].attempt
      <4>1. job' = [job EXCEPT ![m.att].state = "running", ![m.att].age = 0] /\ m.att \in Attachments
        BY <3>5 DEF Claim, Message
      <4>2. job[m.att] \in Job
        BY <1>1, <4>1 DEF TypeOK
      <4>3. job'[m.att].attempt = job[m.att].attempt
        BY <1>1, <4>1, <4>2 DEF TypeOK, Job
      <4>4. QED BY <1>1, <4>1, <4>3 DEF TypeOK
    <3>6. Tick => job'[a].attempt = job[a].attempt
      BY <1>1 DEF Tick, TypeOK, Job
    <3>7. QED
      BY <1>1, <2>2, <3>1, <3>2, <3>3, <3>4, <3>5, <3>6, <3>8
         DEF Next, Work, Fault, vars, Complete, Retry, Publish, RecordUnsent, IgnoreMessage,
             PublishRaises, ForgetMessage, LoseMessage, WorkerStops, Scan, Report
  <2>3. QED BY <2>1, <2>2
<1>2. TypeOK /\ [Next]_vars =>
        [\A a \in Attachments : Cleared(a) =>
            /\ job'[a].state = "completed" /\ job'[a].scan = "clean"
            /\ job[a].state = "running"]_vars
  BY <1>1
<1>3. QED BY <1>2, TypeCorrect, PTL DEF Spec, InfectionIsSticky
=============================================================================
