----------------------- MODULE DocumentIngestion_proofs -----------------------
(***************************************************************************)
(* Theorems of DocumentIngestion, for any documents and manuals, any       *)
(* number of worker slots and of pages, any lease and number of attempts.  *)
(***************************************************************************)
EXTENDS DocumentIngestion, TLAPS

Lives(d) == document[d] # "deleted"

\* What the row says of a claim as long as the document exists: the attempt was
\* issued; while it is the row's own the row is running and exactly as long silent as
\* the worker; once superseded the worker has been silent for a lease.
ClaimOK(w) ==
  LET m == task[w].msg IN
  (Claims(w) /\ Lives(m.doc)) =>
    /\ m.attempt <= job[m.doc].attempt
    /\ m.attempt = job[m.doc].attempt =>
         job[m.doc].state = "running" /\ task[w].age = job[m.doc].age
    /\ m.attempt # job[m.doc].attempt => task[w].age = Lease

\* What the pages say of it: those behind the worker have been dealt with, and of
\* those before it none is complete, unless another attempt has taken over.
WorkOK(w) ==
  LET m == task[w].msg IN
  /\ pc[w] \in {"claimed", "opened", "extracting"} => task[w].claimed
  /\ (Claims(w) /\ Lives(m.doc)) =>
       /\ \A p \in Pages \ task[w].left : pages[m.doc][p] # "none"
       /\ m.attempt = job[m.doc].attempt =>
            \A p \in task[w].left : pages[m.doc][p] # "completed"
       /\ pc[w] = "extracting" => job[m.doc].count = PageCount

IInv ==
  /\ TypeOK
  /\ \A w \in Workers : ClaimOK(w) /\ WorkOK(w)
  /\ OneWorkerPerAttempt
  /\ OutcomeIsCurrent
  /\ CompletedIsWhole

-----------------------------------------------------------------------------
(* Types *)

\* finish() leaves a well-typed row, whatever it decides.
LEMMA SettleType ==
  ASSUME TypeOK, NEW m \in Message, NEW state, NEW outcome \in Settled,
         Settle(m, state, outcome)
  PROVE  job' \in [Documents -> Job] /\ author' \in [Documents -> 0..MaxAttempts]
<1>1. m.doc \in Documents /\ m.attempt \in 1..MaxAttempts
  BY DEF Message
<1>2. job[m.doc] \in Job /\ job[m.doc].attempt \in 0..MaxAttempts /\ job[m.doc].count \in {0, PageCount}
  BY <1>1 DEF TypeOK, Job
<1>3. [attempt |-> job[m.doc].attempt, state |-> outcome, count |-> job[m.doc].count, age |-> 0] \in Job
  BY <1>2, PositiveNumbers DEF Job
<1>4. QED BY <1>1, <1>3, NaturalAttempts, SMTT(30) DEF Settle, TypeOK

\* A commit of the worker leaves a well-typed row.
LEMMA HeartbeatType ==
  ASSUME TypeOK, NEW m \in Message, NEW count \in {0, PageCount}, Heartbeat(m, count)
  PROVE  job' \in [Documents -> Job]
<1>1. m.doc \in Documents /\ job[m.doc].attempt \in 0..MaxAttempts
  BY DEF Message, TypeOK, Job
<1>2. [attempt |-> job[m.doc].attempt, state |-> "running", count |-> count, age |-> 0] \in Job
  BY <1>1, PositiveNumbers DEF Job, InFlight
<1>3. QED BY <1>1, <1>2 DEF Heartbeat, TypeOK

\* A worker slot that becomes busy, or idle, is well-typed.
LEMMA BecomeType ==
  ASSUME TypeOK, NEW w \in Workers,
         NEW stage \in {"idle", "claimed", "opened", "extracting", "raised"},
         NEW t \in Task \union {NoTask}, stage # "idle" => t \in Task, Become(w, stage, t)
  PROVE  /\ pc' \in [Workers -> {"idle", "claimed", "opened", "extracting", "raised"}]
         /\ task' \in [Workers -> Task \union {NoTask}]
         /\ \A v \in Workers : Busy(v)' => task'[v] \in Task
BY DEF Become, TypeOK, Busy

\* What a commit of a page makes of the claim.
LEMMA SavedTask ==
  ASSUME NEW t \in Task, NEW rest \in SUBSET Pages
  PROVE  /\ [t EXCEPT !.left = rest, !.age = 0] \in Task
         /\ [t EXCEPT !.left = rest, !.age = 0].msg = t.msg
         /\ [t EXCEPT !.left = rest, !.age = 0].left = rest
         /\ [t EXCEPT !.left = rest, !.age = 0].claimed = t.claimed
         /\ [t EXCEPT !.left = rest, !.age = 0].age = 0
<1>1. 0 \in 0..Lease
  BY PositiveNumbers
<1>2. QED BY <1>1 DEF Task

\* The slots are as they were.
LEMMA SlotsType ==
  ASSUME TypeOK, UNCHANGED slots
  PROVE  /\ pc' \in [Workers -> {"idle", "claimed", "opened", "extracting", "raised"}]
         /\ task' \in [Workers -> Task \union {NoTask}]
         /\ \A v \in Workers : Busy(v)' => task'[v] \in Task
BY DEF TypeOK, Busy, slots

LEMMA TickType ==
  ASSUME TypeOK, Tick
  PROVE  TypeOK'
<1>1. \A age \in 0..Lease : Older(age) \in 0..Lease
  BY PositiveNumbers DEF Older
<1>2. \A d \in Documents : job'[d] \in Job
  <2> SUFFICES ASSUME NEW d \in Documents PROVE job'[d] \in Job
    OBVIOUS
  <2>1. job[d] \in Job /\ job[d].age \in 0..Lease
    BY DEF TypeOK, Job
  <2>2. QED BY <1>1, <2>1 DEF Tick, Job
<1>3. \A w \in Workers : Busy(w) => task'[w] \in Task
  <2> SUFFICES ASSUME NEW w \in Workers, Busy(w) PROVE task'[w] \in Task
    OBVIOUS
  <2>1. task[w] \in Task /\ task[w].age \in 0..Lease
    BY DEF TypeOK, Task
  <2>2. QED BY <1>1, <2>1 DEF Tick, Task
<1>4. job' \in [Documents -> Job] /\ task' \in [Workers -> Task \union {NoTask}]
  BY <1>2, <1>3 DEF Tick, TypeOK
<1>5. QED BY <1>3, <1>4 DEF Tick, TypeOK, Busy, library, queues

LEMMA NextType ==
  ASSUME TypeOK, [Next]_vars
  PROVE  TypeOK'
<1> USE PositiveNumbers, NaturalAttempts
<1> USE DEF library, queues
<1>1. ASSUME NEW d \in Documents, SetStatus(d) \/ Scanned(d) PROVE TypeOK'
  BY <1>1, SlotsType DEF SetStatus, Scanned, TypeOK
<1>2. ASSUME NEW d \in Documents, Delete(d) PROVE TypeOK'
  <2>1. job[d].attempt \in 0..MaxAttempts
    BY DEF TypeOK, Job
  <2>2. [NoJob EXCEPT !.attempt = job[d].attempt] \in Job
    BY <2>1 DEF NoJob, Job
  <2>3. job' \in [Documents -> Job]
    BY <1>2, <2>2 DEF Delete, TypeOK
  <2>4. QED BY <1>2, <2>3, SlotsType DEF Delete, TypeOK
<1>3. ASSUME NEW d \in Documents, Queue(d) PROVE TypeOK'
  <2>1. job[d].attempt \in 0..MaxAttempts /\ job[d].count \in {0, PageCount}
    BY DEF TypeOK, Job
  <2>2. job[d].attempt + 1 \in 1..MaxAttempts
    BY <1>3, <2>1 DEF Queue
  <2>3. [attempt |-> job[d].attempt + 1, state |-> "queued", count |-> job[d].count, age |-> 0] \in Job
    BY <2>1, <2>2 DEF Job, InFlight
  <2>4. job' \in [Documents -> Job]
    BY <1>3, <2>3 DEF Queue, TypeOK
  <2>5. [doc |-> d, attempt |-> job[d].attempt + 1] \in Message
    BY <2>2 DEF Message
  <2>6. QED BY <1>3, <2>4, <2>5, SlotsType DEF Queue, TypeOK
<1>4. ASSUME NEW m \in Message, Publish(m) \/ IgnoreMessage(m) PROVE TypeOK'
  BY <1>4, SlotsType DEF Publish, IgnoreMessage, TypeOK
<1>5. ASSUME NEW m \in Message, RecordUnsent(m) PROVE TypeOK'
  <2>1. job' \in [Documents -> Job] /\ author' \in [Documents -> 0..MaxAttempts]
    BY <1>5, SettleType DEF RecordUnsent, Settled
  <2>2. QED BY <1>5, <2>1, SlotsType DEF RecordUnsent, TypeOK
<1>6. ASSUME NEW w \in Workers, NEW m \in Message, Claim(w, m) PROVE TypeOK'
  <2>1. job' \in [Documents -> Job]
    <3>1. job[m.doc].count \in {0, PageCount}
      BY DEF Message, TypeOK, Job
    <3>2. QED BY <1>6, <3>1, HeartbeatType DEF Claim
  <2>2. [msg |-> m, left |-> Pages \ Completed(m.doc), claimed |-> TRUE, age |-> 0] \in Task
    BY DEF Task
  <2>3. QED BY <1>6, <2>1, <2>2, BecomeType DEF Claim, TypeOK
<1>7. ASSUME NEW w \in Workers, NEW m \in Message, ClaimRaises(w, m) PROVE TypeOK'
  <2>1. [msg |-> m, left |-> {}, claimed |-> FALSE, age |-> 0] \in Task
    BY DEF Task
  <2>2. QED BY <1>7, <2>1, BecomeType DEF ClaimRaises, TypeOK
<1>8. ASSUME NEW w \in Workers,
             \/ ReadFile(w) \/ Overtaken(w) \/ Blocked(w) \/ Raise(w)
             \/ FinishLost(w) \/ WorkerStops(w)
      PROVE  TypeOK'
  <2>1. task[w] \in Task
    BY <1>8 DEF TypeOK, Busy, ReadFile, Overtaken, Blocked, Raise, FinishLost, WorkerStops
  <2>2. task[w].msg.doc \in Documents
    BY <2>1 DEF Task, Message
  <2>3. UNCHANGED <<document, infected, job, pages, queues, author>> /\ rules' \subseteq Documents
    BY <1>8, <2>2 DEF TypeOK, ReadFile, Overtaken, Blocked, Raise, FinishLost, WorkerStops
  <2>4. \E stage \in {"idle", "claimed", "opened", "extracting", "raised"}, t \in Task \union {NoTask} :
          (stage # "idle" => t \in Task) /\ Become(w, stage, t)
    BY <1>8, <2>1 DEF ReadFile, Overtaken, Blocked, Raise, FinishLost, WorkerStops, Leave
  <2>5. QED BY <2>3, <2>4, BecomeType DEF TypeOK
<1>9. ASSUME NEW w \in Workers, StartPages(w) PROVE TypeOK'
  <2>1. task[w] \in Task /\ task[w].msg \in Message
    BY <1>9 DEF TypeOK, Busy, StartPages, Task
  <2>2. job' \in [Documents -> Job]
    BY <1>9, <2>1, HeartbeatType DEF StartPages
  <2>3. [task[w] EXCEPT !.age = 0] \in Task
    BY <2>1 DEF Task
  <2>4. QED BY <1>9, <2>2, <2>3, BecomeType DEF StartPages, TypeOK
<1>10. ASSUME NEW w \in Workers, SavePage(w) PROVE TypeOK'
  <2>1. task[w] \in Task /\ task[w].msg \in Message /\ task[w].msg.doc \in Documents
        /\ task[w].left \subseteq Pages
    BY <1>10 DEF TypeOK, Busy, SavePage, Task, Message
  <2>2. job' \in [Documents -> Job]
    BY <1>10, <2>1, HeartbeatType DEF SavePage, TypeOK, Job
  <2>3. PICK p \in task[w].left, s \in PageStates :
          /\ pages' = [pages EXCEPT ![task[w].msg.doc][p] = s]
          /\ Become(w, "extracting", [task[w] EXCEPT !.left = @ \ {p}, !.age = 0])
    BY <1>10 DEF SavePage
  <2>4. [task[w] EXCEPT !.left = @ \ {p}, !.age = 0] \in Task
    <3> DEFINE rest == task[w].left \ {p}
    <3>1. rest \in SUBSET Pages
      BY <2>1
    <3> HIDE DEF rest
    <3>2. [task[w] EXCEPT !.left = rest, !.age = 0] \in Task
      BY <2>1, <3>1, SavedTask
    <3>3. QED BY <3>2 DEF rest
  <2>5. pages' \in [Documents -> [Pages -> PageStates \union {"none"}]]
    BY <2>1, <2>3 DEF TypeOK
  <2>6. QED BY <1>10, <2>2, <2>3, <2>4, <2>5, BecomeType DEF SavePage, TypeOK
<1>11. ASSUME NEW w \in Workers, Finish(w) \/ RecordError(w) PROVE TypeOK'
  <2>1. task[w] \in Task /\ task[w].msg \in Message /\ task[w].msg.doc \in Documents
    BY <1>11 DEF TypeOK, Busy, Finish, RecordError, Task, Message
  <2>2. \E state \in InFlight, outcome \in Settled : Settle(task[w].msg, state, outcome)
    BY <1>11 DEF Finish, RecordError, Outcome, Settled, InFlight
  <2>3. job' \in [Documents -> Job] /\ author' \in [Documents -> 0..MaxAttempts]
    BY <2>1, <2>2, SettleType
  <2>4. /\ UNCHANGED <<document, infected, pages, queues>> /\ rules' \subseteq Documents
        /\ Become(w, "idle", NoTask)
    BY <1>11, <2>1 DEF Finish, RecordError, Leave, TypeOK
  <2>5. QED BY <2>3, <2>4, BecomeType DEF TypeOK
<1>12. ASSUME NEW m \in Message, PublishRaises(m) \/ ForgetMessage(m) \/ LoseMessage(m)
       PROVE  TypeOK'
  BY <1>12, SlotsType DEF PublishRaises, ForgetMessage, LoseMessage, TypeOK
<1>13. CASE UNCHANGED vars
  BY <1>13, SlotsType DEF vars, slots, TypeOK
<1>14. QED
  BY <1>1, <1>2, <1>3, <1>4, <1>5, <1>6, <1>7, <1>8, <1>9, <1>10, <1>11, <1>12, <1>13, TickType
     DEF Next, Work, Fault, Proceed, ClaimBlocked

\* Every variable keeps its type, whatever order requests, publication, delivery,
\* page commits, crashes and deletions come in.
THEOREM TypeCorrect == Spec => []TypeOK
<1>1. Init => TypeOK
  BY PositiveNumbers, NaturalAttempts DEF Init, TypeOK, NoJob, Job, Busy
<1>2. QED BY <1>1, NextType, PTL DEF Spec

-----------------------------------------------------------------------------
(* The invariant *)

LEMMA TaskParts ==
  ASSUME TypeOK, NEW w \in Workers, Busy(w)
  PROVE  /\ task[w].msg \in Message /\ task[w].msg.doc \in Documents
         /\ task[w].msg.attempt \in 1..MaxAttempts
         /\ task[w].left \subseteq Pages /\ task[w].age \in 0..Lease
         /\ job[task[w].msg.doc] \in Job
         /\ job[task[w].msg.doc].attempt \in 0..MaxAttempts
         /\ job[task[w].msg.doc].age \in 0..Lease
<1>1. task[w].msg \in Message /\ task[w].left \subseteq Pages /\ task[w].age \in 0..Lease
  BY DEF TypeOK, Task
<1>2. task[w].msg.doc \in Documents /\ task[w].msg.attempt \in 1..MaxAttempts
  BY <1>1 DEF Message
<1>3. job[task[w].msg.doc] \in Job
  BY <1>2 DEF TypeOK
<1>4. QED BY <1>1, <1>2, <1>3 DEF Job

\* A claim that a step leaves as it is, or ends.
Same(w) ==
  /\ Claims(w)' => /\ Claims(w)
                   /\ task'[w].msg = task[w].msg /\ task'[w].left = task[w].left
                   /\ task'[w].age = task[w].age
                   /\ pc'[w] = "extracting" => pc[w] = "extracting"
  /\ pc'[w] \in {"claimed", "opened", "extracting"} => task'[w].claimed

LEMMA SameSlots ==
  ASSUME IInv, UNCHANGED slots
  PROVE  \A w \in Workers : Same(w)
BY DEF IInv, WorkOK, Same, Claims, Busy, slots

\* Steps that write neither rows nor pages, and end claims or leave them alone.
LEMMA QuietKeeps ==
  ASSUME IInv, TypeOK', UNCHANGED <<job, pages, author>>,
         \A d \in Documents : Lives(d)' <=> Lives(d), \A w \in Workers : Same(w)
  PROVE  IInv'
<1>1. ASSUME NEW w \in Workers, Claims(w)', Lives(task[w].msg.doc)'
      PROVE  Claims(w) /\ Lives(task[w].msg.doc)
  <2>1. Claims(w) /\ task'[w].msg = task[w].msg
    BY <1>1 DEF Same
  <2>2. task[w].msg.doc \in Documents
    BY <2>1, TaskParts DEF IInv, Claims
  <2>3. Lives(task[w].msg.doc)
    BY <1>1, <2>1, <2>2 DEF Lives
  <2>4. QED BY <2>1, <2>3
<1>2. \A w \in Workers : ClaimOK(w)'
  BY <1>1 DEF IInv, ClaimOK, Same
<1>3. \A w \in Workers : WorkOK(w)'
  BY <1>1 DEF IInv, WorkOK, Same
<1>4. OneWorkerPerAttempt'
  BY DEF IInv, OneWorkerPerAttempt, Same
<1>5. OutcomeIsCurrent' /\ CompletedIsWhole'
  BY DEF IInv, OutcomeIsCurrent, CompletedIsWhole, Completed
<1>6. QED BY <1>2, <1>3, <1>4, <1>5 DEF IInv

\* A row that is deleted, or set to a new attempt when its lease does not protect it.
LEMMA RowKeeps ==
  ASSUME IInv, TypeOK', NEW d \in Documents, UNCHANGED slots,
         \A e \in Documents : e # d => /\ job'[e] = job[e] /\ pages'[e] = pages[e]
                                       /\ author'[e] = author[e] /\ document'[e] = document[e],
         job'[d].state \notin Settled, author'[d] = 0,
         Lives(d)' => /\ Lives(d) /\ ~LeaseHeld(d) /\ pages'[d] = pages[d]
                      /\ job'[d].attempt = job[d].attempt + 1 /\ job'[d].count = job[d].count
  PROVE  IInv'
<1>1. \A w \in Workers : Busy(w)' = Busy(w) /\ Claims(w)' = Claims(w)
  BY DEF Claims, Busy, slots
<1>2. UNCHANGED <<pc, task>>
  BY DEF slots
<1>3. ASSUME NEW w \in Workers, Claims(w), Lives(task[w].msg.doc)'
      PROVE  ClaimOK(w)' /\ WorkOK(w)'
  <2> DEFINE m == task[w].msg
  <2>1. ClaimOK(w) /\ WorkOK(w) /\ m.doc \in Documents /\ m.attempt \in Nat
    BY <1>3, TaskParts, NaturalAttempts DEF IInv, Claims
  <2>2. CASE m.doc # d
    BY <1>1, <1>2, <1>3, <2>1, <2>2 DEF ClaimOK, WorkOK, Lives
  <2>3. CASE m.doc = d
    <3>1. job[d].attempt \in Nat /\ job[d].age \in 0..Lease
      BY <1>3, <2>3, TaskParts, NaturalAttempts DEF IInv, Claims
    <3>2. Lives(d)'
      BY <1>2, <1>3, <2>3
    <3>3. /\ Lives(d) /\ ~LeaseHeld(d) /\ pages'[d] = pages[d]
          /\ job'[d].attempt = job[d].attempt + 1 /\ job'[d].count = job[d].count
      BY <3>2
    <3>4. /\ m.attempt <= job[d].attempt
          /\ m.attempt = job[d].attempt => job[d].state = "running" /\ task[w].age = job[d].age
          /\ m.attempt # job[d].attempt => task[w].age = Lease
      BY <1>3, <2>1, <2>3, <3>3 DEF ClaimOK
    <3>5. task[w].age = Lease
      BY <3>1, <3>3, <3>4, PositiveNumbers DEF LeaseHeld, InFlight
    <3>6. m.attempt < job'[d].attempt
      BY <2>1, <3>1, <3>3, <3>4
    <3>7. ClaimOK(w)'
      BY <1>2, <2>1, <2>3, <3>1, <3>3, <3>5, <3>6 DEF ClaimOK
    <3>8. WorkOK(w)'
      BY <1>1, <1>2, <1>3, <2>1, <2>3, <3>1, <3>3, <3>6 DEF WorkOK
    <3>9. QED BY <3>7, <3>8
  <2>4. QED BY <2>2, <2>3
<1>4. \A w \in Workers : ClaimOK(w)' /\ WorkOK(w)'
  BY <1>1, <1>2, <1>3 DEF ClaimOK, WorkOK, IInv
<1>5. OneWorkerPerAttempt'
  BY <1>1, <1>2 DEF IInv, OneWorkerPerAttempt
<1>6. OutcomeIsCurrent'
  BY DEF IInv, OutcomeIsCurrent
<1>7. CompletedIsWhole'
  BY DEF IInv, CompletedIsWhole, Completed, Settled
<1>8. QED BY <1>4, <1>5, <1>6, <1>7 DEF IInv

\* What settling does to the row.
LEMMA SettleWrites ==
  ASSUME TypeOK, NEW m \in Message, NEW state, NEW outcome,
         Settle(m, state, outcome), Current(m, state)
  PROVE  /\ \A e \in Documents : e # m.doc => job'[e] = job[e] /\ author'[e] = author[e]
         /\ job'[m.doc].attempt = job[m.doc].attempt /\ job'[m.doc].state = outcome
         /\ job'[m.doc].count = job[m.doc].count
         /\ job[m.doc].attempt = m.attempt /\ author'[m.doc] = m.attempt
<1>1. m.doc \in Documents
  BY DEF Message
<1>2. /\ job' = [job EXCEPT ![m.doc] = [attempt |-> job[m.doc].attempt, state |-> outcome,
                                        count |-> job[m.doc].count, age |-> 0]]
      /\ author' = [author EXCEPT ![m.doc] = m.attempt]
  BY DEF Settle
<1>3. QED BY <1>1, <1>2 DEF TypeOK, Current

\* finish() touches no claim but the caller's own: the row it settles is held by no
\* worker once the caller is out of the way.
LEMMA SettleKeeps ==
  ASSUME IInv, TypeOK', NEW m \in Message, NEW state, NEW outcome \in Settled,
         Settle(m, state, outcome), UNCHANGED <<document, pages>>,
         \A w \in Workers : Same(w),
         \A w \in Workers : Claims(w)' /\ Current(m, state) => task[w].msg # m,
         (outcome = "completed" /\ Current(m, state)) =>
           Completed(m.doc) = Pages /\ job[m.doc].count = PageCount
  PROVE  IInv'
<1>1. CASE ~Current(m, state)
  BY <1>1, QuietKeeps DEF Settle, Lives
<1>2. CASE Current(m, state)
  <2>1. m.doc \in Documents
    BY DEF Message
  <2>2. /\ \A e \in Documents : e # m.doc => job'[e] = job[e] /\ author'[e] = author[e]
        /\ job'[m.doc].attempt = job[m.doc].attempt /\ job'[m.doc].state = outcome
        /\ job'[m.doc].count = job[m.doc].count
        /\ job[m.doc].attempt = m.attempt /\ author'[m.doc] = m.attempt
    BY <1>2, SettleWrites DEF IInv
  <2>3. ASSUME NEW w \in Workers, Claims(w)', Lives(task[w].msg.doc)'
        PROVE  ClaimOK(w)' /\ WorkOK(w)'
    <3> DEFINE n == task[w].msg
    <3>1. /\ Claims(w) /\ task'[w].msg = n /\ task'[w].left = task[w].left
          /\ task'[w].age = task[w].age /\ (pc'[w] = "extracting" => pc[w] = "extracting")
          /\ pc'[w] \in {"claimed", "opened", "extracting"} => task'[w].claimed
      BY <2>3 DEF Same
    <3>2. n \in Message /\ n.doc \in Documents /\ Lives(n.doc)
      BY <2>3, <3>1, TaskParts DEF IInv, Lives, Claims
    <3>3. n # m
      BY <1>2, <2>3
    <3>4. n.doc # m.doc \/ n.attempt # m.attempt
      BY <3>2, <3>3 DEF Message
    <3>5. ClaimOK(w) /\ WorkOK(w)
      BY DEF IInv
    <3>6. /\ job'[n.doc].attempt = job[n.doc].attempt /\ job'[n.doc].count = job[n.doc].count
          /\ n.attempt = job[n.doc].attempt => job'[n.doc] = job[n.doc]
      BY <2>2, <3>2, <3>4
    <3>7. ClaimOK(w)'
      BY <3>1, <3>2, <3>5, <3>6 DEF ClaimOK
    <3>8. WorkOK(w)'
      BY <3>1, <3>2, <3>5, <3>6 DEF WorkOK
    <3>9. QED BY <3>7, <3>8
  <2>4. \A w \in Workers : ClaimOK(w)' /\ WorkOK(w)'
    BY <2>3 DEF ClaimOK, WorkOK, Same
  <2>5. OneWorkerPerAttempt'
    BY DEF IInv, OneWorkerPerAttempt, Same
  <2>6. OutcomeIsCurrent'
    BY <2>1, <2>2 DEF IInv, OutcomeIsCurrent
  <2>7. CompletedIsWhole'
    BY <1>2, <2>1, <2>2 DEF IInv, CompletedIsWhole, Completed
  <2>8. QED BY <2>4, <2>5, <2>6, <2>7 DEF IInv
<1>3. QED BY <1>1, <1>2

\* A commit of the worker whose attempt is current: it refreshes the row and its own
\* claim, and no other worker holds that attempt.
LEMMA HeartbeatKeeps ==
  ASSUME IInv, TypeOK', NEW w \in Workers, NEW m \in Message, NEW count,
         Heartbeat(m, count), UNCHANGED <<document, author>>,
         job[m.doc].attempt = m.attempt, job[m.doc].state \in InFlight,
         count \in {job[m.doc].count, PageCount},
         \A e \in Documents : e # m.doc => pages'[e] = pages[e],
         \A p \in Pages : pages[m.doc][p] # "none" => pages'[m.doc][p] # "none",
         \A v \in Workers : v # w => Same(v) /\ ~(Claims(v) /\ task[v].msg = m),
         Claims(w)', task'[w].msg = m, task'[w].age = 0, WorkOK(w)'
  PROVE  IInv'
<1>1. m.doc \in Documents /\ m.attempt \in Nat
  BY NaturalAttempts DEF Message
<1>2. /\ \A e \in Documents : e # m.doc => job'[e] = job[e]
      /\ job'[m.doc].attempt = job[m.doc].attempt /\ job'[m.doc].state = "running"
      /\ job'[m.doc].count = count /\ job'[m.doc].age = 0
  BY <1>1 DEF Heartbeat, IInv, TypeOK
<1>3. ClaimOK(w)'
  BY <1>1, <1>2 DEF ClaimOK
<1>4. ASSUME NEW v \in Workers, v # w, Claims(v)', Lives(task[v].msg.doc)'
      PROVE  ClaimOK(v)' /\ WorkOK(v)'
  <2> DEFINE n == task[v].msg
  <2>1. /\ Claims(v) /\ task'[v].msg = n /\ task'[v].left = task[v].left
        /\ task'[v].age = task[v].age /\ (pc'[v] = "extracting" => pc[v] = "extracting")
        /\ pc'[v] \in {"claimed", "opened", "extracting"} => task'[v].claimed
    BY <1>4 DEF Same
  <2>2. n \in Message /\ n.doc \in Documents /\ Lives(n.doc) /\ task[v].left \subseteq Pages
    BY <1>4, <2>1, TaskParts DEF IInv, Lives, Claims
  <2>3. n.doc # m.doc \/ n.attempt # job[m.doc].attempt
    BY <1>4, <2>1, <2>2 DEF Message
  <2>4. ClaimOK(v) /\ WorkOK(v)
    BY DEF IInv
  <2>5. /\ job'[n.doc].attempt = job[n.doc].attempt
        /\ n.attempt = job[n.doc].attempt => job'[n.doc] = job[n.doc] /\ pages'[n.doc] = pages[n.doc]
        /\ job[n.doc].count = PageCount => job'[n.doc].count = PageCount
        /\ \A p \in Pages : pages[n.doc][p] # "none" => pages'[n.doc][p] # "none"
    BY <1>2, <2>2, <2>3
  <2>6. ClaimOK(v)'
    BY <2>1, <2>2, <2>4, <2>5, SMTT(30) DEF ClaimOK
  <2>7. WorkOK(v)'
    BY <2>1, <2>2, <2>4, <2>5, SMTT(90) DEF WorkOK
  <2>8. QED BY <2>6, <2>7
<1>5. \A v \in Workers : ClaimOK(v)' /\ WorkOK(v)'
  BY <1>3, <1>4 DEF ClaimOK, WorkOK, Same
<1>6. OneWorkerPerAttempt'
  BY DEF IInv, OneWorkerPerAttempt, Same
<1>7. OutcomeIsCurrent'
  BY <1>1, <1>2 DEF IInv, OutcomeIsCurrent, InFlight, Settled
<1>8. CompletedIsWhole'
  BY <1>1, <1>2 DEF IInv, CompletedIsWhole, Completed
<1>9. QED BY <1>5, <1>6, <1>7, <1>8 DEF IInv

-----------------------------------------------------------------------------
(* Every step keeps the invariant *)

LEMMA InitInv == Init => IInv
<1> SUFFICES ASSUME Init PROVE IInv
  OBVIOUS
<1>1. TypeOK
  BY PositiveNumbers, NaturalAttempts DEF Init, TypeOK, NoJob, Job, Busy
<1>2. \A w \in Workers : ~Busy(w) /\ pc[w] = "idle"
  BY DEF Init, Busy
<1>3. OutcomeIsCurrent /\ CompletedIsWhole
  BY DEF Init, OutcomeIsCurrent, CompletedIsWhole, NoJob, Settled
<1>4. QED
  BY <1>1, <1>2, <1>3 DEF IInv, ClaimOK, WorkOK, OneWorkerPerAttempt, Claims

\* A worker slot that goes on with its claim, or drops it.
LEMMA BecomeSame ==
  ASSUME IInv, NEW w \in Workers, NEW stage, NEW t, Become(w, stage, t),
         stage = "idle" \/ (~t.claimed /\ stage = "raised") \/ (t = task[w] /\ Busy(w)),
         stage = "extracting" => pc[w] = "extracting",
         stage \in {"claimed", "opened", "extracting"} => t.claimed
  PROVE  /\ \A v \in Workers : Same(v)
         /\ stage = "idle" => ~Claims(w)'
<1>1. /\ pc'[w] = stage /\ task'[w] = t
      /\ \A v \in Workers : v # w => pc'[v] = pc[v] /\ task'[v] = task[v]
  BY DEF Become, IInv, TypeOK
<1>2. Same(w) /\ (stage = "idle" => ~Claims(w)')
  BY <1>1 DEF Same, Claims, Busy
<1>3. ASSUME NEW v \in Workers, v # w PROVE Same(v)
  BY <1>1, <1>3 DEF Same, Claims, Busy, IInv, WorkOK
<1>4. QED BY <1>2, <1>3

\* Nobody else has claimed what a worker slot has claimed.
LEMMA Exclusive ==
  ASSUME IInv, NEW w \in Workers, Claims(w)
  PROVE  \A v \in Workers : v # w => ~(Claims(v) /\ task[v].msg = task[w].msg)
BY DEF IInv, OneWorkerPerAttempt

\* Nobody has claimed an attempt that is still queued.
LEMMA Unclaimed ==
  ASSUME IInv, NEW m \in Message, Current(m, "queued"), NEW v \in Workers
  PROVE  ~(Claims(v) /\ task[v].msg = m)
<1> SUFFICES ASSUME Claims(v), task[v].msg = m PROVE FALSE
  OBVIOUS
<1>1. ClaimOK(v) /\ Lives(m.doc) /\ job[m.doc].attempt = m.attempt
  BY DEF IInv, Current, Lives
<1>2. job[m.doc].state = "running"
  BY <1>1 DEF ClaimOK
<1>3. QED BY <1>2 DEF Current

LEMMA ClaimKeeps ==
  ASSUME IInv, TypeOK', NEW w \in Workers, NEW m \in Message, Claim(w, m)
  PROVE  IInv'
<1> DEFINE t == [msg |-> m, left |-> Pages \ Completed(m.doc), claimed |-> TRUE, age |-> 0]
<1>1. /\ m.doc \in Documents /\ Current(m, "queued") /\ Heartbeat(m, job[m.doc].count)
      /\ Become(w, "claimed", t) /\ UNCHANGED <<document, pages, author>>
  BY DEF Claim, Message, library
<1>2. /\ pc'[w] = "claimed" /\ task'[w] = t
      /\ \A v \in Workers : v # w => pc'[v] = pc[v] /\ task'[v] = task[v]
  BY <1>1 DEF Become, IInv, TypeOK
<1>3. ASSUME NEW v \in Workers, v # w PROVE Same(v)
  BY <1>2, <1>3 DEF Same, Claims, Busy, IInv, WorkOK
<1>4. Claims(w)' /\ task'[w].msg = m /\ task'[w].age = 0
  BY <1>2 DEF Claims, Busy
<1>5. WorkOK(w)'
  <2>1. task'[w].msg = m /\ task'[w].left = Pages \ Completed(m.doc) /\ task'[w].claimed
    BY <1>2
  <2>2. \A p \in Pages : p \in Completed(m.doc) <=> pages'[m.doc][p] = "completed"
    BY <1>1 DEF Completed
  <2>3. QED BY <1>2, <2>1, <2>2 DEF WorkOK
<1>6. \A v \in Workers : ~(Claims(v) /\ task[v].msg = m)
  BY <1>1, Unclaimed
<1>7. job[m.doc].attempt = m.attempt /\ job[m.doc].state \in InFlight
  BY <1>1 DEF Current, InFlight
<1>8. QED BY <1>1, <1>3, <1>4, <1>5, <1>6, <1>7, HeartbeatKeeps

\* What a worker slot knows when it commits pages.
LEMMA AtWork ==
  ASSUME IInv, NEW w \in Workers, pc[w] \in {"opened", "extracting"}, Ready(w)
  PROVE  LET m == task[w].msg IN
         /\ Claims(w) /\ Lives(m.doc) /\ m \in Message /\ m.doc \in Documents
         /\ task[w] \in Task /\ task[w].left \subseteq Pages
         /\ job[m.doc].attempt = m.attempt /\ job[m.doc].state \in InFlight
         /\ \A p \in Pages \ task[w].left : pages[m.doc][p] # "none"
         /\ \A p \in task[w].left : pages[m.doc][p] # "completed"
         /\ pc[w] = "extracting" => job[m.doc].count = PageCount
<1>1. Claims(w) /\ Busy(w)
  BY DEF IInv, WorkOK, Claims, Busy
<1>2. task[w].msg \in Message /\ task[w].msg.doc \in Documents
      /\ task[w] \in Task /\ task[w].left \subseteq Pages
  BY <1>1, TaskParts DEF IInv, TypeOK
<1>3. /\ Lives(task[w].msg.doc) /\ job[task[w].msg.doc].attempt = task[w].msg.attempt
      /\ job[task[w].msg.doc].state \in InFlight
  BY DEF Ready, Superseded, Current, Lives, InFlight
<1>4. QED BY <1>1, <1>2, <1>3 DEF IInv, WorkOK

LEMMA StartPagesKeeps ==
  ASSUME IInv, TypeOK', NEW w \in Workers, StartPages(w)
  PROVE  IInv'
<1> DEFINE m == task[w].msg
<1>1. /\ Ready(w) /\ Heartbeat(m, PageCount) /\ UNCHANGED <<document, pages, author>>
      /\ pc[w] = "opened" /\ Become(w, "extracting", [task[w] EXCEPT !.age = 0])
  BY DEF StartPages, library
<1>2. /\ Claims(w) /\ Lives(m.doc) /\ m \in Message /\ m.doc \in Documents /\ task[w] \in Task
      /\ job[m.doc].attempt = m.attempt /\ job[m.doc].state \in InFlight
      /\ \A p \in Pages \ task[w].left : pages[m.doc][p] # "none"
      /\ \A p \in task[w].left : pages[m.doc][p] # "completed"
  BY <1>1, AtWork
<1>3. /\ pc'[w] = "extracting" /\ task'[w] = [task[w] EXCEPT !.age = 0]
      /\ \A v \in Workers : v # w => pc'[v] = pc[v] /\ task'[v] = task[v]
  BY <1>1 DEF Become, IInv, TypeOK
<1>4. /\ task'[w].msg = m /\ task'[w].left = task[w].left
      /\ task'[w].claimed = task[w].claimed /\ task'[w].age = 0
  BY <1>2, <1>3 DEF Task
<1>5. Claims(w)'
  BY <1>2, <1>3, <1>4 DEF Claims, Busy
<1>6. job'[m.doc].count = PageCount
  BY <1>1, <1>2 DEF Heartbeat, IInv, TypeOK
<1>7. WorkOK(w)'
  BY <1>1, <1>2, <1>4, <1>6, <1>5 DEF WorkOK, Claims
<1>8. ASSUME NEW v \in Workers, v # w PROVE Same(v)
  BY <1>3, <1>8 DEF Same, Claims, Busy, IInv, WorkOK
<1>9. QED BY <1>1, <1>2, <1>4, <1>5, <1>7, <1>8, Exclusive, HeartbeatKeeps

LEMMA SavePageKeeps ==
  ASSUME IInv, TypeOK', NEW w \in Workers, SavePage(w)
  PROVE  IInv'
<1> DEFINE m == task[w].msg
<1>1. /\ Ready(w) /\ Heartbeat(m, job[m.doc].count) /\ UNCHANGED <<document, author>>
      /\ pc[w] = "extracting"
  BY DEF SavePage, library
<1>2. /\ Claims(w) /\ Lives(m.doc) /\ m \in Message /\ m.doc \in Documents /\ task[w] \in Task
      /\ task[w].left \subseteq Pages
      /\ job[m.doc].attempt = m.attempt /\ job[m.doc].state \in InFlight
      /\ \A p \in Pages \ task[w].left : pages[m.doc][p] # "none"
      /\ \A p \in task[w].left : pages[m.doc][p] # "completed"
      /\ job[m.doc].count = PageCount
  BY <1>1, AtWork
<1>3. PICK p \in task[w].left, s \in PageStates :
        /\ pages' = [pages EXCEPT ![m.doc][p] = s]
        /\ Become(w, "extracting", [task[w] EXCEPT !.left = @ \ {p}, !.age = 0])
  BY DEF SavePage
<1> DEFINE rest == task[w].left \ {p}
<1>4. /\ pc'[w] = "extracting" /\ task'[w] = [task[w] EXCEPT !.left = rest, !.age = 0]
      /\ \A v \in Workers : v # w => pc'[v] = pc[v] /\ task'[v] = task[v]
  BY <1>3 DEF Become, IInv, TypeOK
<1>5. /\ task'[w].msg = m /\ task'[w].left = rest
      /\ task'[w].claimed = task[w].claimed /\ task'[w].age = 0
  <2>1. rest \in SUBSET Pages
    BY <1>2
  <2> HIDE DEF rest
  <2>2. task[w] \in Task
    BY <1>2
  <2>3. LET t == [task[w] EXCEPT !.left = rest, !.age = 0] IN
        t.msg = m /\ t.left = rest /\ t.claimed = task[w].claimed /\ t.age = 0
    BY <2>1, <2>2, SavedTask
  <2>4. QED BY <1>4, <2>3
<1>6. Claims(w)'
  BY <1>2, <1>4, <1>5 DEF Claims, Busy
<1>7. job'[m.doc].count = PageCount
  BY <1>1, <1>2 DEF Heartbeat, IInv, TypeOK
<1>8. /\ \A e \in Documents : e # m.doc => pages'[e] = pages[e]
      /\ pages'[m.doc][p] = s /\ s # "none"
      /\ \A q \in Pages : q # p => pages'[m.doc][q] = pages[m.doc][q]
  BY <1>2, <1>3 DEF IInv, TypeOK, PageStates
<1>9. WorkOK(w)'
  BY <1>2, <1>5, <1>6, <1>7, <1>8 DEF WorkOK, Claims
<1>10. ASSUME NEW v \in Workers, v # w PROVE Same(v)
  BY <1>4, <1>10 DEF Same, Claims, Busy, IInv, WorkOK
<1>11. \A q \in Pages : pages[m.doc][q] # "none" => pages'[m.doc][q] # "none"
  BY <1>8
<1>12. QED
  BY <1>1, <1>2, <1>5, <1>6, <1>8, <1>9, <1>10, <1>11, Exclusive, HeartbeatKeeps

LEMMA TickKeeps ==
  ASSUME IInv, TypeOK', Tick
  PROVE  IInv'
<1>1. UNCHANGED <<document, pages, pc, author>>
  BY DEF Tick, library
<1>2. \A d \in Documents :
        /\ job'[d].attempt = job[d].attempt /\ job'[d].state = job[d].state
        /\ job'[d].count = job[d].count
        /\ job[d].state \in InFlight => job'[d].age = Older(job[d].age)
  BY DEF Tick, IInv, TypeOK, Job
<1>3. \A w \in Workers : Busy(w) =>
        /\ task'[w].msg = task[w].msg /\ task'[w].left = task[w].left
        /\ task'[w].claimed = task[w].claimed /\ task'[w].age = Older(task[w].age)
  BY DEF Tick, IInv, TypeOK, Task
<1>4. Older(Lease) = Lease
  BY PositiveNumbers DEF Older
<1>5. \A w \in Workers : Claims(w)' <=> Claims(w)
  BY <1>1, <1>3 DEF Claims, Busy
<1>6. ASSUME NEW w \in Workers PROVE ClaimOK(w)' /\ WorkOK(w)'
  <2>1. CASE ~Busy(w)
    BY <1>1, <2>1 DEF ClaimOK, WorkOK, Claims, Busy
  <2>2. CASE Busy(w)
    <3>1. task[w].msg.doc \in Documents /\ ClaimOK(w) /\ WorkOK(w)
      BY <2>2, TaskParts DEF IInv
    <3>2. ClaimOK(w)'
      BY <1>1, <1>2, <1>3, <1>4, <1>5, <2>2, <3>1 DEF ClaimOK, Lives, InFlight
    <3>3. WorkOK(w)'
      BY <1>1, <1>2, <1>3, <1>5, <2>2, <3>1 DEF WorkOK, Lives
    <3>4. QED BY <3>2, <3>3
  <2>3. QED BY <2>1, <2>2
<1>7. OneWorkerPerAttempt'
  BY <1>3, <1>5 DEF IInv, OneWorkerPerAttempt, Claims
<1>8. OutcomeIsCurrent' /\ CompletedIsWhole'
  BY <1>1, <1>2 DEF IInv, OutcomeIsCurrent, CompletedIsWhole, Completed
<1>9. QED BY <1>6, <1>7, <1>8 DEF IInv


LEMMA NextInv ==
  ASSUME IInv, [Next]_vars
  PROVE  IInv'
<1>0. TypeOK'
  BY NextType DEF IInv
<1> USE DEF library, queues
<1>1. ASSUME NEW d \in Documents, SetStatus(d) \/ Scanned(d) PROVE IInv'
  <2>1. \A e \in Documents : Lives(e)' <=> Lives(e)
    BY <1>1 DEF SetStatus, Scanned, Lives, IInv, TypeOK
  <2>2. QED BY <1>0, <1>1, <2>1, QuietKeeps, SameSlots DEF SetStatus, Scanned
<1>2. ASSUME NEW d \in Documents, Delete(d) PROVE IInv'
  <2>1. job'[d].state = "none" /\ author'[d] = 0 /\ ~Lives(d)' /\ UNCHANGED slots
    BY <1>2 DEF Delete, NoJob, Lives, IInv, TypeOK, Job
  <2>2. \A e \in Documents : e # d => /\ job'[e] = job[e] /\ pages'[e] = pages[e]
                                      /\ author'[e] = author[e] /\ document'[e] = document[e]
    BY <1>2 DEF Delete, IInv, TypeOK
  <2>3. QED BY <1>0, <2>1, <2>2, RowKeeps DEF Settled
<1>3. ASSUME NEW d \in Documents, Queue(d) PROVE IInv'
  <2>1. /\ job'[d].state = "queued" /\ author'[d] = 0 /\ ~LeaseHeld(d) /\ Lives(d)
        /\ job'[d].attempt = job[d].attempt + 1 /\ job'[d].count = job[d].count
        /\ UNCHANGED <<slots, pages, document>>
    BY <1>3 DEF Queue, Confirmed, Lives, IInv, TypeOK
  <2>2. \A e \in Documents : e # d => /\ job'[e] = job[e] /\ pages'[e] = pages[e]
                                      /\ author'[e] = author[e] /\ document'[e] = document[e]
    BY <1>3 DEF Queue, IInv, TypeOK
  <2>3. QED BY <1>0, <2>1, <2>2, RowKeeps DEF Settled
<1>4. ASSUME NEW m \in Message,
             \/ Publish(m) \/ IgnoreMessage(m)
             \/ PublishRaises(m) \/ ForgetMessage(m) \/ LoseMessage(m)
      PROVE  IInv'
  BY <1>0, <1>4, QuietKeeps, SameSlots
     DEF Publish, IgnoreMessage, PublishRaises, ForgetMessage, LoseMessage, Lives
<1>5. ASSUME NEW m \in Message, RecordUnsent(m) PROVE IInv'
  <2>1. /\ Settle(m, "queued", "failed") /\ UNCHANGED <<document, pages, slots>>
    BY <1>5 DEF RecordUnsent
  <2>2. \A w \in Workers : Claims(w)' /\ Current(m, "queued") => task[w].msg # m
    BY <2>1, SameSlots, Unclaimed DEF Same
  <2>3. QED BY <1>0, <2>1, <2>2, SameSlots, SettleKeeps DEF Settled
<1>6. ASSUME NEW w \in Workers, NEW m \in Message, ClaimRaises(w, m) PROVE IInv'
  <2>1. \A v \in Workers : Same(v)
    BY <1>6, BecomeSame DEF ClaimRaises
  <2>2. QED BY <1>0, <1>6, <2>1, QuietKeeps DEF ClaimRaises, Lives
<1>7. ASSUME NEW w \in Workers,
             \/ ReadFile(w) \/ Overtaken(w) \/ Blocked(w) \/ Raise(w)
             \/ FinishLost(w) \/ WorkerStops(w)
      PROVE  IInv'
  <2>1. UNCHANGED <<document, job, pages, author>>
    BY <1>7 DEF ReadFile, Overtaken, Blocked, Raise, FinishLost, WorkerStops
  <2>2. pc[w] \in {"claimed", "opened", "extracting"} => task[w].claimed
    BY DEF IInv, WorkOK
  <2>3. CASE \E stage \in {"opened", "raised"} :
               pc[w] \in {"claimed", "opened", "extracting"} /\ Become(w, stage, task[w])
    BY <1>0, <2>1, <2>2, <2>3, BecomeSame, QuietKeeps DEF Busy, Lives
  <2>4. CASE Become(w, "idle", NoTask)
    BY <1>0, <2>1, <2>4, BecomeSame, QuietKeeps DEF Lives
  <2>5. QED
    BY <1>7, <2>3, <2>4 DEF ReadFile, Overtaken, Blocked, Raise, FinishLost, WorkerStops, Leave
<1>8. ASSUME NEW w \in Workers, Finish(w) PROVE IInv'
  <2> DEFINE m == task[w].msg
  <2>1. /\ pc[w] = "extracting" /\ Ready(w) /\ task[w].left = {}
        /\ Settle(m, "running", Outcome(m.doc)) /\ UNCHANGED <<document, pages>>
        /\ Become(w, "idle", NoTask)
    BY <1>8 DEF Finish, Leave
  <2>2. Claims(w) /\ m \in Message /\ job[m.doc].count = PageCount
    BY <2>1, AtWork
  <2>3. (\A v \in Workers : Same(v)) /\ ~Claims(w)'
    BY <2>1, BecomeSame
  <2>4. \A v \in Workers : Claims(v)' => task[v].msg # m
    BY <2>2, <2>3, Exclusive DEF Same
  <2>5. Outcome(m.doc) \in Settled /\ (Outcome(m.doc) = "completed" => Completed(m.doc) = Pages)
    BY DEF Outcome, Settled
  <2>6. QED BY <1>0, <2>1, <2>2, <2>3, <2>4, <2>5, SettleKeeps
<1>9. ASSUME NEW w \in Workers, RecordError(w) PROVE IInv'
  <2> DEFINE m == task[w].msg
             state == IF task[w].claimed THEN "running" ELSE "queued"
  <2>1. /\ pc[w] = "raised" /\ Settle(m, state, "failed") /\ UNCHANGED <<document, pages>>
        /\ Become(w, "idle", NoTask)
    BY <1>9 DEF RecordError, Leave
  <2>2. Busy(w) /\ m \in Message
    BY <2>1, TaskParts DEF IInv, Busy
  <2>3. (\A v \in Workers : Same(v)) /\ ~Claims(w)'
    BY <2>1, BecomeSame
  <2>4. \A v \in Workers : Claims(v)' /\ Current(m, state) => task[v].msg # m
    <3>1. CASE Claims(w)
      BY <2>3, <3>1, Exclusive DEF Same
    <3>2. CASE ~Claims(w)
      BY <2>2, <2>3, <3>2, Unclaimed DEF Same, Claims
    <3>3. QED BY <3>1, <3>2
  <2> HIDE DEF state
  <2>5. QED BY <1>0, <2>1, <2>2, <2>3, <2>4, SettleKeeps DEF Settled
<1>10. CASE UNCHANGED vars
  BY <1>0, <1>10, QuietKeeps, SameSlots DEF vars, slots, Lives
<1>11. QED
  BY <1>0, <1>1, <1>2, <1>3, <1>4, <1>5, <1>6, <1>7, <1>8, <1>9, <1>10,
     ClaimKeeps, StartPagesKeeps, SavePageKeeps, TickKeeps
     DEF Next, Work, Fault, Proceed, ClaimBlocked

THEOREM Invariance == Spec => []IInv
BY InitInv, NextInv, PTL DEF Spec

\* In every reachable state: an attempt is extracted by one worker slot; a claim is
\* superseded only after a lease of silence; the outcome a user reads was written by
\* the attempt the row names; and "completed" means that every page is stored complete.
THEOREM Soundness == Spec => []Inv
<1>1. ASSUME IInv PROVE TakeoverAfterSilence
  <2> SUFFICES ASSUME NEW w \in Workers, Claims(w), Lives(task[w].msg.doc),
                      task[w].msg.attempt # job[task[w].msg.doc].attempt
               PROVE  task[w].age = Lease
    BY DEF TakeoverAfterSilence, Lives
  <2>1. ClaimOK(w)
    BY <1>1 DEF IInv
  <2>2. QED BY <2>1 DEF ClaimOK
<1>2. IInv => Inv
  BY <1>1 DEF IInv, Inv
<1>3. QED BY <1>2, Invariance, PTL

-----------------------------------------------------------------------------
(* What a step may never do *)

\* A step writes pages by saving one page of an attempt that is current, or deletes them.
LEMMA PageWrites ==
  ASSUME [Next]_vars
  PROVE  \/ UNCHANGED pages
         \/ \E d \in Documents : Delete(d)
         \/ \E w \in Workers : SavePage(w)
<1> USE DEF queues, library, slots
<1>1. ASSUME NEW d \in Documents, SetStatus(d) \/ Scanned(d) \/ Queue(d) PROVE UNCHANGED pages
  BY <1>1 DEF SetStatus, Scanned, Queue
<1>2. ASSUME NEW m \in Message,
             \/ Publish(m) \/ RecordUnsent(m) \/ IgnoreMessage(m)
             \/ PublishRaises(m) \/ ForgetMessage(m) \/ LoseMessage(m)
      PROVE  UNCHANGED pages
  BY <1>2 DEF Publish, RecordUnsent, IgnoreMessage, PublishRaises, ForgetMessage, LoseMessage
<1>3. ASSUME NEW w \in Workers, NEW m \in Message, Claim(w, m) \/ ClaimRaises(w, m)
      PROVE  UNCHANGED pages
  BY <1>3 DEF Claim, ClaimRaises
<1>4. ASSUME NEW w \in Workers,
             \/ ReadFile(w) \/ Overtaken(w) \/ Blocked(w) \/ StartPages(w) \/ Finish(w)
             \/ RecordError(w) \/ Raise(w) \/ FinishLost(w) \/ WorkerStops(w)
      PROVE  UNCHANGED pages
  BY <1>4 DEF ReadFile, Overtaken, Blocked, StartPages, Finish, RecordError, Raise, FinishLost,
              WorkerStops
<1>5. QED
  BY <1>1, <1>2, <1>3, <1>4 DEF Next, Work, Fault, Proceed, ClaimBlocked, Tick, vars

\* A complete page goes only with its document, and nothing writes the pages of an
\* extraction that is settled.
THEOREM PagesStable == Spec => PagesAreStable
<1> DEFINE Stable == \A d \in Documents : document'[d] # "deleted" =>
                       /\ \A p \in Completed(d) : pages'[d][p] = "completed"
                       /\ job[d].state \in Settled => pages'[d] = pages[d]
<1>1. IInv /\ [Next]_vars => Stable
  <2> SUFFICES ASSUME IInv, [Next]_vars, NEW d \in Documents, document'[d] # "deleted"
               PROVE  /\ \A p \in Completed(d) : pages'[d][p] = "completed"
                      /\ job[d].state \in Settled => pages'[d] = pages[d]
    OBVIOUS
  <2>1. CASE UNCHANGED pages
    BY <2>1 DEF Completed
  <2>2. ASSUME NEW e \in Documents, Delete(e)
        PROVE  pages'[d] = pages[d]
    BY <2>2 DEF Delete, IInv, TypeOK
  <2>3. ASSUME NEW w \in Workers, SavePage(w), task[w].msg.doc # d
        PROVE  pages'[d] = pages[d]
    BY <2>3 DEF SavePage, IInv, TypeOK
  <2>4. ASSUME NEW w \in Workers, SavePage(w), task[w].msg.doc = d
        PROVE  /\ \A p \in Completed(d) : pages'[d][p] = "completed"
               /\ job[d].state \notin Settled
    <3>1. /\ job[d].state \in InFlight
          /\ \A p \in task[w].left : pages[d][p] # "completed"
      BY <2>4, AtWork DEF SavePage
    <3>2. \E p \in task[w].left, s \in PageStates : pages' = [pages EXCEPT ![d][p] = s]
      BY <2>4 DEF SavePage
    <3>3. \A p \in Completed(d) : pages'[d][p] = "completed"
      BY <3>1, <3>2 DEF Completed, IInv, TypeOK
    <3>4. QED BY <3>1, <3>3 DEF InFlight, Settled
  <2>5. QED BY <2>1, <2>2, <2>3, <2>4, PageWrites DEF Completed
<1>2. IInv /\ [Next]_vars => [Stable]_vars
  BY <1>1
<1>3. QED BY <1>2, Invariance, PTL DEF Spec, PagesAreStable

\* Rules are published by a worker whose attempt is current and whose pages are done.
LEMMA RuleWrites ==
  ASSUME [Next]_vars
  PROVE  \/ rules' = rules
         \/ \E w \in Workers : /\ pc[w] = "extracting" /\ task[w].left = {} /\ Ready(w)
                               /\ rules' = rules \union {task[w].msg.doc}
<1> USE DEF queues, library, slots
<1>1. ASSUME NEW d \in Documents, SetStatus(d) \/ Scanned(d) \/ Delete(d) \/ Queue(d)
      PROVE  rules' = rules
  BY <1>1 DEF SetStatus, Scanned, Delete, Queue
<1>2. ASSUME NEW m \in Message,
             \/ Publish(m) \/ RecordUnsent(m) \/ IgnoreMessage(m)
             \/ PublishRaises(m) \/ ForgetMessage(m) \/ LoseMessage(m)
      PROVE  rules' = rules
  BY <1>2 DEF Publish, RecordUnsent, IgnoreMessage, PublishRaises, ForgetMessage, LoseMessage
<1>3. ASSUME NEW w \in Workers, NEW m \in Message, Claim(w, m) \/ ClaimRaises(w, m)
      PROVE  rules' = rules
  BY <1>3 DEF Claim, ClaimRaises
<1>4. ASSUME NEW w \in Workers,
             \/ ReadFile(w) \/ Overtaken(w) \/ Blocked(w) \/ StartPages(w) \/ SavePage(w)
             \/ RecordError(w) \/ Raise(w) \/ WorkerStops(w)
      PROVE  rules' = rules
  BY <1>4 DEF ReadFile, Overtaken, Blocked, StartPages, SavePage, RecordError, Raise, WorkerStops
<1>5. ASSUME NEW w \in Workers, Finish(w) \/ FinishLost(w)
      PROVE  \/ rules' = rules
             \/ /\ pc[w] = "extracting" /\ task[w].left = {} /\ Ready(w)
                /\ rules' = rules \union {task[w].msg.doc}
  BY <1>5 DEF Finish, FinishLost
<1>6. QED
  BY <1>1, <1>2, <1>3, <1>4, <1>5 DEF Next, Work, Fault, Proceed, ClaimBlocked, Tick, vars

\* Rule extraction is asked for only when every page has been dealt with.
THEOREM RulesComplete == Spec => RulesSeeEveryPage
<1> DEFINE Seen == \A d \in Documents :
                     (d \notin rules /\ d \in rules') => \A p \in Pages : pages[d][p] # "none"
<1>1. IInv /\ [Next]_vars => Seen
  <2> SUFFICES ASSUME IInv, [Next]_vars, NEW d \in Documents, d \notin rules, d \in rules'
               PROVE  \A p \in Pages : pages[d][p] # "none"
    OBVIOUS
  <2>1. PICK w \in Workers : /\ pc[w] = "extracting" /\ task[w].left = {} /\ Ready(w)
                             /\ rules' = rules \union {task[w].msg.doc}
    BY RuleWrites
  <2>2. task[w].msg.doc = d
    BY <2>1
  <2>3. QED BY <2>1, <2>2, AtWork
<1>2. IInv /\ [Next]_vars => [Seen]_vars
  BY <1>1
<1>3. QED BY <1>2, Invariance, PTL DEF Spec, RulesSeeEveryPage

-----------------------------------------------------------------------------
(* Refinement: a document's extraction is a fenced job *)

AbsJob(d) == <<job[d].attempt, Phase(d), author[d]>>
AbsVars == <<[d \in Documents |-> job[d].attempt], [d \in Documents |-> Phase(d)], author>>

LEMMA AbstractStutter ==
  ASSUME TypeOK, TypeOK', \A d \in Documents : AbsJob(d)' = AbsJob(d)
  PROVE  UNCHANGED AbsVars
<1>1. author' = author
  BY DEF AbsJob, TypeOK
<1>2. \A d \in Documents : job'[d].attempt = job[d].attempt /\ Phase(d)' = Phase(d)
  BY DEF AbsJob
<1>3. QED BY <1>1, <1>2 DEF AbsVars

\* A step that changes the extraction of one document in one of the four ways of
\* FencedJob is that step of FencedJob.
LEMMA AbstractStep ==
  ASSUME TypeOK, TypeOK', NEW d \in Documents,
         \A e \in Documents : e # d => AbsJob(e)' = AbsJob(e),
         \/ /\ Phase(d) # "gone"
            /\ AbsJob(d)' = <<job[d].attempt + 1, "queued", 0>>
         \/ /\ Phase(d) = "queued"
            /\ AbsJob(d)' = <<job[d].attempt, "running", author[d]>>
         \/ /\ Phase(d) = "running" \/ (Phase(d) = "queued" /\ Phase(d)' = "failed")
            /\ Phase(d)' \in Settled
            /\ AbsJob(d)' = <<job[d].attempt, Phase(d)', job[d].attempt>>
         \/ /\ Phase(d) # "gone"
            /\ AbsJob(d)' = <<job[d].attempt, "gone", 0>>
  PROVE  Abstract!JobNext
<1> DEFINE A == [e \in Documents |-> job[e].attempt]
           P == [e \in Documents |-> Phase(e)]
<1>1. /\ author \in [Documents -> 0..MaxAttempts] /\ author' \in [Documents -> 0..MaxAttempts]
      /\ \A e \in Documents : e # d => /\ job'[e].attempt = job[e].attempt
                                       /\ Phase(e)' = Phase(e) /\ author'[e] = author[e]
  BY DEF TypeOK, AbsJob
<1>2. CASE Phase(d) # "gone" /\ AbsJob(d)' = <<job[d].attempt + 1, "queued", 0>>
  <2>1. /\ A' = [A EXCEPT ![d] = @ + 1] /\ P' = [P EXCEPT ![d] = "queued"]
        /\ author' = [author EXCEPT ![d] = 0]
    BY <1>1, <1>2 DEF AbsJob
  <2>2. Abstract!Issue(d)
    BY <1>2, <2>1 DEF Abstract!Issue
  <2>3. QED BY <2>2 DEF Abstract!JobNext
<1>3. CASE Phase(d) = "queued" /\ AbsJob(d)' = <<job[d].attempt, "running", author[d]>>
  <2>1. A' = A /\ P' = [P EXCEPT ![d] = "running"]
    BY <1>1, <1>3 DEF AbsJob
  <2>2. author' = author
    BY <1>1, <1>3 DEF AbsJob
  <2>3. Abstract!Start(d)
    BY <1>3, <2>1, <2>2 DEF Abstract!Start
  <2>4. QED BY <2>3 DEF Abstract!JobNext
<1>4. CASE /\ Phase(d) = "running" \/ (Phase(d) = "queued" /\ Phase(d)' = "failed")
           /\ Phase(d)' \in Settled
           /\ AbsJob(d)' = <<job[d].attempt, Phase(d)', job[d].attempt>>
  <2>1. A' = A /\ P' = [P EXCEPT ![d] = Phase(d)'] /\ author' = [author EXCEPT ![d] = A[d]]
    BY <1>1, <1>4 DEF AbsJob
  <2>2. Phase(d)' \in Abstract!Outcomes
    BY <1>4 DEF Settled, Abstract!Outcomes
  <2>3. Abstract!Settle(d)
    BY <1>4, <2>1, <2>2 DEF Abstract!Settle
  <2>4. QED BY <2>3 DEF Abstract!JobNext
<1>5. CASE Phase(d) # "gone" /\ AbsJob(d)' = <<job[d].attempt, "gone", 0>>
  <2>1. A' = A /\ P' = [P EXCEPT ![d] = "gone"] /\ author' = [author EXCEPT ![d] = 0]
    BY <1>1, <1>5 DEF AbsJob
  <2>2. Abstract!Discard(d)
    BY <1>5, <2>1 DEF Abstract!Discard
  <2>3. QED BY <2>2 DEF Abstract!JobNext
<1>6. QED BY <1>2, <1>3, <1>4, <1>5

\* finish() is the abstract Settle, or nothing.
LEMMA SettleStep ==
  ASSUME TypeOK, TypeOK', NEW m \in Message, NEW state, NEW outcome \in Settled,
         Settle(m, state, outcome), UNCHANGED document,
         state = "running" \/ (state = "queued" /\ outcome = "failed")
  PROVE  Abstract!JobNext \/ UNCHANGED AbsVars
<1>0. m.doc \in Documents
  BY DEF Message
<1>1. CASE ~Current(m, state)
  BY <1>1, AbstractStutter DEF Settle, AbsJob, Phase
<1>2. CASE Current(m, state)
  <2>1. /\ \A e \in Documents : e # m.doc => job'[e] = job[e] /\ author'[e] = author[e]
        /\ job'[m.doc].attempt = job[m.doc].attempt /\ job'[m.doc].state = outcome
        /\ job[m.doc].attempt = m.attempt /\ author'[m.doc] = m.attempt
    BY <1>2, SettleWrites
  <2>2. Phase(m.doc) = state /\ Phase(m.doc)' = outcome
    BY <1>2, <2>1 DEF Phase, Current
  <2>3. AbsJob(m.doc)' = <<job[m.doc].attempt, Phase(m.doc)', job[m.doc].attempt>>
    BY <2>1 DEF AbsJob
  <2>4. \A e \in Documents : e # m.doc => AbsJob(e)' = AbsJob(e)
    BY <2>1 DEF AbsJob, Phase
  <2>5. QED BY <1>0, <2>2, <2>3, <2>4, AbstractStep
<1>3. QED BY <1>1, <1>2

\* A commit of the worker while its attempt runs is invisible.
LEMMA HeartbeatStep ==
  ASSUME TypeOK, TypeOK', NEW m \in Message, NEW count, Heartbeat(m, count),
         Current(m, "running"), UNCHANGED <<document, author>>
  PROVE  UNCHANGED AbsVars
<1>1. m.doc \in Documents /\ job[m.doc].state = "running"
  BY DEF Message, Current
<1>2. \A d \in Documents : job'[d].attempt = job[d].attempt /\ job'[d].state = job[d].state
  BY <1>1 DEF Heartbeat, TypeOK
<1>3. QED BY <1>2, AbstractStutter DEF AbsJob, Phase

\* Extraction with its messages, retries, late workers, crashes and deletions
\* implements the abstract fenced job: an attempt is claimed once, and settled once,
\* by itself.
THEOREM Refinement == Spec => ImplementsFencedJob
<1>1. Init => Abstract!JobInit
  BY DEF Init, Abstract!JobInit, NoJob, Phase
<1>2. TypeOK /\ TypeOK' /\ [Next]_vars => [Abstract!JobNext]_AbsVars
  <2> SUFFICES ASSUME TypeOK, TypeOK', [Next]_vars
               PROVE  Abstract!JobNext \/ UNCHANGED AbsVars
    OBVIOUS
  <2> USE DEF library, queues
  <2>0. \A d \in Documents : job[d].state # "gone"
    BY DEF TypeOK, Job, InFlight, Settled
  <2>1. CASE UNCHANGED <<document, job, author>>
    BY <2>1, AbstractStutter DEF AbsJob, Phase
  <2>2. ASSUME NEW d \in Documents, SetStatus(d) PROVE UNCHANGED AbsVars
    <3>1. \A e \in Documents : document'[e] = "deleted" <=> document[e] = "deleted"
      BY <2>2 DEF SetStatus, TypeOK
    <3>2. UNCHANGED <<job, author>>
      BY <2>2 DEF SetStatus
    <3>3. QED BY <3>1, <3>2, AbstractStutter DEF AbsJob, Phase
  <2>3. ASSUME NEW d \in Documents, Delete(d) PROVE Abstract!JobNext
    <3>1. /\ document[d] # "deleted" /\ document'[d] = "deleted"
          /\ job'[d].attempt = job[d].attempt /\ author'[d] = 0
          /\ \A e \in Documents : e # d => /\ job'[e] = job[e] /\ author'[e] = author[e]
                                           /\ document'[e] = document[e]
      BY <2>3 DEF Delete, NoJob, TypeOK, Job
    <3>2. Phase(d) # "gone" /\ AbsJob(d)' = <<job[d].attempt, "gone", 0>>
      BY <2>0, <3>1 DEF AbsJob, Phase
    <3>3. \A e \in Documents : e # d => AbsJob(e)' = AbsJob(e)
      BY <3>1 DEF AbsJob, Phase
    <3>4. QED BY <3>2, <3>3, AbstractStep
  <2>4. ASSUME NEW d \in Documents, Queue(d) PROVE Abstract!JobNext
    <3>1. /\ document[d] # "deleted" /\ UNCHANGED document
          /\ job'[d].attempt = job[d].attempt + 1 /\ job'[d].state = "queued" /\ author'[d] = 0
          /\ \A e \in Documents : e # d => job'[e] = job[e] /\ author'[e] = author[e]
      BY <2>4 DEF Queue, Confirmed, TypeOK
    <3>2. Phase(d) # "gone" /\ AbsJob(d)' = <<job[d].attempt + 1, "queued", 0>>
      BY <2>0, <3>1 DEF AbsJob, Phase
    <3>3. \A e \in Documents : e # d => AbsJob(e)' = AbsJob(e)
      BY <3>1 DEF AbsJob, Phase
    <3>4. QED BY <3>2, <3>3, AbstractStep
  <2>5. ASSUME NEW m \in Message, RecordUnsent(m)
        PROVE  Abstract!JobNext \/ UNCHANGED AbsVars
    BY <2>5, SettleStep DEF RecordUnsent, Settled
  <2>6. ASSUME NEW w \in Workers, Finish(w) \/ RecordError(w)
        PROVE  Abstract!JobNext \/ UNCHANGED AbsVars
    <3>1. task[w].msg \in Message
      BY <2>6, TaskParts DEF Finish, RecordError, Busy
    <3>2. \E state, outcome \in Settled \union InFlight :
            /\ outcome \in Settled /\ Settle(task[w].msg, state, outcome)
            /\ state = "running" \/ (state = "queued" /\ outcome = "failed")
      BY <2>6 DEF Finish, RecordError, Outcome, Settled, InFlight
    <3>3. UNCHANGED document
      BY <2>6 DEF Finish, RecordError
    <3>4. QED BY <3>1, <3>2, <3>3, SettleStep
  <2>7. ASSUME NEW w \in Workers, NEW m \in Message, Claim(w, m) PROVE Abstract!JobNext
    <3>1. /\ m.doc \in Documents /\ UNCHANGED <<document, author>> /\ Phase(m.doc) = "queued"
          /\ document[m.doc] # "deleted"
      BY <2>7 DEF Claim, Message, Current, Phase
    <3>2. /\ job'[m.doc].attempt = job[m.doc].attempt /\ job'[m.doc].state = "running"
          /\ \A e \in Documents : e # m.doc => job'[e] = job[e]
      BY <2>7, <3>1 DEF Claim, Heartbeat, TypeOK
    <3>3. AbsJob(m.doc)' = <<job[m.doc].attempt, "running", author[m.doc]>>
      BY <3>1, <3>2 DEF AbsJob, Phase
    <3>4. \A e \in Documents : e # m.doc => AbsJob(e)' = AbsJob(e)
      BY <3>1, <3>2 DEF AbsJob, Phase
    <3>5. QED BY <3>1, <3>3, <3>4, AbstractStep
  <2>8. ASSUME NEW w \in Workers, StartPages(w) \/ SavePage(w) PROVE UNCHANGED AbsVars
    <3>1. task[w].msg \in Message
      BY <2>8, TaskParts DEF StartPages, SavePage, Busy
    <3>2. /\ \E count \in Nat : Heartbeat(task[w].msg, count)
          /\ Current(task[w].msg, "running") /\ UNCHANGED <<document, author>>
      <4>1. job[task[w].msg.doc].count \in {0, PageCount}
        BY <3>1 DEF Message, TypeOK, Job
      <4>2. QED BY <2>8, <4>1, PositiveNumbers DEF StartPages, SavePage, Ready, Superseded
    <3>3. QED BY <3>1, <3>2, HeartbeatStep
  <2>9. CASE Tick
    <3>1. \A d \in Documents : job'[d].attempt = job[d].attempt /\ job'[d].state = job[d].state
      BY <2>9 DEF Tick, TypeOK, Job
    <3>2. UNCHANGED <<document, author>>
      BY <2>9 DEF Tick
    <3>3. QED BY <3>1, <3>2, AbstractStutter DEF AbsJob, Phase
  <2>10. ASSUME NEW d \in Documents, Scanned(d) PROVE UNCHANGED <<document, job, author>>
    BY <2>10 DEF Scanned
  <2>11. ASSUME NEW m \in Message,
                \/ Publish(m) \/ IgnoreMessage(m) \/ PublishRaises(m) \/ ForgetMessage(m)
                \/ LoseMessage(m)
         PROVE  UNCHANGED <<document, job, author>>
    BY <2>11 DEF Publish, IgnoreMessage, PublishRaises, ForgetMessage, LoseMessage
  <2>12. ASSUME NEW w \in Workers, NEW m \in Message, ClaimRaises(w, m)
         PROVE  UNCHANGED <<document, job, author>>
    BY <2>12 DEF ClaimRaises
  <2>13. ASSUME NEW w \in Workers,
                \/ ReadFile(w) \/ Overtaken(w) \/ Blocked(w) \/ Raise(w) \/ FinishLost(w)
                \/ WorkerStops(w)
         PROVE  UNCHANGED <<document, job, author>>
    BY <2>13 DEF ReadFile, Overtaken, Blocked, Raise, FinishLost, WorkerStops
  <2>14. CASE UNCHANGED vars
    BY <2>1, <2>14 DEF vars
  <2>15. QED
    BY <2>1, <2>2, <2>3, <2>4, <2>5, <2>6, <2>7, <2>8, <2>9, <2>10, <2>11, <2>12, <2>13, <2>14
       DEF Next, Work, Fault, Proceed, ClaimBlocked
<1>3. QED
  BY <1>1, <1>2, TypeCorrect, PTL
     DEF Spec, ImplementsFencedJob, Abstract!JobSpec, Abstract!jobVars, AbsVars
=============================================================================
