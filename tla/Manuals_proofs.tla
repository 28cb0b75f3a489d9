---------------------------- MODULE Manuals_proofs ----------------------------
(***************************************************************************)
(* Theorems about what is made of the text of a manual: of DocumentIndex,  *)
(* for any documents, texts, chunks and configurations, any number of      *)
(* worker slots, and any batch, lease and number of attempts; of           *)
(* MaintenancePlan, for any keys, documents and proposals, any number of   *)
(* requests and deliveries that overlap, and any bounds; and of            *)
(* RulePassages, for a manual of any length and any limits of the prompts. *)
(***************************************************************************)
EXTENDS DocumentIndex, RulePassages, FiniteInduction, TLAPS

Phases == {"none", "gone"} \union InFlight \union Settled
Stages == {"idle", "claimed", "looping", "embedding", "done", "raised"}

-----------------------------------------------------------------------------
(* Types *)

\* What a slot works on is well-typed.
LEMMA TaskParts ==
  ASSUME TypeOK, NEW w \in Workers, Busy(w)
  PROVE  /\ task[w] \in Task /\ task[w].msg \in Message /\ task[w].msg.doc \in Documents
         /\ task[w].msg.attempt \in 1..MaxAttempts
         /\ task[w].batch \subseteq Chunks /\ task[w].error \in {"failed", "awaiting_configuration"}
         /\ job[task[w].msg.doc] \in Job
<1>1. task[w] \in Task /\ task[w].msg \in Message
  BY DEF TypeOK, Task
<1>2. task[w].msg.doc \in Documents /\ task[w].msg.attempt \in 1..MaxAttempts
  BY <1>1 DEF Message
<1>3. QED BY <1>1, <1>2 DEF TypeOK, Task

\* The parts of a row of document_indexes.
LEMMA JobParts ==
  ASSUME TypeOK, NEW d \in Documents
  PROVE  /\ job[d] \in Job /\ job[d].attempt \in 0..MaxAttempts
         /\ job[d].source \in 0..MaxSources /\ job[d].config \in Configs
         /\ job[d].age \in 0..Lease /\ source[d] \in 0..MaxSources
BY DEF TypeOK, Job

\* finish() writes the state and the age of the row, nothing else.
LEMMA SettleWrites ==
  ASSUME TypeOK, NEW m \in Message, NEW state, NEW outcome,
         Settle(m, state, outcome), Current(m, state)
  PROVE  /\ job'[m.doc].attempt = job[m.doc].attempt /\ job'[m.doc].source = job[m.doc].source
         /\ job'[m.doc].config = job[m.doc].config /\ job'[m.doc].state = outcome
         /\ author'[m.doc] = m.attempt
         /\ \A e \in Documents : e # m.doc => job'[e] = job[e] /\ author'[e] = author[e]
         /\ m.doc \in Documents /\ job[m.doc].attempt = m.attempt
<1>1. m.doc \in Documents
  BY DEF Message
<1>2. /\ job' = [job EXCEPT ![m.doc] = [job[m.doc] EXCEPT !.state = outcome, !.age = 0]]
      /\ author' = [author EXCEPT ![m.doc] = m.attempt]
  BY DEF Settle
<1>3. job[m.doc] \in Job
  BY <1>1 DEF TypeOK
<1>4. QED BY <1>1, <1>2, <1>3 DEF TypeOK, Job, Current

LEMMA SettleType ==
  ASSUME TypeOK, NEW m \in Message, NEW state, NEW outcome \in Settled,
         Settle(m, state, outcome)
  PROVE  job' \in [Documents -> Job] /\ author' \in [Documents -> 0..MaxAttempts]
<1>1. CASE ~Current(m, state)
  BY <1>1 DEF Settle, TypeOK
<1>2. CASE Current(m, state)
  <2>1. m.doc \in Documents /\ m.attempt \in 0..MaxAttempts
        /\ job[m.doc] \in Job /\ 0 \in 0..Lease
    BY NaturalBounds, PositiveNumbers DEF Message, TypeOK
  <2>2. [job[m.doc] EXCEPT !.state = outcome, !.age = 0] \in Job
    BY <2>1 DEF Job
  <2>3. QED BY <1>2, <2>1, <2>2 DEF Settle, TypeOK
<1>3. QED BY <1>1, <1>2

\* A commit of the worker writes the state and the age of the row.
LEMMA HeartbeatWrites ==
  ASSUME TypeOK, NEW d \in Documents, Heartbeat(d)
  PROVE  /\ job' \in [Documents -> Job]
         /\ job'[d].attempt = job[d].attempt /\ job'[d].source = job[d].source
         /\ job'[d].config = job[d].config /\ job'[d].state = "running"
         /\ \A e \in Documents : e # d => job'[e] = job[e]
<1>1. job[d] \in Job /\ 0 \in 0..Lease
  BY PositiveNumbers DEF TypeOK
<1>2. [job[d] EXCEPT !.state = "running", !.age = 0] \in Job
  BY <1>1 DEF Job, InFlight
<1>3. QED BY <1>1, <1>2 DEF Heartbeat, TypeOK, Job

LEMMA BecomeType ==
  ASSUME TypeOK, NEW w \in Workers, NEW stage \in Stages, NEW t \in Task \union {NoTask},
         stage # "idle" => t \in Task, Become(w, stage, t)
  PROVE  /\ pc' \in [Workers -> Stages]
         /\ task' \in [Workers -> Task \union {NoTask}]
         /\ \A v \in Workers : Busy(v)' => task'[v] \in Task
         /\ pc'[w] = stage /\ task'[w] = t
         /\ \A v \in Workers : v # w => pc'[v] = pc[v] /\ task'[v] = task[v]
BY DEF Become, TypeOK, Busy, Stages

LEMMA SlotsType ==
  ASSUME TypeOK, UNCHANGED slots
  PROVE  /\ pc' \in [Workers -> Stages]
         /\ task' \in [Workers -> Task \union {NoTask}]
         /\ \A v \in Workers : Busy(v)' => task'[v] \in Task
BY DEF TypeOK, Busy, slots, Stages

\* The task of a new claim, and those that stand for the same claim.
LEMMA NewTaskType ==
  ASSUME TypeOK, NEW m \in Message
  PROVE  /\ NewTask(m) \in Task /\ NewTask(m).msg = m /\ NewTask(m).claimed
         /\ [NewTask(m) EXCEPT !.claimed = FALSE] \in Task
         /\ ~[NewTask(m) EXCEPT !.claimed = FALSE].claimed
         /\ [NewTask(m) EXCEPT !.claimed = FALSE].error = "failed"
<1>1. text[m.doc] \in Texts
  BY DEF TypeOK, Message
<1>2. QED BY <1>1 DEF NewTask, Task

LEMMA SameClaim ==
  ASSUME NEW t \in Task, NEW b \in SUBSET Chunks
  PROVE  /\ [t EXCEPT !.batch = b] \in Task /\ [t EXCEPT !.text = Blank] \in Task
         /\ [t EXCEPT !.error = "awaiting_configuration"] \in Task
         /\ [t EXCEPT !.batch = b].msg = t.msg /\ [t EXCEPT !.batch = b].claimed = t.claimed
         /\ [t EXCEPT !.text = Blank].msg = t.msg
         /\ [t EXCEPT !.text = Blank].claimed = t.claimed
         /\ [t EXCEPT !.error = "awaiting_configuration"].msg = t.msg
         /\ [t EXCEPT !.error = "awaiting_configuration"].claimed = t.claimed
BY BlankIsText DEF Task

\* The extraction keeps its types.
LEMMA ExtractType ==
  ASSUME TypeOK, NEW d \in Documents, Extract(d) \/ Source!Discard(d)
  PROVE  /\ source' \in [Documents -> 0..MaxSources]
         /\ phase' \in [Documents -> Phases]
         /\ settler' \in [Documents -> 0..MaxSources]
<1> USE NaturalBounds DEF TypeOK
<1>1. ASSUME source[d] < MaxSources, Source!Issue(d)
      PROVE  /\ source' \in [Documents -> 0..MaxSources] /\ phase' \in [Documents -> Phases]
             /\ settler' \in [Documents -> 0..MaxSources]
  BY <1>1 DEF Source!Issue, Phases, InFlight
<1>2. ASSUME Source!Start(d) \/ Source!Discard(d)
      PROVE  /\ source' \in [Documents -> 0..MaxSources] /\ phase' \in [Documents -> Phases]
             /\ settler' \in [Documents -> 0..MaxSources]
  BY <1>2 DEF Source!Start, Source!Discard, Phases, InFlight
<1>3. ASSUME Source!Settle(d)
      PROVE  /\ source' \in [Documents -> 0..MaxSources] /\ phase' \in [Documents -> Phases]
             /\ settler' \in [Documents -> 0..MaxSources]
  BY <1>3 DEF Source!Settle, Source!Outcomes, Phases, Settled
<1>4. QED BY <1>1, <1>2, <1>3 DEF Extract

\* Chunks and vectors keep their types.
LEMMA IndexType ==
  ASSUME TypeOK, NEW w \in Workers, Prepare(w) \/ SaveEmbeddings(w)
  PROVE  index' \in [Documents -> Index]
<1> DEFINE d == task[w].msg.doc
<1>1. d \in Documents /\ job[d].config \in Labels /\ setup[w] \in Labels
  <2>1. d \in Documents
    BY TaskParts DEF Prepare, SaveEmbeddings, Busy
  <2>2. QED BY <2>1, JobParts DEF TypeOK, Labels
<1>2. index[d].text \in Texts /\ text[d] \in Texts
      /\ index[d].vector \in [Chunks -> Labels] /\ index[d].label \in [Chunks -> Labels]
  BY <1>1 DEF TypeOK, Index
<1>3. Bare \in Labels
  BY DEF Labels
<1>4. CASE Prepare(w)
  <2>1. PICK same \in SUBSET Chunks :
          index' = [index EXCEPT ![d] =
            [text |-> text[d],
             vector |-> [c \in Chunks |-> IF c \in same THEN index[d].vector[c] ELSE Bare],
             label |-> [c \in Chunks |-> IF c \in same THEN job[d].config ELSE Bare]]]
    BY <1>4 DEF Prepare
  <2> DEFINE x == [text |-> text[d],
                   vector |-> [c \in Chunks |-> IF c \in same THEN index[d].vector[c] ELSE Bare],
                   label |-> [c \in Chunks |-> IF c \in same THEN job[d].config ELSE Bare]]
  <2>2. x \in Index
    BY <1>1, <1>2, <1>3 DEF Index
  <2>3. QED BY <1>1, <2>1, <2>2 DEF TypeOK
<1>5. CASE SaveEmbeddings(w)
  <2> DEFINE done == task[w].batch
             x == [text |-> index[d].text,
                   vector |-> [c \in Chunks |->
                                 IF c \in done THEN setup[w] ELSE index[d].vector[c]],
                   label |-> [c \in Chunks |->
                                IF c \in done THEN job[d].config ELSE index[d].label[c]]]
  <2>1. index' = [index EXCEPT ![d] = x]
    BY <1>5 DEF SaveEmbeddings
  <2>2. x \in Index
    BY <1>1, <1>2 DEF Index
  <2>3. QED BY <1>1, <2>1, <2>2 DEF TypeOK
<1>6. QED BY <1>4, <1>5

LEMMA NextType ==
  ASSUME TypeOK, [Next]_vars
  PROVE  TypeOK'
<1> USE DEF extraction, deployed, rows, queues
<1>1. ASSUME NEW d \in Documents, Extract(d) PROVE TypeOK'
  BY <1>1, ExtractType, SlotsType DEF Extract, TypeOK, Phases, Stages
<1>2. ASSUME NEW d \in Documents, WritePages(d) \/ Scanned(d) PROVE TypeOK'
  BY <1>2, SlotsType DEF WritePages, Scanned, TypeOK, Stages
<1>3. ASSUME NEW d \in Documents, Delete(d) PROVE TypeOK'
  <2>1. [NoJob(config) EXCEPT !.attempt = job[d].attempt] \in Job
    BY JobParts, PositiveNumbers, NaturalBounds DEF NoJob, Job, TypeOK
  <2>2. NoIndex \in Index
    BY BlankIsText DEF NoIndex, Index, AllBare, Labels
  <2>3. job' \in [Documents -> Job] /\ index' \in [Documents -> Index]
    BY <1>3, <2>1, <2>2 DEF Delete, TypeOK
  <2>4. text' \in [Documents -> Texts] /\ author' \in [Documents -> 0..MaxAttempts]
    BY <1>3, BlankIsText, NaturalBounds DEF Delete, TypeOK
  <2>5. QED
    BY <1>3, <2>3, <2>4, ExtractType, SlotsType DEF Delete, TypeOK, Phases, Stages
<1>4. ASSUME NEW d \in Documents, Queue(d) PROVE TypeOK'
  <2>1. job[d].attempt + 1 \in 1..MaxAttempts /\ source[d] \in 0..MaxSources
    BY <1>4, JobParts, NaturalBounds DEF Queue
  <2>2. [attempt |-> job[d].attempt + 1, source |-> source[d], config |-> config,
         state |-> "queued", age |-> 0] \in Job
    BY <2>1, PositiveNumbers DEF Job, InFlight, TypeOK
  <2>3. [doc |-> d, attempt |-> job[d].attempt + 1] \in Message
    BY <2>1 DEF Message
  <2>4. job' \in [Documents -> Job] /\ author' \in [Documents -> 0..MaxAttempts]
    BY <1>4, <2>2, NaturalBounds DEF Queue, TypeOK
  <2>5. outbox' \subseteq Message /\ UNCHANGED <<unsent, broker>>
    BY <1>4, <2>3 DEF Queue, Enqueue, TypeOK
  <2>6. QED BY <1>4, <2>4, <2>5, SlotsType DEF Queue, TypeOK, Stages
<1>5. ASSUME NEW m \in Message, Publish(m) \/ PublishRaises(m) \/ ForgetMessage(m)
      PROVE  TypeOK'
  BY <1>5, SlotsType
     DEF Publish, PublishRaises, ForgetMessage, Send, SendRaises, Forget, TypeOK, Stages
<1>6. ASSUME NEW m \in Message, LoseMessage(m) \/ IgnoreMessage(m) PROVE TypeOK'
  BY <1>6, SlotsType DEF LoseMessage, IgnoreMessage, Drop, TypeOK, Stages
<1>7. ASSUME NEW m \in Message, RecordUnsent(m) PROVE TypeOK'
  <2>1. job' \in [Documents -> Job] /\ author' \in [Documents -> 0..MaxAttempts]
    BY <1>7, SettleType DEF RecordUnsent, Settled
  <2>2. QED BY <1>7, <2>1, SlotsType DEF RecordUnsent, TakeUnsent, TypeOK, Stages
<1>8. ASSUME NEW w \in Workers, NEW m \in Message, Claim(w, m) PROVE TypeOK'
  <2>1. m.doc \in Documents
    BY DEF Message
  <2>2. job' \in [Documents -> Job]
    BY <1>8, <2>1, HeartbeatWrites DEF Claim
  <2>3. NewTask(m) \in Task /\ Become(w, "claimed", NewTask(m))
    BY <1>8, NewTaskType DEF Claim
  <2>4. QED BY <1>8, <2>2, <2>3, BecomeType DEF Claim, Deliver, TypeOK, Stages
<1>9. ASSUME NEW w \in Workers, NEW m \in Message, ClaimRaises(w, m) PROVE TypeOK'
  <2>1. /\ [NewTask(m) EXCEPT !.claimed = FALSE] \in Task
        /\ Become(w, "raised", [NewTask(m) EXCEPT !.claimed = FALSE])
    BY <1>9, NewTaskType DEF ClaimRaises
  <2>2. QED BY <1>9, <2>1, BecomeType DEF ClaimRaises, Drop, TypeOK, Stages
<1>10. ASSUME NEW w \in Workers,
              Overtaken(w) \/ Blocked(w) \/ Raise(w) \/ Unconfigured(w) \/ WorkerStops(w)
       PROVE  TypeOK'
  <2>1. task[w] \in Task
    BY <1>10, TaskParts DEF Overtaken, Blocked, Raise, Unconfigured, WorkerStops, Busy
  <2>2. [task[w] EXCEPT !.error = "awaiting_configuration"] \in Task
    BY <2>1, SameClaim
  <2>3. \E stage \in Stages, t \in Task \union {NoTask} :
          (stage # "idle" => t \in Task) /\ Become(w, stage, t)
    BY <1>10, <2>1, <2>2
       DEF Overtaken, Blocked, Raise, Unconfigured, WorkerStops, Leave, Stages
  <2>4. UNCHANGED <<extraction, infected, deployed, rows, queues>>
    BY <1>10 DEF Overtaken, Blocked, Raise, Unconfigured, WorkerStops
  <2>5. QED BY <2>3, <2>4, BecomeType DEF TypeOK, Stages
<1>11. ASSUME NEW w \in Workers, Restart(w) PROVE TypeOK'
  <2>1. setup' \in [Workers -> Configs]
    BY <1>11 DEF Restart, TypeOK
  <2>2. QED BY <1>11, <2>1, BecomeType DEF Restart, Leave, TypeOK, Stages
<1>12. CASE Reconfigure
  BY <1>12, SlotsType DEF Reconfigure, TypeOK, Stages
<1>13. ASSUME NEW w \in Workers, Prepare(w) \/ SaveEmbeddings(w) PROVE TypeOK'
  <2>1. index' \in [Documents -> Index]
    BY <1>13, IndexType
  <2>2. task[w] \in Task /\ task[w].msg.doc \in Documents
    BY <1>13, TaskParts DEF Prepare, SaveEmbeddings, Busy
  <2>3. job' \in [Documents -> Job]
    BY <1>13, <2>2, HeartbeatWrites DEF Prepare, SaveEmbeddings
  <2>4. \E t \in Task : Become(w, "looping", t)
    BY <1>13, <2>2, SameClaim DEF Prepare, SaveEmbeddings
  <2>5. /\ UNCHANGED <<extraction, infected, deployed, queues, author>>
    BY <1>13 DEF Prepare, SaveEmbeddings
  <2>6. QED BY <2>1, <2>3, <2>4, <2>5, BecomeType DEF TypeOK, Stages
<1>14. ASSUME NEW w \in Workers, TakeBatch(w) PROVE TypeOK'
  <2>1. task[w] \in Task /\ task[w].msg.doc \in Documents
    BY <1>14, TaskParts DEF TakeBatch, Busy
  <2>2. job' \in [Documents -> Job]
    BY <1>14, <2>1, HeartbeatWrites DEF TakeBatch
  <2>3. \E b \in SUBSET Chunks, stage \in {"done", "embedding"} :
          Become(w, stage, [task[w] EXCEPT !.batch = b])
    BY <1>14 DEF TakeBatch, Pending, Cut
  <2>4. \E t \in Task, stage \in {"done", "embedding"} : Become(w, stage, t)
    BY <2>1, <2>3, SameClaim
  <2>5. QED BY <1>14, <2>2, <2>4, BecomeType DEF TakeBatch, TypeOK, Stages
<1>15. ASSUME NEW w \in Workers, Finish(w) \/ RecordError(w) PROVE TypeOK'
  <2>1. task[w].msg \in Message /\ task[w].error \in Settled
    BY <1>15, TaskParts DEF Finish, RecordError, Busy, Settled
  <2>2. \E state \in InFlight, outcome \in Settled : Settle(task[w].msg, state, outcome)
    BY <1>15, <2>1 DEF Finish, RecordError, Outcome, Settled, InFlight
  <2>3. job' \in [Documents -> Job] /\ author' \in [Documents -> 0..MaxAttempts]
    BY <2>1, <2>2, SettleType
  <2>4. /\ UNCHANGED <<extraction, infected, deployed, index, queues>>
        /\ Become(w, "idle", NoTask)
    BY <1>15 DEF Finish, RecordError, Leave
  <2>5. QED BY <2>3, <2>4, BecomeType DEF TypeOK, Stages
<1>16. CASE Tick
  <2>1. \A age \in 0..Lease : Older(age) \in 0..Lease
    BY PositiveNumbers DEF Older
  <2>2. \A d \in Documents : [job[d] EXCEPT !.age = Older(@)] \in Job
    BY <2>1, JobParts DEF Job
  <2>3. job' \in [Documents -> Job]
    BY <1>16, <2>2 DEF Tick, TypeOK
  <2>4. QED BY <1>16, <2>3, SlotsType DEF Tick, TypeOK, Stages
<1>17. CASE UNCHANGED vars
  BY <1>17, SlotsType DEF vars, TypeOK, Stages
<1>18. QED
  BY <1>1, <1>2, <1>3, <1>4, <1>5, <1>6, <1>7, <1>8, <1>9, <1>10, <1>11, <1>12, <1>13, <1>14,
     <1>15, <1>16, <1>17
     DEF Next, Work, Deploy, Fault, Proceed, ClaimRefused

LEMMA InitType == Init => TypeOK
<1> SUFFICES ASSUME Init PROVE TypeOK
  OBVIOUS
<1>1. \A c \in Configs : NoJob(c) \in Job
  BY PositiveNumbers, NaturalBounds DEF NoJob, Job
<1>2. NoIndex \in Index
  BY BlankIsText DEF NoIndex, Index, AllBare, Labels
<1>3. QED
  BY <1>1, <1>2, BlankIsText, NaturalBounds
     DEF Init, TypeOK, Source!JobInit, QueuesEmpty, Busy

\* Every variable keeps its type, whatever order extraction, indexing, deployments,
\* deliveries, crashes and deletions come in.
THEOREM TypeCorrect == Spec => []TypeOK
BY InitType, NextType, PTL DEF Spec

-----------------------------------------------------------------------------
(* The invariant *)

Claims(w) == Busy(w) /\ task[w].claimed
Building == {"looping", "embedding", "done"}

\* The job is bound to the newest extraction, which has settled with pages.
Bound(d) == job[d].source = source[d] /\ phase[d] \in Usable

\* The chunks stored are of the text stored, and no vector is of another configuration
\* than the job's.
Fits(d) ==
  /\ index[d].text = text[d]
  /\ \A c \in Chunks : index[d].vector[c] \in {Bare, job[d].config}

\* No job is bound to an extraction before it has settled.
SourceOK(d) ==
  /\ job[d].source <= source[d]
  /\ job[d].source = source[d] => phase[d] \in Usable \union {"none", "gone"}

\* What an outcome with chunks promises while its extraction is the newest.
IndexOK(d) ==
  (Bound(d) /\ job[d].state \in Usable) =>
    /\ index[d].text = text[d]
    /\ job[d].state = "completed" =>
         /\ phase[d] = "completed" /\ text[d] # Blank
         /\ \A c \in Chunks : index[d].vector[c] = job[d].config

\* A task that was never claimed has failed.  A claim is on an attempt that was issued;
\* while it is the row's own and the extraction stands, the worker runs
\* with the configuration of the job, and once it has cut the chunks they fit.
WorkOK(w) ==
  LET m == task[w].msg IN
  /\ Busy(w) => task[w].claimed \/ (pc[w] = "raised" /\ task[w].error = "failed")
  /\ Claims(w) =>
       /\ m.attempt <= job[m.doc].attempt
       /\ (m.attempt = job[m.doc].attempt /\ Bound(m.doc)) =>
            /\ job[m.doc].config = setup[w]
            /\ pc[w] \in Building => Fits(m.doc)

IInv ==
  /\ TypeOK
  /\ LabelsAreTrue
  /\ \A d \in Documents : SourceOK(d) /\ IndexOK(d)
  /\ \A w \in Workers : WorkOK(w)

\* A claim that a step leaves to the slot that holds it, or ends.
Stays(w) ==
  /\ Claims(w)' => /\ Claims(w) /\ task'[w].msg = task[w].msg /\ setup'[w] = setup[w]
  /\ Busy(w)' => task'[w].claimed \/ (pc'[w] = "raised" /\ task'[w].error = "failed")

Same(w) == Stays(w) /\ (Claims(w)' /\ pc'[w] \in Building => pc[w] \in Building)

LEMMA SameSlots ==
  ASSUME IInv, UNCHANGED slots, UNCHANGED setup
  PROVE  \A w \in Workers : Same(w)
BY DEF IInv, WorkOK, Same, Stays, Claims, Busy, slots

LEMMA BecomeSame ==
  ASSUME IInv, NEW w \in Workers, NEW stage, NEW t, Become(w, stage, t),
         \A v \in Workers : v # w => setup'[v] = setup[v],
         \/ stage = "idle"
         \/ ~t.claimed /\ stage = "raised"
         \/ /\ Busy(w) /\ t.msg = task[w].msg /\ t.claimed = task[w].claimed
            /\ setup'[w] = setup[w],
         stage \in Building => pc[w] \in Building,
         stage # "idle" => t.claimed \/ (stage = "raised" /\ t.error = "failed")
  PROVE  \A v \in Workers : Same(v)
<1>1. /\ pc'[w] = stage /\ task'[w] = t
      /\ \A v \in Workers : v # w => pc'[v] = pc[v] /\ task'[v] = task[v]
  BY DEF Become, IInv, TypeOK
<1>2. Same(w)
  BY <1>1 DEF Same, Stays, Claims, Busy
<1>3. ASSUME NEW v \in Workers, v # w PROVE Same(v)
  BY <1>1, <1>3 DEF Same, Stays, Claims, Busy, IInv, WorkOK
<1>4. QED BY <1>2, <1>3

\* Steps that write, of rows and chunks, at most the state of rows.
LEMMA RowKeeps ==
  ASSUME IInv, TypeOK', UNCHANGED <<source, phase, text, index>>,
         \A d \in Documents : /\ job'[d].attempt = job[d].attempt
                              /\ job'[d].source = job[d].source
                              /\ job'[d].config = job[d].config
                              /\ job'[d].state = job[d].state \/ IndexOK(d)',
         \A w \in Workers : Same(w) \/ WorkOK(w)'
  PROVE  IInv'
<1>1. LabelsAreTrue'
  BY DEF IInv, LabelsAreTrue
<1>2. \A d \in Documents : SourceOK(d)' /\ IndexOK(d)'
  BY DEF IInv, SourceOK, IndexOK, Bound
<1>3. ASSUME NEW w \in Workers, Same(w) PROVE WorkOK(w)'
  <2>1. CASE ~Claims(w)'
    BY <1>3, <2>1 DEF WorkOK, Same, Stays
  <2>2. CASE Claims(w)'
    <3>1. /\ Claims(w) /\ task'[w].msg = task[w].msg /\ setup'[w] = setup[w]
          /\ pc'[w] \in Building => pc[w] \in Building
      BY <1>3, <2>2 DEF Same, Stays
    <3>2. task[w].msg.doc \in Documents
      BY <3>1, TaskParts DEF IInv, Claims
    <3>3. WorkOK(w)
      BY DEF IInv
    <3>4. Busy(w)' /\ task'[w].claimed
      BY <2>2 DEF Claims
    <3>5. PICK n : n = task[w].msg
      OBVIOUS
    <3>6. /\ job'[n.doc].attempt = job[n.doc].attempt /\ job'[n.doc].source = job[n.doc].source
          /\ job'[n.doc].config = job[n.doc].config
      BY <3>2, <3>5
    <3>7. (Bound(n.doc)' <=> Bound(n.doc)) /\ (Fits(n.doc) => Fits(n.doc)')
      BY <3>6 DEF Bound, Fits
    <3>8. /\ n.attempt <= job[n.doc].attempt
          /\ (n.attempt = job[n.doc].attempt /\ Bound(n.doc)) =>
               job[n.doc].config = setup[w] /\ (pc[w] \in Building => Fits(n.doc))
      BY <3>1, <3>3, <3>5 DEF WorkOK
    <3>9. task'[w].msg = n
      BY <3>1, <3>5
    <3>10. QED BY <3>1, <3>4, <3>6, <3>7, <3>8, <3>9 DEF WorkOK
  <2>3. QED BY <2>1, <2>2
<1>4. QED BY <1>1, <1>2, <1>3 DEF IInv

\* A document whose job is, after the step, no longer bound to an extraction with pages.
LEMMA ExtractionKeeps ==
  ASSUME IInv, TypeOK', NEW d \in Documents, UNCHANGED <<slots, setup>>,
         \A e \in Documents : e # d => /\ source'[e] = source[e] /\ phase'[e] = phase[e]
                                       /\ text'[e] = text[e] /\ job'[e] = job[e]
                                       /\ index'[e] = index[e],
         job'[d].attempt = job[d].attempt, index'[d].label = index'[d].vector,
         SourceOK(d)', ~Bound(d)'
  PROVE  IInv'
<1>1. LabelsAreTrue'
  BY DEF IInv, LabelsAreTrue
<1>2. \A e \in Documents : SourceOK(e)' /\ IndexOK(e)'
  BY DEF IInv, SourceOK, IndexOK, Bound
<1>3. ASSUME NEW w \in Workers PROVE WorkOK(w)'
  <2>1. CASE ~Claims(w)
    BY <2>1 DEF IInv, WorkOK, Claims, Busy, slots
  <2>2. CASE Claims(w)
    <3>1. task[w].msg.doc \in Documents /\ WorkOK(w)
      BY <2>2, TaskParts DEF IInv, Claims
    <3>2. CASE task[w].msg.doc = d
      BY <2>2, <3>1, <3>2 DEF WorkOK, Claims, Busy, slots
    <3>3. CASE task[w].msg.doc # d
      BY <2>2, <3>1, <3>3 DEF WorkOK, Claims, Busy, slots, Bound, Fits
    <3>4. QED BY <3>2, <3>3
  <2>3. QED BY <2>1, <2>2
<1>4. QED BY <1>1, <1>2, <1>3 DEF IInv

\* A write of the chunks of the document a slot works on, which leaves them fitting.
LEMMA WriteKeeps ==
  ASSUME IInv, TypeOK', NEW w \in Workers, NEW d \in Documents, Heartbeat(d),
         task[w].msg.doc = d, UNCHANGED <<source, phase, text>>,
         \A e \in Documents : e # d => index'[e] = index[e],
         index'[d].label = index'[d].vector, Fits(d)',
         Stays(w), \A v \in Workers : v # w => Same(v)
  PROVE  IInv'
<1>1. /\ job'[d].attempt = job[d].attempt /\ job'[d].source = job[d].source
      /\ job'[d].config = job[d].config /\ job'[d].state = "running"
      /\ \A e \in Documents : e # d => job'[e] = job[e]
  BY HeartbeatWrites DEF IInv
<1>2. LabelsAreTrue'
  BY DEF IInv, LabelsAreTrue
<1>3. \A e \in Documents : SourceOK(e)' /\ IndexOK(e)'
  BY <1>1 DEF IInv, SourceOK, IndexOK, Bound, Usable
<1>4. ASSUME NEW v \in Workers PROVE WorkOK(v)'
  <2>1. Stays(v)
    BY DEF Same
  <2>2. CASE ~Claims(v)'
    BY <2>1, <2>2 DEF WorkOK, Stays
  <2>3. CASE Claims(v)'
    <3>1. Claims(v) /\ task'[v].msg = task[v].msg /\ setup'[v] = setup[v]
      BY <2>1, <2>3 DEF Stays
    <3>2. task[v].msg.doc \in Documents /\ WorkOK(v)
      BY <3>1, TaskParts DEF IInv, Claims
    <3>3. CASE task[v].msg.doc = d
      BY <1>1, <2>1, <2>3, <3>1, <3>2, <3>3 DEF WorkOK, Stays, Bound
    <3>4. CASE task[v].msg.doc # d
      <4>1. v # w /\ (pc'[v] \in Building => pc[v] \in Building)
        BY <2>3, <3>4 DEF Same
      <4>2. PICK e : e = task[v].msg.doc
        OBVIOUS
      <4>3. e \in Documents /\ e # d /\ task'[v].msg.doc = e
        BY <3>1, <3>2, <3>4, <4>2
      <4>4. job'[e] = job[e] /\ Bound(e)' = Bound(e)
        BY <1>1, <4>3 DEF Bound
      <4>5. Fits(e)' = Fits(e)
        BY <4>3, <4>4 DEF Fits
      <4>6. /\ task[v].msg.attempt <= job[e].attempt
            /\ (task[v].msg.attempt = job[e].attempt /\ Bound(e)) =>
                 /\ job[e].config = setup[v]
                 /\ pc[v] \in Building => Fits(e)
        BY <3>1, <3>2, <4>2 DEF WorkOK
      <4>7. Busy(v)' => task'[v].claimed \/ (pc'[v] = "raised" /\ task'[v].error = "failed")
        BY <2>1 DEF Stays
      <4>8. QED BY <3>1, <4>1, <4>3, <4>4, <4>5, <4>6, <4>7 DEF WorkOK
    <3>5. QED BY <3>3, <3>4
  <2>4. QED BY <2>2, <2>3
<1>5. QED BY <1>2, <1>3, <1>4 DEF IInv

\* finish() leaves an index that keeps its promise.
LEMMA SettleKeeps ==
  ASSUME IInv, TypeOK', NEW m \in Message, NEW state, NEW outcome,
         Settle(m, state, outcome), UNCHANGED <<source, phase, text, index>>,
         \A w \in Workers : Same(w),
         (outcome \in Usable /\ Current(m, state)) =>
           /\ index[m.doc].text = text[m.doc]
           /\ outcome = "completed" =>
                /\ phase[m.doc] = "completed" /\ text[m.doc] # Blank
                /\ \A c \in Chunks : index[m.doc].vector[c] = job[m.doc].config
  PROVE  IInv'
<1>1. CASE ~Current(m, state)
  BY <1>1, RowKeeps DEF Settle
<1>2. CASE Current(m, state)
  <2>1. /\ job'[m.doc].attempt = job[m.doc].attempt /\ job'[m.doc].source = job[m.doc].source
        /\ job'[m.doc].config = job[m.doc].config /\ job'[m.doc].state = outcome
        /\ \A e \in Documents : e # m.doc => job'[e] = job[e]
    BY <1>2, SettleWrites DEF IInv
  <2>2. IndexOK(m.doc)'
    BY <1>2, <2>1 DEF IndexOK, Bound
  <2>3. QED BY <2>1, <2>2, RowKeeps
<1>3. QED BY <1>1, <1>2

-----------------------------------------------------------------------------
(* Every step keeps the invariant *)

LEMMA InitInv == Init => IInv
<1> SUFFICES ASSUME Init PROVE IInv
  OBVIOUS
<1>1. TypeOK
  BY InitType
<1>2. \A d \in Documents :
        /\ job[d].source = 0 /\ job[d].state = "none" /\ source[d] = 0 /\ phase[d] = "none"
        /\ index[d].label = index[d].vector
  BY DEF Init, NoJob, NoIndex, Source!JobInit
<1>3. \A w \in Workers : ~Busy(w) /\ ~Claims(w)
  BY DEF Init, Claims, Busy
<1>4. QED
  BY <1>1, <1>2, <1>3 DEF IInv, LabelsAreTrue, SourceOK, IndexOK, Bound, WorkOK, Usable, Building

LEMMA ExtractKeeps ==
  ASSUME IInv, TypeOK', NEW d \in Documents, Extract(d)
  PROVE  IInv'
<1> USE DEF deployed, rows
<1>1. job[d].source \in Nat /\ source[d] \in Nat /\ SourceOK(d)
  BY JobParts, NaturalBounds DEF IInv
<1>2. UNCHANGED <<text, job, index, slots, setup>>
  BY DEF Extract
<1>3. \A e \in Documents : e # d => source'[e] = source[e] /\ phase'[e] = phase[e]
  BY DEF Extract, Source!Issue, Source!Start, Source!Settle, IInv, TypeOK
<1>4. job'[d].source < source'[d] \/ (source'[d] = source[d] /\ job[d].source < source[d])
  <2>1. CASE Source!Issue(d)
    BY <1>1, <1>2, <2>1 DEF Source!Issue, IInv, TypeOK, SourceOK
  <2>2. CASE Source!Start(d) \/ Source!Settle(d)
    <3>1. phase[d] \in {"queued", "running"} /\ source' = source
      BY <2>2 DEF Source!Start, Source!Settle
    <3>2. job[d].source # source[d]
      BY <1>1, <3>1 DEF SourceOK, Usable
    <3>3. QED BY <1>1, <3>1, <3>2 DEF SourceOK
  <2>3. QED BY <2>1, <2>2 DEF Extract
<1>5. job'[d].source < source'[d] /\ job'[d].source \in Nat /\ source'[d] \in Nat
  BY <1>1, <1>2, <1>4, NaturalBounds DEF TypeOK
<1>6. SourceOK(d)' /\ ~Bound(d)'
  BY <1>5 DEF SourceOK, Bound
<1>7. QED BY <1>2, <1>3, <1>6, ExtractionKeeps DEF IInv, LabelsAreTrue

LEMMA WritePagesKeeps ==
  ASSUME IInv, TypeOK', NEW d \in Documents, WritePages(d)
  PROVE  IInv'
<1>1. /\ UNCHANGED <<source, phase, job, index, slots, setup>> /\ phase[d] = "running"
      /\ \A e \in Documents : e # d => text'[e] = text[e]
  BY DEF WritePages, rows, deployed, IInv, TypeOK
<1>2. SourceOK(d)' /\ ~Bound(d)'
  BY <1>1 DEF IInv, SourceOK, Bound, Usable
<1>3. QED BY <1>1, <1>2, ExtractionKeeps DEF IInv, LabelsAreTrue

LEMMA DeleteKeeps ==
  ASSUME IInv, TypeOK', NEW d \in Documents, Delete(d)
  PROVE  IInv'
<1>1. /\ UNCHANGED <<source, slots, setup>> /\ phase'[d] = "gone"
      /\ job'[d].source = 0 /\ job'[d].attempt = job[d].attempt
      /\ index'[d].label = index'[d].vector
      /\ \A e \in Documents : e # d => /\ phase'[e] = phase[e] /\ text'[e] = text[e]
                                       /\ job'[e] = job[e] /\ index'[e] = index[e]
  <2>1. [NoJob(config) EXCEPT !.attempt = job[d].attempt].source = 0
        /\ [NoJob(config) EXCEPT !.attempt = job[d].attempt].attempt = job[d].attempt
    BY DEF NoJob
  <2>2. job'[d] = [NoJob(config) EXCEPT !.attempt = job[d].attempt]
        /\ \A e \in Documents : e # d => job'[e] = job[e]
    BY DEF Delete, IInv, TypeOK
  <2>3. QED
    BY <2>1, <2>2 DEF Delete, Source!Discard, NoIndex, deployed, IInv, TypeOK
<1>2. source'[d] \in Nat
  BY <1>1, JobParts, NaturalBounds DEF IInv
<1>3. SourceOK(d)' /\ ~Bound(d)'
  BY <1>1, <1>2 DEF SourceOK, Bound, Usable
<1>4. QED BY <1>1, <1>3, ExtractionKeeps

LEMMA QueueKeeps ==
  ASSUME IInv, TypeOK', NEW d \in Documents, Queue(d)
  PROVE  IInv'
<1>1. /\ UNCHANGED <<source, phase, text, index, slots, setup>> /\ phase[d] \in Usable
      /\ job'[d].attempt = job[d].attempt + 1 /\ job'[d].source = source[d]
      /\ job'[d].state = "queued"
      /\ \A e \in Documents : e # d => job'[e] = job[e]
  BY DEF Queue, extraction, deployed, IInv, TypeOK
<1>2. job[d].attempt \in Nat /\ source[d] \in Nat
  BY JobParts, NaturalBounds DEF IInv
<1>3. LabelsAreTrue'
  BY <1>1 DEF IInv, LabelsAreTrue
<1>4. \A e \in Documents : SourceOK(e)' /\ IndexOK(e)'
  BY <1>1, <1>2 DEF IInv, SourceOK, IndexOK, Bound, Usable
<1>5. ASSUME NEW w \in Workers PROVE WorkOK(w)'
  <2>1. CASE ~Claims(w)
    BY <1>1, <2>1 DEF IInv, WorkOK, Claims, Busy, slots
  <2>2. CASE Claims(w)
    <3>1. task[w].msg.doc \in Documents /\ task[w].msg.attempt \in Nat /\ WorkOK(w)
      BY <2>2, TaskParts, NaturalBounds DEF IInv, Claims
    <3>2. CASE task[w].msg.doc = d
      BY <1>1, <1>2, <2>2, <3>1, <3>2 DEF WorkOK, Claims, Busy, slots
    <3>3. CASE task[w].msg.doc # d
      BY <1>1, <2>2, <3>1, <3>3 DEF WorkOK, Claims, Busy, slots, Bound, Fits
    <3>4. QED BY <3>2, <3>3
  <2>3. QED BY <2>1, <2>2
<1>6. QED BY <1>3, <1>4, <1>5 DEF IInv

LEMMA ClaimKeeps ==
  ASSUME IInv, TypeOK', NEW w \in Workers, NEW m \in Message, Claim(w, m)
  PROVE  IInv'
<1>1. /\ m.doc \in Documents /\ Heartbeat(m.doc) /\ job[m.doc].attempt = m.attempt
      /\ job[m.doc].config = setup[w] /\ Become(w, "claimed", NewTask(m))
      /\ UNCHANGED <<source, phase, text, index, setup>>
  BY DEF Claim, Message, Current, extraction, deployed
<1>2. /\ job'[m.doc].attempt = job[m.doc].attempt /\ job'[m.doc].source = job[m.doc].source
      /\ job'[m.doc].config = job[m.doc].config /\ job'[m.doc].state = "running"
      /\ \A e \in Documents : e # m.doc => job'[e] = job[e]
  BY <1>1, HeartbeatWrites DEF IInv
<1>3. NewTask(m).msg = m /\ NewTask(m).claimed
  BY NewTaskType DEF IInv
<1>4. /\ pc'[w] = "claimed" /\ task'[w] = NewTask(m)
      /\ \A v \in Workers : v # w => pc'[v] = pc[v] /\ task'[v] = task[v]
  BY <1>1 DEF Become, IInv, TypeOK
<1>5. job'[m.doc].attempt \in Nat
  BY <1>1, <1>2, JobParts, NaturalBounds DEF IInv
<1>6. WorkOK(w)'
  BY <1>1, <1>2, <1>3, <1>4, <1>5 DEF WorkOK, Building
<1>7. ASSUME NEW v \in Workers, v # w PROVE Same(v)
  BY <1>1, <1>4, <1>7 DEF Same, Stays, Claims, Busy, IInv, WorkOK
<1>8. IndexOK(m.doc)'
  BY <1>2 DEF IndexOK, Usable
<1>9. QED BY <1>1, <1>2, <1>6, <1>7, <1>8, RowKeeps

\* What a worker slot knows when its transaction finds the job still its own.
LEMMA AtWork ==
  ASSUME IInv, NEW w \in Workers, pc[w] \in {"claimed"} \union Building, Ready(w)
  PROVE  LET d == task[w].msg.doc IN
         /\ Claims(w) /\ task[w] \in Task /\ task[w].msg \in Message /\ d \in Documents
         /\ task[w].batch \in SUBSET Chunks
         /\ Current(task[w].msg, "running") /\ job[d].config = setup[w]
         /\ pc[w] \in Building => Fits(d)
<1>1. Claims(w) /\ Busy(w) /\ WorkOK(w)
  BY DEF IInv, WorkOK, Claims, Busy, Building
<1>2. task[w] \in Task /\ task[w].msg \in Message /\ task[w].msg.doc \in Documents
      /\ task[w].batch \in SUBSET Chunks
  BY <1>1, TaskParts DEF IInv
<1>3. Current(task[w].msg, "running")
  BY DEF Ready, Superseded
<1>4. QED BY <1>1, <1>2, <1>3 DEF WorkOK, Current, Bound

LEMMA PrepareKeeps ==
  ASSUME IInv, TypeOK', NEW w \in Workers, Prepare(w)
  PROVE  IInv'
<1>0. PICK d : d = task[w].msg.doc
  OBVIOUS
<1>1. /\ pc[w] = "claimed" /\ Ready(w) /\ Heartbeat(d)
      /\ Become(w, "looping", [task[w] EXCEPT !.text = Blank])
      /\ UNCHANGED <<source, phase, text, setup>>
  BY <1>0 DEF Prepare, extraction, deployed
<1>2. /\ Claims(w) /\ Busy(w) /\ task[w] \in Task /\ d \in Documents
      /\ task[w].msg \in Message /\ task[w].claimed
  BY <1>0, <1>1, AtWork DEF Claims
<1> DEFINE Cutting(e, same) ==
             index' = [index EXCEPT ![e] =
               [text |-> text[e],
                vector |-> [c \in Chunks |-> IF c \in same THEN index[e].vector[c] ELSE Bare],
                label |-> [c \in Chunks |-> IF c \in same THEN job[e].config ELSE Bare]]]
<1>3. PICK same \in SUBSET {c \in Chunks : Reusable(task[w].msg.doc, c)} :
        Cutting(task[w].msg.doc, same)
  BY DEF Prepare
<1>4. /\ index'[d].text = text[d]
      /\ index'[d].vector = [c \in Chunks |-> IF c \in same THEN index[d].vector[c] ELSE Bare]
      /\ index'[d].label = [c \in Chunks |-> IF c \in same THEN job[d].config ELSE Bare]
      /\ \A e \in Documents : e # d => index'[e] = index[e]
  BY <1>0, <1>2, <1>3 DEF IInv, TypeOK
<1>5. \A c \in same : index[d].vector[c] = job[d].config
  BY <1>0, <1>2, <1>3 DEF Reusable, IInv, LabelsAreTrue
<1>6. index'[d].label = index'[d].vector
  BY <1>4, <1>5
<1>7. job'[d].config = job[d].config
  BY <1>1, <1>2, HeartbeatWrites DEF IInv
<1>8. Fits(d)'
  <2>1. \A c \in Chunks : index'[d].vector[c] \in {Bare, job[d].config}
    BY <1>4, <1>5
  <2>2. text'[d] = text[d]
    BY <1>1
  <2>3. QED BY <1>4, <1>7, <2>1, <2>2 DEF Fits
<1>9. Stays(w) /\ \A v \in Workers : v # w => Same(v)
  <2>1. /\ [task[w] EXCEPT !.text = Blank].msg = task[w].msg
        /\ [task[w] EXCEPT !.text = Blank].claimed = task[w].claimed
    BY <1>2, SameClaim
  <2>2. /\ pc'[w] = "looping" /\ task'[w] = [task[w] EXCEPT !.text = Blank]
        /\ \A v \in Workers : v # w => pc'[v] = pc[v] /\ task'[v] = task[v]
    BY <1>1 DEF Become, IInv, TypeOK
  <2>3. Stays(w)
    BY <1>1, <1>2, <2>1, <2>2 DEF Stays, Claims
  <2>4. ASSUME NEW v \in Workers, v # w PROVE Same(v)
    BY <1>1, <2>2, <2>4 DEF Same, Stays, Claims, Busy, IInv, WorkOK
  <2>5. QED BY <2>3, <2>4
<1>10. QED
  BY <1>0, <1>1, <1>2, <1>4, <1>6, <1>8, <1>9, WriteKeeps

LEMMA SaveEmbeddingsKeeps ==
  ASSUME IInv, TypeOK', NEW w \in Workers, SaveEmbeddings(w)
  PROVE  IInv'
<1>0. PICK d : d = task[w].msg.doc
  OBVIOUS
<1> DEFINE done == task[w].batch
<1>1. /\ pc[w] = "embedding" /\ Ready(w) /\ Heartbeat(d)
      /\ Become(w, "looping", [task[w] EXCEPT !.batch = {}])
      /\ UNCHANGED <<source, phase, text, setup>>
  BY <1>0 DEF SaveEmbeddings, extraction, deployed
<1>2. /\ Claims(w) /\ Busy(w) /\ task[w] \in Task /\ d \in Documents
      /\ task[w].msg \in Message /\ task[w].claimed
      /\ job[d].config = setup[w] /\ Fits(d)
  BY <1>0, <1>1, AtWork DEF Claims, Building
<1>3. /\ index'[d].text = index[d].text
      /\ index'[d].vector = [c \in Chunks |-> IF c \in done THEN setup[w] ELSE index[d].vector[c]]
      /\ index'[d].label =
           [c \in Chunks |-> IF c \in done THEN job[d].config ELSE index[d].label[c]]
      /\ \A e \in Documents : e # d => index'[e] = index[e]
  BY <1>0, <1>2 DEF SaveEmbeddings, IInv, TypeOK
<1>4. index'[d].label = index'[d].vector
  BY <1>2, <1>3 DEF IInv, LabelsAreTrue
<1>5. job'[d].config = job[d].config
  BY <1>1, <1>2, HeartbeatWrites DEF IInv
<1>6. Fits(d)'
  <2>1. \A c \in Chunks : index'[d].vector[c] \in {Bare, job[d].config}
    BY <1>2, <1>3 DEF Fits
  <2>2. index'[d].text = text'[d]
    BY <1>1, <1>2, <1>3 DEF Fits
  <2>3. QED BY <1>5, <2>1, <2>2 DEF Fits
<1>7. Stays(w) /\ \A v \in Workers : v # w => Same(v)
  <2>1. /\ [task[w] EXCEPT !.batch = {}].msg = task[w].msg
        /\ [task[w] EXCEPT !.batch = {}].claimed = task[w].claimed
    BY <1>2, SameClaim
  <2>2. /\ pc'[w] = "looping" /\ task'[w] = [task[w] EXCEPT !.batch = {}]
        /\ \A v \in Workers : v # w => pc'[v] = pc[v] /\ task'[v] = task[v]
    BY <1>1 DEF Become, IInv, TypeOK
  <2>3. Stays(w)
    BY <1>1, <1>2, <2>1, <2>2 DEF Stays, Claims
  <2>4. ASSUME NEW v \in Workers, v # w PROVE Same(v)
    BY <1>1, <2>2, <2>4 DEF Same, Stays, Claims, Busy, IInv, WorkOK
  <2>5. QED BY <2>3, <2>4
<1>8. QED
  BY <1>0, <1>1, <1>2, <1>3, <1>4, <1>6, <1>7, WriteKeeps

LEMMA TakeBatchKeeps ==
  ASSUME IInv, TypeOK', NEW w \in Workers, TakeBatch(w)
  PROVE  IInv'
<1>0. PICK d : d = task[w].msg.doc
  OBVIOUS
<1>1. /\ pc[w] = "looping" /\ Ready(w) /\ Heartbeat(d)
      /\ UNCHANGED <<source, phase, text, index, setup>>
  BY <1>0 DEF TakeBatch, extraction, deployed
<1>2. /\ Claims(w) /\ Busy(w) /\ task[w] \in Task /\ d \in Documents /\ task[w].claimed
  BY <1>0, <1>1, AtWork DEF Claims, Building
<1>3. PICK b \in SUBSET Chunks, stage \in {"done", "embedding"} :
        Become(w, stage, [task[w] EXCEPT !.batch = b])
  BY DEF TakeBatch, Pending, Cut
<1>4. /\ [task[w] EXCEPT !.batch = b].msg = task[w].msg
      /\ [task[w] EXCEPT !.batch = b].claimed = task[w].claimed
  BY <1>2, SameClaim
<1>5. \A v \in Workers : Same(v)
  BY <1>1, <1>2, <1>3, <1>4, BecomeSame DEF Building
<1>6. /\ job'[d].attempt = job[d].attempt /\ job'[d].source = job[d].source
      /\ job'[d].config = job[d].config /\ job'[d].state = "running"
      /\ \A e \in Documents : e # d => job'[e] = job[e]
  BY <1>1, <1>2, HeartbeatWrites DEF IInv
<1>7. IndexOK(d)'
  BY <1>6 DEF IndexOK, Usable
<1>8. QED BY <1>1, <1>2, <1>5, <1>6, <1>7, RowKeeps

LEMMA FinishKeeps ==
  ASSUME IInv, TypeOK', NEW w \in Workers, Finish(w)
  PROVE  IInv'
<1> DEFINE d == task[w].msg.doc
<1>1. /\ pc[w] = "done" /\ Ready(w) /\ Become(w, "idle", NoTask)
      /\ Settle(task[w].msg, "running", Outcome(d))
      /\ UNCHANGED <<source, phase, text, index, setup>>
  BY DEF Finish, Leave, extraction, deployed
<1>2. task[w].msg \in Message /\ Fits(d)
  BY <1>1, AtWork DEF Building
<1>3. \A v \in Workers : Same(v)
  BY <1>1, BecomeSame DEF Building
<1>4. index[d].text = text[d]
  BY <1>2 DEF Fits
<1>5. Outcome(d) = "completed" =>
        /\ phase[d] = "completed" /\ text[d] # Blank
        /\ \A c \in Chunks : index[d].vector[c] = job[d].config
  BY <1>2 DEF Outcome, Cut, Pending, Fits
<1>6. QED BY <1>1, <1>2, <1>3, <1>4, <1>5, SettleKeeps

LEMMA NextInv ==
  ASSUME IInv, [Next]_vars
  PROVE  IInv'
<1>0. TypeOK'
  BY NextType DEF IInv
<1> USE DEF extraction, deployed, rows
<1>1. ASSUME UNCHANGED <<source, phase, text, index, job>>, \A w \in Workers : Same(w)
      PROVE  IInv'
  BY <1>0, <1>1, RowKeeps
<1>2. ASSUME NEW m \in Message,
             \/ Publish(m) \/ PublishRaises(m) \/ ForgetMessage(m) \/ LoseMessage(m)
             \/ IgnoreMessage(m)
      PROVE  IInv'
  BY <1>1, <1>2, SameSlots DEF Publish, PublishRaises, ForgetMessage, LoseMessage, IgnoreMessage
<1>3. ASSUME NEW d \in Documents, Scanned(d) PROVE IInv'
  BY <1>1, <1>3, SameSlots DEF Scanned
<1>4. CASE Reconfigure \/ UNCHANGED vars
  BY <1>1, <1>4, SameSlots DEF Reconfigure, vars, slots
<1>5. ASSUME NEW w \in Workers, NEW m \in Message, ClaimRaises(w, m) PROVE IInv'
  <2>1. /\ ~[NewTask(m) EXCEPT !.claimed = FALSE].claimed
        /\ [NewTask(m) EXCEPT !.claimed = FALSE].error = "failed"
    BY NewTaskType DEF IInv
  <2>2. \A v \in Workers : Same(v)
    BY <1>5, <2>1, BecomeSame DEF ClaimRaises, Building
  <2>3. QED BY <1>1, <1>5, <2>2 DEF ClaimRaises
<1>6. ASSUME NEW w \in Workers,
             Overtaken(w) \/ Blocked(w) \/ Raise(w) \/ Unconfigured(w) \/ WorkerStops(w)
      PROVE  IInv'
  <2>1. UNCHANGED <<source, phase, text, index, job, setup>>
    BY <1>6 DEF Overtaken, Blocked, Raise, Unconfigured, WorkerStops
  <2>2. Busy(w) /\ task[w] \in Task
    BY <1>6, TaskParts DEF Overtaken, Blocked, Raise, Unconfigured, WorkerStops, Busy, IInv
  <2>3. \E stage \in {"idle", "raised"}, t \in Task \union {NoTask} :
          /\ Become(w, stage, t)
          /\ stage = "raised" => /\ pc[w] \in {"claimed"} \union Building
                                 /\ t.msg = task[w].msg /\ t.claimed = task[w].claimed
    BY <1>6, <2>2, SameClaim
       DEF Overtaken, Blocked, Raise, Unconfigured, WorkerStops, Leave, Building
  <2>4. \A v \in Workers : Same(v)
    BY <2>1, <2>2, <2>3, BecomeSame DEF Building, IInv, WorkOK
  <2>5. QED BY <1>1, <2>1, <2>4
<1>7. ASSUME NEW w \in Workers, Restart(w) PROVE IInv'
  <2>1. /\ Become(w, "idle", NoTask) /\ UNCHANGED <<source, phase, text, index, job>>
        /\ \A v \in Workers : v # w => setup'[v] = setup[v]
    BY <1>7 DEF Restart, Leave, IInv, TypeOK
  <2>2. \A v \in Workers : Same(v)
    BY <2>1, BecomeSame DEF Building
  <2>3. QED BY <1>1, <2>1, <2>2
<1>8. ASSUME NEW m \in Message, RecordUnsent(m) PROVE IInv'
  <2>1. Settle(m, "queued", "failed") /\ UNCHANGED <<source, phase, text, index, slots, setup>>
    BY <1>8 DEF RecordUnsent
  <2>2. QED BY <1>0, <2>1, SameSlots, SettleKeeps DEF Usable
<1>9. ASSUME NEW w \in Workers, RecordError(w) PROVE IInv'
  <2>1. /\ \E state \in InFlight : Settle(task[w].msg, state, task[w].error)
        /\ Become(w, "idle", NoTask) /\ UNCHANGED <<source, phase, text, index, setup>>
    BY <1>9 DEF RecordError, Leave, InFlight
  <2>2. task[w].msg \in Message /\ task[w].error \notin Usable
    BY <1>9, TaskParts DEF RecordError, Busy, IInv, Usable
  <2>3. \A v \in Workers : Same(v)
    BY <2>1, BecomeSame DEF Building
  <2>4. QED BY <1>0, <2>1, <2>2, <2>3, SettleKeeps
<1>10. CASE Tick
  <2>1. \A d \in Documents : /\ job'[d].attempt = job[d].attempt /\ job'[d].source = job[d].source
                             /\ job'[d].config = job[d].config /\ job'[d].state = job[d].state
    BY <1>10, JobParts DEF Tick, IInv, Job
  <2>2. UNCHANGED <<source, phase, text, index, slots, setup>>
    BY <1>10 DEF Tick
  <2>3. QED BY <1>0, <2>1, <2>2, SameSlots, RowKeeps
<1>11. QED
  BY <1>0, <1>2, <1>3, <1>4, <1>5, <1>6, <1>7, <1>8, <1>9, <1>10, ExtractKeeps, WritePagesKeeps,
     DeleteKeeps, QueueKeeps, ClaimKeeps, PrepareKeeps, SaveEmbeddingsKeeps, TakeBatchKeeps,
     FinishKeeps
     DEF Next, Work, Deploy, Fault, Proceed, ClaimRefused

\* What every reachable state of the index satisfies.
THEOREM Invariance == Spec => []IInv
BY InitInv, NextInv, PTL DEF Spec

\* In every reachable state: labels say what made the vectors; a readable index that is
\* completed has every chunk of an extraction that is completed; and whatever a search
\* can find was cut from the text stored now and embedded as the question will be.
THEOREM Soundness == Spec => []Inv
<1>1. ASSUME IInv, NEW d \in Documents, Readable(d)
      PROVE  /\ index[d].text = text[d] /\ job[d].config = config
             /\ job[d].state = "completed" =>
                  /\ phase[d] = "completed" /\ text[d] # Blank
                  /\ \A c \in Chunks : index[d].vector[c] = config
  BY <1>1 DEF IInv, IndexOK, Readable, Bound
<1>2. ASSUME IInv PROVE SearchableIsSound
  BY <1>1, <1>2 DEF SearchableIsSound, Searchable, Cut, IInv, LabelsAreTrue
<1>3. ASSUME IInv PROVE CompletedIndexIsWhole
  BY <1>1, <1>3 DEF CompletedIndexIsWhole, Searchable, Cut, IInv, LabelsAreTrue
<1>4. IInv => Inv
  BY <1>2, <1>3 DEF IInv, Inv
<1>5. QED BY <1>4, Invariance, PTL

-----------------------------------------------------------------------------
(* What a step may never do *)

\* A step writes chunks by cutting or embedding them, or deletes them.
LEMMA IndexWrites ==
  ASSUME [Next]_vars
  PROVE  \/ UNCHANGED index
         \/ \E d \in Documents : Delete(d)
         \/ \E w \in Workers : Prepare(w) \/ SaveEmbeddings(w)
<1> USE DEF rows
<1>1. ASSUME NEW d \in Documents, Extract(d) \/ WritePages(d) \/ Scanned(d) \/ Queue(d)
      PROVE  UNCHANGED index
  BY <1>1 DEF Extract, WritePages, Scanned, Queue
<1>2. ASSUME NEW m \in Message,
             \/ Publish(m) \/ RecordUnsent(m) \/ IgnoreMessage(m)
             \/ PublishRaises(m) \/ ForgetMessage(m) \/ LoseMessage(m)
      PROVE  UNCHANGED index
  BY <1>2 DEF Publish, RecordUnsent, IgnoreMessage, PublishRaises, ForgetMessage, LoseMessage
<1>3. ASSUME NEW w \in Workers, NEW m \in Message, Claim(w, m) \/ ClaimRaises(w, m)
      PROVE  UNCHANGED index
  BY <1>3 DEF Claim, ClaimRaises
<1>4. ASSUME NEW w \in Workers,
             \/ Overtaken(w) \/ Blocked(w) \/ TakeBatch(w) \/ Unconfigured(w) \/ Finish(w)
             \/ RecordError(w) \/ Raise(w) \/ WorkerStops(w) \/ Restart(w)
      PROVE  UNCHANGED index
  BY <1>4 DEF Overtaken, Blocked, TakeBatch, Unconfigured, Finish, RecordError, Raise,
              WorkerStops, Restart
<1>5. QED
  BY <1>1, <1>2, <1>3, <1>4
     DEF Next, Work, Deploy, Reconfigure, Fault, Proceed, ClaimRefused, Tick, vars

\* A worker that is late, or whose extraction is no longer the newest, changes neither
\* chunks nor vectors.
THEOREM LateBuilders == Spec => LateBuildersChangeNothing
<1> DEFINE Fenced == \A d \in Documents :
                       (index'[d] # index[d] /\ Exists(d)') =>
                         /\ job[d].state = "running" /\ job[d].source = source[d]
                         /\ phase[d] \in Usable
<1>1. TypeOK /\ [Next]_vars => Fenced
  <2> SUFFICES ASSUME TypeOK, [Next]_vars, NEW d \in Documents,
                      index'[d] # index[d], Exists(d)'
               PROVE  /\ job[d].state = "running" /\ job[d].source = source[d]
                      /\ phase[d] \in Usable
    OBVIOUS
  <2>1. ASSUME NEW e \in Documents, Delete(e) PROVE FALSE
    <3>1. CASE e = d
      BY <2>1, <3>1 DEF Delete, Source!Discard, Exists, TypeOK
    <3>2. CASE e # d
      BY <2>1, <3>2 DEF Delete, TypeOK
    <3>3. QED BY <3>1, <3>2
  <2>2. PICK w \in Workers : Prepare(w) \/ SaveEmbeddings(w)
    BY <2>1, IndexWrites
  <2>3. task[w].msg.doc = d
    BY <2>2 DEF Prepare, SaveEmbeddings, TypeOK
  <2>4. QED BY <2>2, <2>3 DEF Prepare, SaveEmbeddings, Ready, Superseded, Current
<1>2. TypeOK /\ [Next]_vars => [Fenced]_vars
  BY <1>1
<1>3. QED BY <1>2, TypeCorrect, PTL DEF Spec, LateBuildersChangeNothing

-----------------------------------------------------------------------------
(* Refinement: a document's index is a fenced job *)

AbsJob(d) == <<job[d].attempt, Phase(d), author[d]>>
AbsVars == <<[d \in Documents |-> job[d].attempt], [d \in Documents |-> Phase(d)], author>>

LEMMA AbstractStutter ==
  ASSUME TypeOK, TypeOK', \A d \in Documents : AbsJob(d)' = AbsJob(d)
  PROVE  UNCHANGED AbsVars
<1>1. author' = author
  BY DEF AbsJob, TypeOK
<1>2. \A d \in Documents : job'[d].attempt = job[d].attempt /\ Phase(d)' = Phase(d)
  BY DEF AbsJob
<1>3. QED BY <1>1, <1>2 DEF AbsVars

\* A step that changes the index job of one document in one of the four ways of
\* FencedJob is that step of FencedJob.
LEMMA AbstractStep ==
  ASSUME TypeOK, TypeOK', NEW d \in Documents,
         \A e \in Documents : e # d => AbsJob(e)' = AbsJob(e),
         \/ /\ Phase(d) # "gone"
            /\ AbsJob(d)' = <<job[d].attempt + 1, "queued", 0>>
         \/ /\ Phase(d) = "queued"
            /\ AbsJob(d)' = <<job[d].attempt, "running", author[d]>>
         \/ /\ Phase(d) = "running" \/ (Phase(d) = "queued" /\ Phase(d)' = "failed")
            /\ Phase(d)' \in Settled
            /\ AbsJob(d)' = <<job[d].attempt, Phase(d)', job[d].attempt>>
         \/ /\ Phase(d) # "gone"
            /\ AbsJob(d)' = <<job[d].attempt, "gone", 0>>
  PROVE  Abstract!JobNext
<1> DEFINE A == [e \in Documents |-> job[e].attempt]
           P == [e \in Documents |-> Phase(e)]
<1>1. /\ author \in [Documents -> 0..MaxAttempts] /\ author' \in [Documents -> 0..MaxAttempts]
      /\ \A e \in Documents : e # d => /\ job'[e].attempt = job[e].attempt
                                       /\ Phase(e)' = Phase(e) /\ author'[e] = author[e]
  BY DEF TypeOK, AbsJob
<1>2. CASE Phase(d) # "gone" /\ AbsJob(d)' = <<job[d].attempt + 1, "queued", 0>>
  <2>1. A' = [A EXCEPT ![d] = @ + 1] /\ P' = [P EXCEPT ![d] = "queued"]
    BY <1>1, <1>2 DEF AbsJob
  <2>2. author' = [author EXCEPT ![d] = 0]
    BY <1>1, <1>2 DEF AbsJob
  <2>3. Abstract!Issue(d)
    BY <1>2, <2>1, <2>2 DEF Abstract!Issue
  <2>4. QED BY <2>3 DEF Abstract!JobNext
<1>3. CASE Phase(d) = "queued" /\ AbsJob(d)' = <<job[d].attempt, "running", author[d]>>
  <2>1. A' = A /\ P' = [P EXCEPT ![d] = "running"]
    BY <1>1, <1>3 DEF AbsJob
  <2>2. author' = author
    BY <1>1, <1>3 DEF AbsJob
  <2>3. Abstract!Start(d)
    BY <1>3, <2>1, <2>2 DEF Abstract!Start
  <2>4. QED BY <2>3 DEF Abstract!JobNext
<1>4. CASE /\ Phase(d) = "running" \/ (Phase(d) = "queued" /\ Phase(d)' = "failed")
           /\ Phase(d)' \in Settled
           /\ AbsJob(d)' = <<job[d].attempt, Phase(d)', job[d].attempt>>
  <2>1. A' = A /\ P' = [P EXCEPT ![d] = Phase(d)']
    BY <1>1, <1>4 DEF AbsJob
  <2>2. author' = [author EXCEPT ![d] = A[d]]
    BY <1>1, <1>4 DEF AbsJob
  <2>3. Phase(d)' \in Abstract!Outcomes
    BY <1>4 DEF Settled, Abstract!Outcomes
  <2>4. Abstract!Settle(d)
    BY <1>4, <2>1, <2>2, <2>3 DEF Abstract!Settle
  <2>5. QED BY <2>4 DEF Abstract!JobNext
<1>5. CASE Phase(d) # "gone" /\ AbsJob(d)' = <<job[d].attempt, "gone", 0>>
  <2>1. A' = A /\ P' = [P EXCEPT ![d] = "gone"]
    BY <1>1, <1>5 DEF AbsJob
  <2>2. author' = [author EXCEPT ![d] = 0]
    BY <1>1, <1>5 DEF AbsJob
  <2>3. Abstract!Discard(d)
    BY <1>5, <2>1, <2>2 DEF Abstract!Discard
  <2>4. QED BY <2>3 DEF Abstract!JobNext
<1>6. QED BY <1>2, <1>3, <1>4, <1>5

\* finish() is the abstract Settle, or nothing.
LEMMA SettleStep ==
  ASSUME TypeOK, TypeOK', NEW m \in Message, NEW state, NEW outcome \in Settled,
         Settle(m, state, outcome), UNCHANGED phase,
         state = "running" \/ (state = "queued" /\ outcome = "failed")
  PROVE  Abstract!JobNext \/ UNCHANGED AbsVars
<1>1. CASE ~Current(m, state)
  BY <1>1, AbstractStutter DEF Settle, AbsJob, Phase, Exists
<1>2. CASE Current(m, state)
  <2>1. /\ \A e \in Documents : e # m.doc => job'[e] = job[e] /\ author'[e] = author[e]
        /\ job'[m.doc].attempt = job[m.doc].attempt /\ job'[m.doc].state = outcome
        /\ job[m.doc].attempt = m.attempt /\ author'[m.doc] = m.attempt /\ m.doc \in Documents
    BY <1>2, SettleWrites
  <2>2. Phase(m.doc) = state /\ Phase(m.doc)' = outcome
    BY <1>2, <2>1 DEF Phase, Exists, Current, Usable
  <2>3. AbsJob(m.doc)' = <<job[m.doc].attempt, Phase(m.doc)', job[m.doc].attempt>>
    BY <2>1 DEF AbsJob
  <2>4. \A e \in Documents : e # m.doc => AbsJob(e)' = AbsJob(e)
    BY <2>1 DEF AbsJob, Phase, Exists
  <2>5. QED BY <2>1, <2>2, <2>3, <2>4, AbstractStep
<1>3. QED BY <1>1, <1>2

\* Steps that write no row leave the job as it is, as do commits while the job runs.
LEMMA RowStutter ==
  ASSUME TypeOK, TypeOK', UNCHANGED author,
         \A d \in Documents : /\ Exists(d)' <=> Exists(d)
                              /\ job'[d].attempt = job[d].attempt
                              /\ job'[d].state = job[d].state
  PROVE  UNCHANGED AbsVars
BY AbstractStutter DEF AbsJob, Phase

\* Indexing with its messages, retries, late workers, deployments and deletions
\* implements the abstract fenced job.
THEOREM Refinement == Spec => ImplementsFencedJob
<1>1. Init => Abstract!JobInit
  BY DEF Init, Abstract!JobInit, Source!JobInit, NoJob, Phase, Exists
<1>2. IInv /\ TypeOK' /\ [Next]_vars => [Abstract!JobNext]_AbsVars
  <2> SUFFICES ASSUME IInv, TypeOK, TypeOK', [Next]_vars
               PROVE  Abstract!JobNext \/ UNCHANGED AbsVars
    BY DEF IInv
  <2> USE DEF extraction, rows
  <2>0. \A d \in Documents : job[d].state # "gone"
    BY DEF TypeOK, Job, InFlight, Settled
  <2>1. ASSUME UNCHANGED <<phase, job, author>> PROVE UNCHANGED AbsVars
    BY <2>1, RowStutter DEF Exists
  <2>2. ASSUME NEW d \in Documents, Extract(d) PROVE UNCHANGED AbsVars
    <3>1. \A e \in Documents : Exists(e)' <=> Exists(e)
      BY <2>2
         DEF Extract, Source!Issue, Source!Start, Source!Settle, Source!Outcomes, Exists, TypeOK
    <3>2. UNCHANGED <<job, author>>
      BY <2>2 DEF Extract
    <3>3. QED BY <3>1, <3>2, RowStutter
  <2>3. ASSUME NEW d \in Documents, Delete(d) PROVE Abstract!JobNext
    <3>1. [NoJob(config) EXCEPT !.attempt = job[d].attempt].attempt = job[d].attempt
      BY DEF NoJob
    <3>2. /\ job'[d] = [NoJob(config) EXCEPT !.attempt = job[d].attempt]
          /\ phase[d] # "gone" /\ phase'[d] = "gone" /\ author'[d] = 0
          /\ \A e \in Documents : e # d => /\ job'[e] = job[e] /\ author'[e] = author[e]
                                           /\ phase'[e] = phase[e]
      BY <2>3 DEF Delete, Source!Discard, TypeOK
    <3>3. Phase(d) # "gone" /\ AbsJob(d)' = <<job[d].attempt, "gone", 0>>
      BY <2>0, <3>1, <3>2 DEF AbsJob, Phase, Exists
    <3>4. \A e \in Documents : e # d => AbsJob(e)' = AbsJob(e)
      BY <3>2 DEF AbsJob, Phase, Exists
    <3>5. QED BY <3>3, <3>4, AbstractStep
  <2>4. ASSUME NEW d \in Documents, Queue(d) PROVE Abstract!JobNext
    <3>1. /\ phase[d] # "gone" /\ UNCHANGED phase
          /\ job'[d].attempt = job[d].attempt + 1 /\ job'[d].state = "queued" /\ author'[d] = 0
          /\ \A e \in Documents : e # d => job'[e] = job[e] /\ author'[e] = author[e]
      BY <2>4 DEF Queue, Usable, TypeOK
    <3>2. Phase(d) # "gone" /\ AbsJob(d)' = <<job[d].attempt + 1, "queued", 0>>
      BY <2>0, <3>1 DEF AbsJob, Phase, Exists
    <3>3. \A e \in Documents : e # d => AbsJob(e)' = AbsJob(e)
      BY <3>1 DEF AbsJob, Phase, Exists
    <3>4. QED BY <3>2, <3>3, AbstractStep
  <2>5. ASSUME NEW m \in Message, RecordUnsent(m)
        PROVE  Abstract!JobNext \/ UNCHANGED AbsVars
    BY <2>5, SettleStep DEF RecordUnsent, Settled
  <2>6. ASSUME NEW w \in Workers, Finish(w)
        PROVE  Abstract!JobNext \/ UNCHANGED AbsVars
    <3>1. task[w].msg \in Message
      BY <2>6, TaskParts DEF Finish, Busy
    <3>2. Outcome(task[w].msg.doc) \in Settled
      BY DEF Outcome, Settled
    <3>3. QED BY <2>6, <3>1, <3>2, SettleStep DEF Finish
  <2>7. ASSUME NEW w \in Workers, RecordError(w)
        PROVE  Abstract!JobNext \/ UNCHANGED AbsVars
    <3>1. task[w].msg \in Message /\ task[w].error \in Settled
      BY <2>7, TaskParts DEF RecordError, Busy, Settled
    <3>2. CASE task[w].claimed
      BY <2>7, <3>1, <3>2, SettleStep DEF RecordError
    <3>3. CASE ~task[w].claimed
      <4>1. task[w].error = "failed"
        BY <2>7, <3>3 DEF RecordError, IInv, WorkOK, Busy
      <4>2. QED BY <2>7, <3>1, <3>3, <4>1, SettleStep DEF RecordError
    <3>4. QED BY <3>2, <3>3
  <2>8. ASSUME NEW w \in Workers, NEW m \in Message, Claim(w, m) PROVE Abstract!JobNext
    <3>1. /\ m.doc \in Documents /\ UNCHANGED <<phase, author>> /\ Phase(m.doc) = "queued"
          /\ phase[m.doc] # "gone" /\ Heartbeat(m.doc)
      BY <2>8 DEF Claim, Message, Current, Phase, Exists, Usable
    <3>2. /\ job'[m.doc].attempt = job[m.doc].attempt /\ job'[m.doc].state = "running"
          /\ \A e \in Documents : e # m.doc => job'[e] = job[e]
      BY <3>1, HeartbeatWrites
    <3>3. AbsJob(m.doc)' = <<job[m.doc].attempt, "running", author[m.doc]>>
      BY <3>1, <3>2 DEF AbsJob, Phase, Exists
    <3>4. \A e \in Documents : e # m.doc => AbsJob(e)' = AbsJob(e)
      BY <3>1, <3>2 DEF AbsJob, Phase, Exists
    <3>5. QED BY <3>1, <3>3, <3>4, AbstractStep
  <2>9. ASSUME NEW w \in Workers, Prepare(w) \/ TakeBatch(w) \/ SaveEmbeddings(w)
        PROVE  UNCHANGED AbsVars
    <3>1. task[w].msg.doc \in Documents
      BY <2>9, TaskParts DEF Prepare, TakeBatch, SaveEmbeddings, Busy
    <3>2. /\ Heartbeat(task[w].msg.doc) /\ job[task[w].msg.doc].state = "running"
          /\ UNCHANGED <<phase, author>>
      BY <2>9 DEF Prepare, TakeBatch, SaveEmbeddings, Ready, Superseded, Current
    <3>3. \A d \in Documents : job'[d].attempt = job[d].attempt /\ job'[d].state = job[d].state
      BY <3>1, <3>2, HeartbeatWrites
    <3>4. QED BY <3>2, <3>3, RowStutter DEF Exists
  <2>10. CASE Tick
    <3>1. \A d \in Documents : job'[d].attempt = job[d].attempt /\ job'[d].state = job[d].state
      BY <2>10, JobParts DEF Tick, Job
    <3>2. UNCHANGED <<phase, author>>
      BY <2>10 DEF Tick
    <3>3. QED BY <3>1, <3>2, RowStutter DEF Exists
  <2>11. ASSUME NEW d \in Documents, WritePages(d) \/ Scanned(d)
         PROVE  UNCHANGED <<phase, job, author>>
    BY <2>11 DEF WritePages, Scanned
  <2>12. ASSUME NEW m \in Message,
                \/ Publish(m) \/ IgnoreMessage(m) \/ PublishRaises(m) \/ ForgetMessage(m)
                \/ LoseMessage(m)
         PROVE  UNCHANGED <<phase, job, author>>
    BY <2>12 DEF Publish, IgnoreMessage, PublishRaises, ForgetMessage, LoseMessage
  <2>13. ASSUME NEW w \in Workers, NEW m \in Message, ClaimRaises(w, m)
         PROVE  UNCHANGED <<phase, job, author>>
    BY <2>13 DEF ClaimRaises
  <2>14. ASSUME NEW w \in Workers,
                \/ Overtaken(w) \/ Blocked(w) \/ Raise(w) \/ Unconfigured(w)
                \/ WorkerStops(w) \/ Restart(w)
         PROVE  UNCHANGED <<phase, job, author>>
    BY <2>14 DEF Overtaken, Blocked, Raise, Unconfigured, WorkerStops, Restart
  <2>15. CASE Reconfigure \/ UNCHANGED vars
    BY <2>1, <2>15 DEF Reconfigure, vars
  <2>16. QED
    BY <2>1, <2>2, <2>3, <2>4, <2>5, <2>6, <2>7, <2>8, <2>9, <2>10, <2>11, <2>12, <2>13, <2>14,
       <2>15
       DEF Next, Work, Deploy, Fault, Proceed, ClaimRefused
<1>3. QED
  BY <1>1, <1>2, TypeCorrect, Invariance, PTL
     DEF Spec, ImplementsFencedJob, Abstract!JobSpec, Abstract!jobVars, AbsVars

-----------------------------------------------------------------------------
(* The maintenance plan *)

Open(s) == request[s] # Idle

\* The committed rows "rs" with the writes "w" on top.
On(rs, w) ==
  [i \in DOMAIN rs \union {j \in Written(w) : "key" \in DOMAIN w[j]} |->
     IF i \in Written(w) THEN IF i \in DOMAIN rs THEN Over(w[i], rs[i]) ELSE w[i] ELSE rs[i]]

\* The columns of a row fit each other, and what it superseded was drawn before.
ColumnsFit(row, d) ==
  /\ row.active <=> row.status = "active"
  /\ row.status = "validated" => row.prev = None
  /\ row.prev \in 1..d \union {None}

PrevOK(v, d) == "prev" \in DOMAIN v => v.prev \in 1..d \union {None}

\* A transaction writes whole rows that nobody else can see yet, and parts of rows that are
\* committed.
WritesOK(rs, d, w) ==
  \A i \in Written(w) :
    /\ w[i] \in Rule <=> i \notin DOMAIN rs
    /\ w[i] \in Rule => ColumnsFit(w[i], d)
    /\ PrevOK(w[i], d)

\* What it superseded it has replaced by something active about the same thing.
Replaces(rs, w) ==
  \A j \in Written(w) : w[j] = Superseding =>
    \E i \in Written(w) : On(rs, w)[i].key = rs[j].key /\ On(rs, w)[i].active

\* What an activation knows of the rule.  The row may have gone or changed since, but it is
\* about what it was about.
KnownOK(rs, d, r) ==
  /\ r.rule \in 1..d
  /\ r.known \in Rule /\ r.known.status = "validated" /\ ColumnsFit(r.known, d)
  /\ r.rule \in DOMAIN On(rs, r.writes) => On(rs, r.writes)[r.rule].key = r.known.key
  /\ r.rule \in Written(r.writes) => r.writes[r.rule] \in Rule
  /\ r.rule \in Written(r.writes) \/ r.left = <<>>

\* So are those it has found.
PriorsOK(rs, r) ==
  \A i \in Found(r) :
    /\ i \in DOMAIN On(rs, r.writes) => On(rs, r.writes)[i].key = r.known.key
    /\ i \in Written(r.writes) => r.writes[i] \in Rule

Activating(r) == r.phase \in {"find", "supersede"}

\* Only what ends a request leaves a committed row activated.
NoneActivated(r) ==
  \/ r.phase = "store" /\ r.left = <<>>
  \/ \A i \in Written(r.writes) : r.writes[i] \in Rule \union {Superseding}

RequestOK(rs, d, r) ==
  /\ Written(r.writes) \subseteq 1..d /\ Found(r) \subseteq 1..d
  /\ WritesOK(rs, d, r.writes)
  /\ Replaces(rs, r.writes)
  /\ Activating(r) => KnownOK(rs, d, r)
  /\ r.phase = "supersede" => PriorsOK(rs, r)
  /\ NoneActivated(r)

\* No two transactions have written the same row, and none knows of a row another adds.
Apart(rs, r, q) ==
  /\ Written(r.writes) \intersect Written(q.writes) = {}
  /\ \A i \in Written(r.writes) \ DOMAIN rs : i \notin Found(q) /\ (Activating(q) => i # q.rule)

\* One active rule per key, of those that came from manuals.
OneOf(p) ==
  \A i, j \in DOMAIN p :
    (p[i].active /\ p[j].active /\ p[i].key = p[j].key
       /\ p[i].doc # None /\ p[j].doc # None) => i = j

\* A rule is newer than the one it superseded.
Growing(p) ==
  \A i \in DOMAIN p :
    (p[i].prev # None /\ p[i].prev \in DOMAIN p) =>
      /\ p[p[i].prev].version < p[i].version
      /\ p[p[i].prev].key = p[i].key
      /\ p[p[i].prev].status = "superseded"

\* What an activation that is alone has read still stands.
Stands(p, r) ==
  /\ Activating(r) /\ r.rule \in DOMAIN p => p[r.rule] = r.known
  /\ r.phase = "supersede" =>
       /\ \A i \in ActiveMatching(p, r.known.key) : p[i].doc # None => i \in Found(r)
       /\ \A i \in Found(r) : i \in DOMAIN p => p[i].version = r.priors[i]

LoneOK(rs, r) ==
  OneOf(On(rs, r.writes)) /\ Growing(On(rs, r.writes)) /\ Stands(On(rs, r.writes), r)

OneAtATime ==
  ~overlap =>
    /\ \A s, t \in Slots : Open(s) /\ Open(t) => s = t
    /\ OneOf(rules) /\ Growing(rules)
    /\ \A s \in Slots : Open(s) => LoneOK(rules, request[s])

PlanIInv ==
  /\ PlanTypes
  /\ \A i \in DOMAIN rules : ColumnsFit(rules[i], drawn)
  /\ \A s \in Slots : Open(s) => RequestOK(rules, drawn, request[s])
  /\ \A s, t \in Slots : s # t /\ Open(s) /\ Open(t) => Apart(rules, request[s], request[t])
  /\ OneAtATime
-----------------------------------------------------------------------------
(* Rows *)

Columns == {"key", "doc", "active", "status", "version", "prev"}

\* What is written of a row and is not all of it changes nothing of what the row is about.
LEMMA Partial ==
  ASSUME NEW v \in Write
  PROVE  /\ v \in Rule <=> "key" \in DOMAIN v
         /\ v \in Rule => DOMAIN v = Columns
         /\ v \notin Rule => /\ DOMAIN v \subseteq {"active", "status", "version", "prev"}
                             /\ {"active", "status"} \subseteq DOMAIN v
                             /\ \/ v.active = FALSE /\ v.status = "superseded" /\ v = Superseding
                                \/ v.active = TRUE /\ v.status = "active" /\ v # Superseding
                             /\ "version" \in DOMAIN v => v.version \in Nat \ {0}
                             /\ "prev" \in DOMAIN v => v.prev \in Ids
<1>1. CASE v \in Rule
  BY <1>1 DEF Rule, Columns
<1>2. CASE v = Superseding
  BY <1>2 DEF Rule, Superseding
<1>3. CASE v \in [active: {TRUE}, status: {"active"}]
  <2>1. DOMAIN v = {"active", "status"} /\ v.active = TRUE /\ v.status = "active"
    BY <1>3
  <2> QED BY <2>1 DEF Rule, Superseding
<1>4. CASE v \in [active: {TRUE}, status: {"active"}, version: Nat \ {0}]
  <2>1. /\ DOMAIN v = {"active", "status", "version"} /\ v.active = TRUE /\ v.status = "active"
        /\ v.version \in Nat \ {0}
    BY <1>4
  <2> QED BY <2>1 DEF Rule, Superseding
<1>5. CASE v \in [active: {TRUE}, status: {"active"}, version: Nat \ {0}, prev: Ids]
  <2>1. /\ DOMAIN v = {"active", "status", "version", "prev"} /\ v.active = TRUE
        /\ v.status = "active" /\ v.version \in Nat \ {0} /\ v.prev \in Ids
    BY <1>5
  <2> QED BY <2>1 DEF Rule, Superseding
<1> QED BY <1>1, <1>2, <1>3, <1>4, <1>5 DEF Write

\* A row with a part of it written over is a row about the same thing.
LEMMA OverRule ==
  ASSUME NEW v \in Write, v \notin Rule, NEW row \in Rule
  PROVE  /\ Over(v, row) \in Rule
         /\ Over(v, row).key = row.key /\ Over(v, row).doc = row.doc
         /\ Over(v, row).active = v.active /\ Over(v, row).status = v.status
         /\ Over(v, row).version = IF "version" \in DOMAIN v THEN v.version ELSE row.version
         /\ Over(v, row).prev = IF "prev" \in DOMAIN v THEN v.prev ELSE row.prev
<1>1. DOMAIN row = Columns
  BY DEF Rule, Columns
<1>2. Over(v, row) = [c \in Columns |-> IF c \in DOMAIN v THEN v[c] ELSE row[c]]
  BY <1>1, Partial DEF Over, Columns
<1>3. /\ row.key \in Keys /\ row.doc \in Docs \union {None} /\ row.version \in Nat \ {0}
      /\ row.prev \in Ids \union {None}
  BY DEF Rule
<1>4. DEFINE o == Over(v, row)
<1>5. /\ o.key = row.key /\ o.doc = row.doc /\ o.active = v.active /\ o.status = v.status
      /\ o.version = IF "version" \in DOMAIN v THEN v.version ELSE row.version
      /\ o.prev = IF "prev" \in DOMAIN v THEN v.prev ELSE row.prev
  <2> HIDE DEF o
  <2>1. \A c \in Columns : o[c] = IF c \in DOMAIN v THEN v[c] ELSE row[c]
    BY <1>2 DEF o
  <2>2. /\ "key" \notin DOMAIN v /\ "doc" \notin DOMAIN v
        /\ "active" \in DOMAIN v /\ "status" \in DOMAIN v
    BY Partial
  <2> QED BY <2>1, <2>2 DEF Columns
<1>6. o = [key |-> o.key, doc |-> o.doc, active |-> o.active, status |-> o.status,
           version |-> o.version, prev |-> o.prev]
  BY <1>2 DEF Columns
<1>7. /\ o.key \in Keys /\ o.doc \in Docs \union {None} /\ o.active \in BOOLEAN
      /\ o.status \in {"active", "superseded"} /\ o.version \in Nat \ {0}
      /\ o.prev \in Ids \union {None}
  BY <1>3, <1>5, Partial
<1>8. o \in Rule
  <2> HIDE DEF o
  <2> QED BY <1>6, <1>7 DEF Rule
<1> QED BY <1>5, <1>8

-----------------------------------------------------------------------------
(* What a transaction reads *)

Rows(rs) == rs \in [DOMAIN rs -> Rule] /\ DOMAIN rs \subseteq Ids

Writes == [Ids -> Write \union {None}]

\* Its own new rows, the parts it has written over committed rows, and the other rows.
Reads(rs, w) ==
  /\ DOMAIN On(rs, w) = DOMAIN rs \union Written(w)
  /\ \A i \in DOMAIN rs \ Written(w) : On(rs, w)[i] = rs[i]
  /\ \A i \in Written(w) \ DOMAIN rs : On(rs, w)[i] = w[i] /\ w[i] \in Rule
  /\ \A i \in Written(w) \intersect DOMAIN rs :
       /\ On(rs, w)[i] = Over(w[i], rs[i])
       /\ w[i] \in Write /\ w[i] \notin Rule /\ rs[i] \in Rule

\* So reads a transaction.
LEMMA OnIs ==
  ASSUME NEW rs, Rows(rs), NEW d, NEW w \in Writes, WritesOK(rs, d, w)
  PROVE  Reads(rs, w)
<1>1. \A i \in Written(w) : i \in Ids /\ w[i] \in Write
  BY DEF Writes, Written
<1>2. \A i \in Written(w) : w[i] \in Rule <=> i \notin DOMAIN rs
  BY DEF WritesOK
<1>3. {j \in Written(w) : "key" \in DOMAIN w[j]} = Written(w) \ DOMAIN rs
  BY <1>1, <1>2, Partial
<1>4. DOMAIN On(rs, w) = DOMAIN rs \union Written(w)
  BY <1>3 DEF On
<1>5. \A i \in DOMAIN rs \union Written(w) :
        On(rs, w)[i] = IF i \in Written(w) THEN IF i \in DOMAIN rs THEN Over(w[i], rs[i]) ELSE w[i]
                       ELSE rs[i]
  BY <1>3 DEF On
<1> QED BY <1>1, <1>2, <1>4, <1>5 DEF Rows, Reads

\* It reads rows, and their columns fit.
LEMMA OnFits ==
  ASSUME NEW rs, Rows(rs), NEW d \in 0..MaxRules, NEW w \in Writes, WritesOK(rs, d, w),
         \A i \in DOMAIN rs : ColumnsFit(rs[i], d)
  PROVE  \A i \in DOMAIN On(rs, w) : On(rs, w)[i] \in Rule /\ ColumnsFit(On(rs, w)[i], d)
<1> SUFFICES ASSUME NEW i \in DOMAIN On(rs, w)
             PROVE  On(rs, w)[i] \in Rule /\ ColumnsFit(On(rs, w)[i], d)
  OBVIOUS
<1>0. Reads(rs, w)
  BY OnIs
<1>1. CASE i \in DOMAIN rs \ Written(w)
  BY <1>0, <1>1 DEF Rows, Reads
<1>2. CASE i \in Written(w) \ DOMAIN rs
  BY <1>0, <1>2 DEF WritesOK, Reads
<1>3. CASE i \in Written(w) \intersect DOMAIN rs
  <2>1. On(rs, w)[i] = Over(w[i], rs[i]) /\ w[i] \in Write /\ w[i] \notin Rule /\ rs[i] \in Rule
    BY <1>0, <1>3 DEF Reads
  <2>2. PrevOK(w[i], d)
    BY <1>3 DEF WritesOK
  <2>3. ColumnsFit(rs[i], d)
    BY <1>3
  <2>4. PICK v \in Write, row \in Rule : v = w[i] /\ row = rs[i]
    BY <2>1
  <2>5. ColumnsFit(Over(v, row), d) /\ Over(v, row) \in Rule
    <3>1. v \notin Rule /\ PrevOK(v, d) /\ ColumnsFit(row, d)
      BY <2>1, <2>2, <2>3, <2>4
    <3> HIDE <2>4
    <3>2. Over(v, row) \in Rule /\ Over(v, row).active = v.active /\ Over(v, row).status = v.status
          /\ Over(v, row).prev = IF "prev" \in DOMAIN v THEN v.prev ELSE row.prev
      BY <3>1, OverRule
    <3>3. \/ v.active = FALSE /\ v.status = "superseded"
          \/ v.active = TRUE /\ v.status = "active"
      BY <3>1, Partial
    <3>4. PICK o \in Rule : o = Over(v, row)
      BY <3>2
    <3>5. ColumnsFit(o, d)
      BY <3>1, <3>2, <3>3, <3>4 DEF ColumnsFit, PrevOK
    <3> QED BY <3>4, <3>5
  <2> QED BY <2>1, <2>4, <2>5
<1> QED BY <1>0, <1>1, <1>2, <1>3 DEF Reads

-----------------------------------------------------------------------------
(* Committed rows change under a transaction *)

\* What others commit: new rows that this request does not know of, rows it has not written
\* that are about the same thing as before, and rows that are gone.
Meanwhile(rs, qs, r) ==
  /\ \A i \in Written(r.writes) :
       /\ i \in DOMAIN rs <=> i \in DOMAIN qs
       /\ i \in DOMAIN rs => qs[i] = rs[i]
  /\ \A i \in DOMAIN rs \intersect DOMAIN qs : qs[i].key = rs[i].key
  /\ \A i \in DOMAIN qs \ DOMAIN rs : i \notin Found(r) /\ (Activating(r) => i # r.rule)

\* What was drawn before has been drawn.
LEMMA FitsLater ==
  ASSUME NEW d \in Nat, NEW e \in Nat, d <= e, NEW row, ColumnsFit(row, d)
  PROVE  ColumnsFit(row, e)
BY DEF ColumnsFit

LEMMA PrevLater ==
  ASSUME NEW d \in Nat, NEW e \in Nat, d <= e, NEW v, PrevOK(v, d)
  PROVE  PrevOK(v, e)
<1>1. 1..d \subseteq 1..e
  OBVIOUS
<1> QED BY <1>1 DEF PrevOK

LEMMA WritesLater ==
  ASSUME NEW rs, NEW qs, NEW d \in Nat, NEW e \in Nat, d <= e, NEW r,
         WritesOK(rs, d, r.writes), Meanwhile(rs, qs, r)
  PROVE  WritesOK(qs, e, r.writes)
<1> SUFFICES ASSUME NEW i \in Written(r.writes)
             PROVE  /\ r.writes[i] \in Rule <=> i \notin DOMAIN qs
                    /\ r.writes[i] \in Rule => ColumnsFit(r.writes[i], e)
                    /\ PrevOK(r.writes[i], e)
  BY DEF WritesOK
<1>1. /\ r.writes[i] \in Rule <=> i \notin DOMAIN rs
      /\ r.writes[i] \in Rule => ColumnsFit(r.writes[i], d)
      /\ PrevOK(r.writes[i], d)
  BY DEF WritesOK
<1>2. i \in DOMAIN rs <=> i \in DOMAIN qs
  BY DEF Meanwhile
<1> QED BY <1>1, <1>2, FitsLater, PrevLater

\* Its own rows read as before, and the others are about the same thing.
LEMMA ReadsLater ==
  ASSUME NEW rs, Rows(rs), NEW qs, Rows(qs), NEW d \in Nat, NEW e \in Nat, d <= e,
         NEW r \in Request,
         WritesOK(rs, d, r.writes), Meanwhile(rs, qs, r)
  PROVE  /\ \A i \in Written(r.writes) : On(qs, r.writes)[i] = On(rs, r.writes)[i]
         /\ \A i \in DOMAIN On(rs, r.writes) \intersect DOMAIN On(qs, r.writes) :
              On(qs, r.writes)[i].key = On(rs, r.writes)[i].key
         /\ \A i \in DOMAIN On(qs, r.writes) \ DOMAIN On(rs, r.writes) :
              i \notin Found(r) /\ (Activating(r) => i # r.rule)
<1> DEFINE w == r.writes
<1>1. w \in Writes
  BY DEF Request, Writes
<1>2. WritesOK(qs, e, w)
  BY WritesLater
<1>3. Reads(rs, w) /\ Reads(qs, w)
  BY <1>1, <1>2, OnIs
<1>4. \A i \in Written(w) : On(qs, w)[i] = On(rs, w)[i]
  BY <1>3 DEF Reads, Meanwhile
<1>5. \A i \in DOMAIN On(rs, w) \intersect DOMAIN On(qs, w) :
        On(qs, w)[i].key = On(rs, w)[i].key
  BY <1>3, <1>4 DEF Reads, Meanwhile
<1>6. \A i \in DOMAIN On(qs, w) \ DOMAIN On(rs, w) : i \in DOMAIN qs \ DOMAIN rs
  BY <1>3 DEF Reads
<1> QED BY <1>4, <1>5, <1>6 DEF Meanwhile

\* A request that is in order stays so, whatever others commit meanwhile.
LEMMA OthersKeep ==
  ASSUME NEW rs, Rows(rs), NEW qs, Rows(qs), NEW d \in Nat, NEW e \in Nat, d <= e,
         NEW r \in Request,
         RequestOK(rs, d, r), Meanwhile(rs, qs, r)
  PROVE  RequestOK(qs, e, r)
<1> DEFINE w == r.writes
<1>1. Written(w) \subseteq 1..e /\ Found(r) \subseteq 1..e
  <2>1. 1..d \subseteq 1..e
    OBVIOUS
  <2> QED BY <2>1 DEF RequestOK
<1>2. WritesOK(qs, e, w)
  BY WritesLater DEF RequestOK
<1>3. /\ \A i \in Written(w) : On(qs, w)[i] = On(rs, w)[i]
      /\ \A i \in DOMAIN On(rs, w) \intersect DOMAIN On(qs, w) :
           On(qs, w)[i].key = On(rs, w)[i].key
      /\ \A i \in DOMAIN On(qs, w) \ DOMAIN On(rs, w) :
           i \notin Found(r) /\ (Activating(r) => i # r.rule)
  BY ReadsLater DEF RequestOK
<1>4. Replaces(qs, w)
  <2> SUFFICES ASSUME NEW j \in Written(w), w[j] = Superseding
               PROVE  \E i \in Written(w) : On(qs, w)[i].key = qs[j].key /\ On(qs, w)[i].active
    BY DEF Replaces
  <2>1. PICK i \in Written(w) : On(rs, w)[i].key = rs[j].key /\ On(rs, w)[i].active
    BY DEF RequestOK, Replaces
  <2>2. Superseding \notin Rule
    BY DEF Superseding, Rule
  <2>3. qs[j] = rs[j]
    BY <2>2 DEF RequestOK, WritesOK, Meanwhile
  <2> QED BY <1>3, <2>1, <2>3
<1>5. Activating(r) => KnownOK(qs, e, r)
  <2> SUFFICES ASSUME Activating(r) PROVE KnownOK(qs, e, r)
    OBVIOUS
  <2>1. KnownOK(rs, d, r)
    BY DEF RequestOK
  <2>2. r.rule \in DOMAIN On(qs, w) => On(qs, w)[r.rule].key = r.known.key
    BY <1>3, <2>1 DEF KnownOK
  <2>3. r.rule \in 1..e /\ ColumnsFit(r.known, e)
    BY <2>1, FitsLater DEF KnownOK
  <2> QED BY <2>1, <2>2, <2>3 DEF KnownOK
<1>6. r.phase = "supersede" => PriorsOK(qs, r)
  BY <1>3 DEF RequestOK, PriorsOK
<1> QED BY <1>1, <1>2, <1>4, <1>5, <1>6 DEF RequestOK

-----------------------------------------------------------------------------
(* Rows that come, go and supersede each other, one request at a time *)

\* Rows that are gone break none of it.
LEMMA LessRows ==
  ASSUME NEW p, NEW q, DOMAIN q \subseteq DOMAIN p, \A i \in DOMAIN q : q[i] = p[i]
  PROVE  /\ OneOf(p) => OneOf(q)
         /\ Growing(p) => Growing(q)
         /\ \A r : Stands(p, r) => Stands(q, r)
<1>1. OneOf(p) => OneOf(q)
  BY DEF OneOf
<1>2. Growing(p) => Growing(q)
  BY DEF Growing
<1>3. ASSUME NEW r, Stands(p, r) PROVE Stands(q, r)
  <2>1. \A k : ActiveMatching(q, k) \subseteq ActiveMatching(p, k)
    BY DEF ActiveMatching
  <2>2. \A k : \A i \in ActiveMatching(q, k) : q[i] = p[i]
    BY DEF ActiveMatching
  <2> QED BY <1>3, <2>1, <2>2 DEF Stands
<1> QED BY <1>1, <1>2, <1>3

\* A new row takes part in nothing yet, unless it is the owner's.
LEMMA MoreRows ==
  ASSUME NEW d \in Nat, NEW p, NEW q, DOMAIN q = DOMAIN p \union {d + 1},
         DOMAIN p \subseteq 1..d, \A i \in DOMAIN p : q[i] = p[i] /\ ColumnsFit(p[i], d),
         q[d + 1].prev = None, q[d + 1].doc = None \/ ~q[d + 1].active
  PROVE  /\ OneOf(p) => OneOf(q)
         /\ Growing(p) => Growing(q)
         /\ \A r : Stands(p, r) /\ r.rule # d + 1 /\ d + 1 \notin Found(r) => Stands(q, r)
<1>1. d + 1 \notin DOMAIN p
  OBVIOUS
<1>2. OneOf(p) => OneOf(q)
  BY <1>1 DEF OneOf
<1>3. Growing(p) => Growing(q)
  <2> SUFFICES ASSUME Growing(p), NEW i \in DOMAIN q, q[i].prev # None, q[i].prev \in DOMAIN q
               PROVE  /\ q[q[i].prev].version < q[i].version
                      /\ q[q[i].prev].key = q[i].key
                      /\ q[q[i].prev].status = "superseded"
    BY DEF Growing
  <2>1. i \in DOMAIN p /\ q[i] = p[i]
    OBVIOUS
  <2>2. p[i].prev \in 1..d
    BY <2>1 DEF ColumnsFit
  <2>3. p[i].prev \in DOMAIN p
    BY <2>1, <2>2
  <2> QED BY <2>1, <2>3 DEF Growing
<1>4. ASSUME NEW r, Stands(p, r), r.rule # d + 1, d + 1 \notin Found(r) PROVE Stands(q, r)
  <2>1. \A k : \A i \in ActiveMatching(q, k) :
          q[i].doc # None => i \in ActiveMatching(p, k) /\ q[i] = p[i]
    BY DEF ActiveMatching
  <2> QED BY <1>4, <2>1 DEF Stands
<1> QED BY <1>2, <1>3, <1>4

\* "new" is activated as version v and takes the place of "old".
Replaced(p, q, new, old, v, f) ==
  /\ DOMAIN q = DOMAIN p
  /\ \A i \in DOMAIN p \ (old \union {new}) : q[i] = p[i]
  /\ \A i \in old : /\ q[i].key = p[i].key /\ q[i].doc = p[i].doc /\ q[i].prev = p[i].prev
                    /\ q[i].version = p[i].version
                    /\ ~q[i].active /\ q[i].status = "superseded"
  /\ q[new].key = p[new].key /\ q[new].version = v /\ q[new].prev = f

\* It keeps the order of versions and leaves one active rule, if all that is active about the
\* same thing is taken the place of.
LEMMA ReplacedSound ==
  ASSUME NEW p, NEW q, NEW new \in DOMAIN p, NEW old \in SUBSET DOMAIN p, NEW v, NEW f,
         new \notin old, Replaced(p, q, new, old, v, f),
         \A i \in DOMAIN p : p[i].active <=> p[i].status = "active",
         \A i \in old : p[i].key = p[new].key,
         p[new].status = "validated", f # None => f \in old /\ p[f].version < v,
         \A i \in ActiveMatching(p, p[new].key) : p[i].doc # None => i \in old,
         OneOf(p), Growing(p)
  PROVE  OneOf(q) /\ Growing(q)
<1>1. OneOf(q)
  <2> SUFFICES ASSUME NEW i \in DOMAIN q, NEW j \in DOMAIN q, q[i].active, q[j].active,
                      q[i].key = q[j].key, q[i].doc # None, q[j].doc # None
               PROVE  i = j
    BY DEF OneOf
  <2>1. i \in DOMAIN p /\ j \in DOMAIN p /\ i \notin old /\ j \notin old
    BY DEF Replaced
  <2>2. \A k \in DOMAIN p \ (old \union {new}) : 
          ~(q[k].active /\ q[k].key = p[new].key /\ q[k].doc # None)
    BY DEF Replaced, ActiveMatching
  <2>3. CASE i # new /\ j # new
    BY <2>1, <2>3 DEF Replaced, OneOf
  <2>4. CASE i = new \/ j = new
    BY <2>1, <2>2, <2>4 DEF Replaced
  <2> QED BY <2>3, <2>4
<1>2. Growing(q)
  <2> SUFFICES ASSUME NEW i \in DOMAIN q, q[i].prev # None, q[i].prev \in DOMAIN q
               PROVE  /\ q[q[i].prev].version < q[i].version
                      /\ q[q[i].prev].key = q[i].key
                      /\ q[q[i].prev].status = "superseded"
    BY DEF Growing
  <2>1. CASE i = new
    <3>1. q[i].prev = f /\ f \in old /\ p[f].version < v
      BY <2>1 DEF Replaced
    <3> QED BY <2>1, <3>1 DEF Replaced
  <2>2. CASE i # new
    <3>1. i \in DOMAIN p /\ q[i].prev = p[i].prev /\ q[i].key = p[i].key
          /\ q[i].version = p[i].version
      BY <2>2 DEF Replaced
    <3>2. PICK k \in DOMAIN p : k = p[i].prev
      BY <3>1 DEF Replaced
    <3>3. p[k].version < p[i].version /\ p[k].key = p[i].key /\ p[k].status = "superseded"
      BY <3>1, <3>2 DEF Growing
    <3>4. k # new
      BY <3>3
    <3>5. q[k].version = p[k].version /\ q[k].key = p[k].key /\ q[k].status = "superseded"
      BY <3>3, <3>4 DEF Replaced
    <3> QED BY <3>1, <3>2, <3>3, <3>5
  <2> QED BY <2>1, <2>2
<1> QED BY <1>1, <1>2

-----------------------------------------------------------------------------
(* Steps of one request that commit nothing *)

\* The parts of the types.
LEMMA RowsHere ==
  ASSUME PlanTypes
  PROVE  /\ Rows(rules) /\ drawn \in Nat /\ drawn \in 0..MaxRules
         /\ \A s \in Slots : Open(s) => request[s] \in Request
BY Bounds DEF PlanTypes, Rows, Open, Ids

\* A request that is in order stays so when others draw identities.
LEMMA Later ==
  ASSUME NEW rs, Rows(rs), NEW d \in Nat, NEW e \in Nat, d <= e,
         NEW r \in Request,
         RequestOK(rs, d, r)
  PROVE  RequestOK(rs, e, r)
<1>1. Meanwhile(rs, rs, r)
  BY DEF Meanwhile
<1> QED BY <1>1, OthersKeep

\* A step of one request that commits nothing keeps the invariant if the request is in order
\* after it.
LEMMA StepKeeps ==
  ASSUME PlanIInv, NEW s \in Slots, NEW t \in Request \union {Idle},
         request' = [request EXCEPT ![s] = t], rules' = rules,
         drawn' \in 0..MaxRules, drawn <= drawn', overlap' \in BOOLEAN,
         t # Idle => RequestOK(rules, drawn', t),
         t # Idle => \A q \in Slots \ {s} : Open(q) =>
           Apart(rules, t, request[q]) /\ Apart(rules, request[q], t),
         ~overlap' => ~overlap,
         ~overlap' /\ t # Idle => /\ \A q \in Slots \ {s} : ~Open(q)
                                  /\ LoneOK(rules, t)
  PROVE  PlanIInv'
<1>1. PlanTypes' 
  BY Bounds DEF PlanIInv, PlanTypes
<1>2. /\ request'[s] = t
      /\ \A q \in Slots \ {s} : request'[q] = request[q] /\ (Open(q)' <=> Open(q))
      /\ Open(s)' <=> t # Idle
  BY DEF PlanIInv, PlanTypes, Open
<1>3. \A i \in DOMAIN rules : ColumnsFit(rules[i], drawn')
  BY RowsHere, Bounds, FitsLater DEF PlanIInv
<1>4. \A q \in Slots : Open(q)' => RequestOK(rules, drawn', request'[q])
  <2> SUFFICES ASSUME NEW q \in Slots, Open(q)' PROVE RequestOK(rules, drawn', request'[q])
    OBVIOUS
  <2>1. CASE q = s
    BY <1>2, <2>1
  <2>2. CASE q # s
    <3>1. request'[q] = request[q] /\ Open(q)
      BY <1>2, <2>2
    <3>2. RequestOK(rules, drawn, request[q]) /\ request[q] \in Request /\ Rows(rules)
          /\ drawn \in Nat /\ drawn' \in Nat
      BY <3>1, RowsHere DEF PlanIInv
    <3>3. RequestOK(rules, drawn', request[q])
      BY <3>2, Later
    <3> QED BY <3>1, <3>3
  <2> QED BY <2>1, <2>2
<1>5. \A p, q \in Slots : p # q /\ Open(p)' /\ Open(q)' => Apart(rules, request'[p], request'[q])
  BY <1>2 DEF PlanIInv
<1>6. OneAtATime'
  BY <1>2 DEF PlanIInv, OneAtATime
<1> QED BY <1>1, <1>3, <1>4, <1>5, <1>6 DEF PlanIInv

\* A transaction that is rolled back leaves nothing behind.
LEMMA AbortKeeps ==
  ASSUME PlanIInv, NEW s \in Slots, Abort(s)
  PROVE  PlanIInv'
<1>1. drawn' \in 0..MaxRules /\ drawn <= drawn' /\ overlap' \in BOOLEAN
  BY RowsHere DEF PlanIInv, Abort, PlanTypes
<1> QED BY <1>1, StepKeeps DEF Abort

\* The parts of a request that are not looked at by the lemmas about its type.
LEMMA NewIsRequest ==
  ASSUME NEW first \in {"ask", "store", "find"}, NEW doc \in Docs \union {None},
         NEW activate \in BOOLEAN
  PROVE  NewRequest(first, doc, activate) \in Request
<1>1. NoPriors \in [Ids -> Nat] /\ [i \in Ids |-> None] \in [Ids -> Write \union {None}]
  BY DEF NoPriors
<1>2. <<>> \in Seq(Keys)
  OBVIOUS
<1> HIDE DEF NoPriors
<1> QED BY <1>1, <1>2 DEF NewRequest, Request

NoWrites == [i \in Ids |-> None]

\* A request that has written nothing reads the committed rows.
LEMMA OnNothing ==
  ASSUME NEW rs, Rows(rs), NEW d
  PROVE  /\ Written(NoWrites) = {} /\ NoWrites \in Writes /\ WritesOK(rs, d, NoWrites)
         /\ Replaces(rs, NoWrites)
         /\ DOMAIN On(rs, NoWrites) = DOMAIN rs
         /\ \A i \in DOMAIN rs : On(rs, NoWrites)[i] = rs[i]
<1>1. Written(NoWrites) = {} /\ NoWrites \in Writes
  BY DEF Written, NoWrites, Writes
<1>2. WritesOK(rs, d, NoWrites) /\ Replaces(rs, NoWrites)
  BY <1>1 DEF WritesOK, Replaces
<1> HIDE DEF NoWrites
<1>3. Reads(rs, NoWrites)
  BY <1>1, <1>2, OnIs
<1> QED BY <1>1, <1>2, <1>3 DEF Reads

\* A request that has read and written nothing.
Fresh(t) ==
  /\ t \in Request /\ t.writes = NoWrites /\ t.priors = NoPriors /\ t.phase # "supersede"
  /\ Activating(t) => /\ t.rule \in DOMAIN rules /\ t.known = rules[t.rule]
                      /\ t.known.status = "validated" /\ t.left = <<>>

\* It is in order.
LEMMA FreshOK ==
  ASSUME PlanIInv, NEW t, Fresh(t)
  PROVE  /\ RequestOK(rules, drawn, t)
         /\ \A q \in Slots : Open(q) => Apart(rules, t, request[q]) /\ Apart(rules, request[q], t)
         /\ ~overlap => LoneOK(rules, t)
<1>1. Rows(rules) /\ drawn \in Nat /\ DOMAIN rules \subseteq 1..drawn
  BY RowsHere DEF PlanIInv, PlanTypes
<1>2. /\ Written(t.writes) = {} /\ WritesOK(rules, drawn, t.writes)
      /\ Replaces(rules, t.writes)
      /\ DOMAIN On(rules, t.writes) = DOMAIN rules
      /\ \A i \in DOMAIN rules : On(rules, t.writes)[i] = rules[i]
  BY <1>1, OnNothing DEF Fresh
<1>3. Found(t) = {}
  BY DEF Fresh, Found, NoPriors
<1>4. Activating(t) => KnownOK(rules, drawn, t)
  BY <1>1, <1>2 DEF Fresh, KnownOK, PlanIInv, Rows
<1>5. RequestOK(rules, drawn, t)
  BY <1>2, <1>3, <1>4 DEF RequestOK, NoneActivated, Fresh
<1>6. ASSUME NEW q \in Slots, Open(q)
      PROVE  Apart(rules, t, request[q]) /\ Apart(rules, request[q], t)
  BY <1>2, <1>3 DEF Apart, Fresh
<1>7. ASSUME ~overlap PROVE LoneOK(rules, t)
  <2>1. OneOf(On(rules, t.writes)) /\ Growing(On(rules, t.writes))
    BY <1>2, <1>7, LessRows DEF PlanIInv, OneAtATime
  <2>2. Stands(On(rules, t.writes), t)
    BY <1>2 DEF Stands, Fresh, Activating
  <2> QED BY <2>1, <2>2 DEF LoneOK
<1> QED BY <1>5, <1>6, <1>7

\* Requests that begin.
LEMMA BeginKeeps ==
  ASSUME PlanIInv, NEW s \in Slots, NEW t, Fresh(t), request[s] = Idle, NoteOverlap,
         request' = [request EXCEPT ![s] = t], UNCHANGED <<rules, drawn>>
  PROVE  PlanIInv'
<1>1. drawn' \in 0..MaxRules /\ drawn <= drawn' /\ overlap' \in BOOLEAN /\ drawn' = drawn
  BY RowsHere DEF PlanIInv, PlanTypes, NoteOverlap
<1>2. ~overlap' => ~overlap /\ \A q \in Slots : ~Open(q)
  BY DEF NoteOverlap, Open
<1>3. t \in Request
  BY DEF Fresh
<1> QED BY <1>1, <1>2, <1>3, FreshOK, StepKeeps

LEMMA BeginExtractKeeps ==
  ASSUME PlanIInv, NEW s \in Slots, NEW doc \in Docs, NEW force, BeginExtract(s, doc, force)
  PROVE  PlanIInv'
<1>1. Fresh(NewRequest("ask", doc, TRUE))
  BY NewIsRequest DEF Fresh, NewRequest, NoWrites, Activating
<1> QED BY <1>1, BeginKeeps DEF BeginExtract

LEMMA BeginAcceptKeeps ==
  ASSUME PlanIInv, NEW s \in Slots, NEW doc \in Sources, NEW activate \in BOOLEAN,
         NEW proposals \in Proposals, BeginAccept(s, doc, activate, proposals)
  PROVE  PlanIInv'
<1> DEFINE n == NewRequest("store", doc, activate)
           t == [n EXCEPT !.left = proposals]
<1>1. n \in Request
  BY NewIsRequest, NoDocument
<1>2. proposals \in Seq(Keys)
  BY DEF Proposals
<1>3. /\ n.phase = "store" /\ n.writes = NoWrites /\ n.priors = NoPriors
  BY DEF NewRequest, NoWrites
<1>4. Fresh(t)
  <2> HIDE DEF n
  <2> QED BY <1>1, <1>2, <1>3 DEF Fresh, Request, Activating
<1> QED BY <1>4, BeginKeeps DEF BeginAccept

LEMMA AnswerKeeps ==
  ASSUME PlanIInv, NEW s \in Slots, NEW proposals \in Proposals, Answer(s, proposals)
  PROVE  PlanIInv'
<1> DEFINE r == request[s]
           t == [r EXCEPT !.phase = "store", !.left = proposals]
<1>1. r \in Request /\ Open(s) /\ r.phase = "ask"
  BY RowsHere DEF PlanIInv, Answer, Running, Open
<1>2. proposals \in Seq(Keys)
  BY DEF Proposals
<1>3. t \in Request /\ t.writes = r.writes /\ Found(t) = Found(r) /\ t.phase = "store"
  BY <1>1, <1>2 DEF Request, Found
<1>4. RequestOK(rules, drawn, t)
  <2>1. RequestOK(rules, drawn, r)
    BY <1>1 DEF PlanIInv
  <2> HIDE DEF t
  <2> QED BY <1>1, <1>3, <2>1 DEF RequestOK, NoneActivated, Activating
<1>5. \A q \in Slots \ {s} : Open(q) => Apart(rules, t, request[q]) /\ Apart(rules, request[q], t)
  <2>1. \A q \in Slots \ {s} : Open(q) => Apart(rules, r, request[q]) /\ Apart(rules, request[q], r)
    BY <1>1 DEF PlanIInv
  <2> HIDE DEF t
  <2> QED BY <1>1, <1>3, <2>1 DEF Apart, Activating
<1>6. ~overlap => LoneOK(rules, t) /\ \A q \in Slots \ {s} : ~Open(q)
  <2>1. ~overlap => LoneOK(rules, r) /\ \A q \in Slots \ {s} : ~Open(q)
    BY <1>1 DEF PlanIInv, OneAtATime
  <2> HIDE DEF t
  <2> QED BY <1>1, <1>3, <2>1 DEF LoneOK, Stands, Activating
<1>7. request' = [request EXCEPT ![s] = t] /\ UNCHANGED <<rules, drawn, overlap>>
  BY DEF Answer, PlanIInv, PlanTypes
<1>8. drawn' \in 0..MaxRules /\ drawn <= drawn' /\ overlap' \in BOOLEAN
  BY <1>7, RowsHere DEF PlanIInv, PlanTypes
<1> HIDE DEF t
<1> QED BY <1>3, <1>4, <1>5, <1>6, <1>7, <1>8, StepKeeps

-----------------------------------------------------------------------------
(* What is active about the same thing is looked up *)

\* A transaction that knows the rule it activates.
MayFind(d, r) ==
  /\ r \in Request
  /\ Written(r.writes) \subseteq 1..d
  /\ WritesOK(rules, d, r.writes) /\ Replaces(rules, r.writes) /\ KnownOK(rules, d, r)
  /\ \A i \in Written(r.writes) : r.writes[i] \in Rule \union {Superseding}

\* What it finds are the active rules about the same thing among those it reads.
LEMMA FindsPriors ==
  ASSUME Rows(rules), NEW d \in 0..MaxRules, \A i \in DOMAIN rules : ColumnsFit(rules[i], d),
         DOMAIN rules \subseteq 1..d, NEW r, MayFind(d, r)
  PROVE  /\ WithPriors(r) \in Request /\ WithPriors(r).phase = "supersede"
         /\ WithPriors(r).writes = r.writes /\ WithPriors(r).left = r.left
         /\ WithPriors(r).known = r.known /\ WithPriors(r).rule = r.rule
         /\ Found(WithPriors(r)) = ActiveMatching(On(rules, r.writes), r.known.key)
         /\ \A i \in Found(WithPriors(r)) :
              WithPriors(r).priors[i] = On(rules, r.writes)[i].version
<1> DEFINE w == r.writes
           view == On(rules, w)
           priors == ActiveMatching(view, r.known.key)
           t == WithPriors(r)
<1>1. r \in Request /\ w \in Writes
  BY DEF MayFind, Request, Writes
<1>2. \A i \in DOMAIN view : view[i] \in Rule /\ i \in Ids
  <2>1. \A i \in DOMAIN view : view[i] \in Rule
    BY <1>1, OnFits DEF MayFind
  <2>2. Reads(rules, w)
    BY <1>1, OnIs DEF MayFind
  <2> QED BY <2>1, <2>2 DEF Reads, Rows, Written
<1>3. View(w) = view
  BY DEF View, On
<1>4. \A i \in priors : i \in Ids /\ view[i].version \in Nat \ {0}
  BY <1>2 DEF ActiveMatching, Rule
<1> DEFINE found == [i \in Ids |-> IF i \in priors THEN view[i].version ELSE 0]
<1>5. t = [r EXCEPT !.phase = "supersede", !.priors = found]
  BY <1>3 DEF WithPriors, Priors
<1>6. found \in [Ids -> Nat] /\ (\A i \in Ids : found[i] # 0 <=> i \in priors)
      /\ \A i \in priors : found[i] = view[i].version
  BY <1>4
<1> HIDE DEF found, t, priors, view
<1>7. t \in Request /\ t.phase = "supersede" /\ t.priors = found /\ t.writes = w
      /\ t.left = r.left /\ t.known = r.known /\ t.rule = r.rule
  BY <1>1, <1>5, <1>6 DEF Request
<1>8. Found(t) = priors
  BY <1>4, <1>6, <1>7 DEF Found
<1> QED BY <1>6, <1>7, <1>8 DEF t, priors, view

\* Looking them up leaves it in order.
LEMMA FindingKeeps ==
  ASSUME Rows(rules), NEW d \in 0..MaxRules, \A i \in DOMAIN rules : ColumnsFit(rules[i], d),
         DOMAIN rules \subseteq 1..d, NEW r, MayFind(d, r)
  PROVE  /\ RequestOK(rules, d, WithPriors(r))
         /\ \A q \in Request :
              Apart(rules, r, q) /\ Apart(rules, q, r)
                /\ r.rule \notin Written(q.writes) \ DOMAIN rules =>
                Apart(rules, WithPriors(r), q) /\ Apart(rules, q, WithPriors(r))
         /\ OneOf(On(rules, r.writes)) /\ Growing(On(rules, r.writes))
              /\ (r.rule \in DOMAIN On(rules, r.writes) => On(rules, r.writes)[r.rule] = r.known)
              => LoneOK(rules, WithPriors(r))
<1> DEFINE w == r.writes
           view == On(rules, w)
           priors == ActiveMatching(view, r.known.key)
<1>1. PICK t \in Request : t = WithPriors(r)
  BY FindsPriors
<1>2. /\ t.phase = "supersede" /\ t.writes = w /\ t.left = r.left /\ t.known = r.known
      /\ t.rule = r.rule /\ Found(t) = priors /\ \A i \in priors : t.priors[i] = view[i].version
  BY <1>1, FindsPriors
<1>3. Reads(rules, w) /\ w \in Writes
  BY OnIs DEF MayFind, Request, Writes
<1>4. Found(t) \subseteq DOMAIN view /\ DOMAIN view = DOMAIN rules \union Written(w)
  BY <1>2, <1>3 DEF Reads, ActiveMatching
<1>5. PriorsOK(rules, t)
  <2> SUFFICES ASSUME NEW i \in Found(t)
               PROVE  view[i].key = t.known.key /\ (i \in Written(w) => w[i] \in Rule)
    BY <1>2 DEF PriorsOK
  <2>1. view[i].key = t.known.key /\ view[i].active
    BY <1>2 DEF ActiveMatching
  <2>2. CASE i \in Written(w) /\ w[i] \notin Rule
    <3>1. w[i] = Superseding /\ i \in DOMAIN rules
      BY <2>2 DEF MayFind, WritesOK
    <3>2. view[i] = Over(w[i], rules[i]) /\ w[i] \in Write /\ rules[i] \in Rule
      BY <1>3, <2>2, <3>1 DEF Reads
    <3>3. Over(w[i], rules[i]).active = w[i].active
      BY <2>2, <3>2, OverRule
    <3>4. Superseding.active = FALSE
      BY DEF Superseding
    <3>5. view[i].active = Superseding.active
      BY <3>1, <3>2, <3>3, Zenon
    <3> QED BY <2>1, <3>4, <3>5
  <2> QED BY <2>1, <2>2
<1>6. KnownOK(rules, d, t)
  BY <1>2 DEF MayFind, KnownOK
<1>7. RequestOK(rules, d, t)
  <2>1. 1..d \subseteq Nat /\ Found(t) \subseteq 1..d
    BY <1>4 DEF MayFind
  <2> QED BY <1>2, <1>5, <1>6, <2>1 DEF RequestOK, MayFind, NoneActivated
<1>8. ASSUME NEW q \in Request, Apart(rules, r, q), Apart(rules, q, r),
             r.rule \notin Written(q.writes) \ DOMAIN rules
      PROVE  Apart(rules, t, q) /\ Apart(rules, q, t)
  BY <1>2, <1>4, <1>8 DEF Apart
<1>9. ASSUME OneOf(view), Growing(view), r.rule \in DOMAIN view => view[r.rule] = r.known
      PROVE  LoneOK(rules, t)
  BY <1>2, <1>9 DEF LoneOK, Stands
<1> QED BY <1>1, <1>7, <1>8, <1>9

LEMMA FindPriorsKeeps ==
  ASSUME PlanIInv, NEW s \in Slots, FindPriors(s)
  PROVE  PlanIInv'
<1> DEFINE r == request[s]
<1>1. r \in Request /\ Open(s) /\ r.phase = "find" /\ Activating(r)
  BY RowsHere DEF PlanIInv, FindPriors, Running, Open, Activating
<1>2. Rows(rules) /\ drawn \in 0..MaxRules /\ DOMAIN rules \subseteq 1..drawn
  BY RowsHere DEF PlanIInv, PlanTypes
<1>3. MayFind(drawn, r)
  <2>1. RequestOK(rules, drawn, r)
    BY <1>1 DEF PlanIInv
  <2> QED BY <1>1, <2>1 DEF RequestOK, NoneActivated, MayFind
<1>4. PICK t \in Request : t = WithPriors(r)
  BY <1>2, <1>3, FindsPriors DEF PlanIInv
<1>5. RequestOK(rules, drawn, t)
  BY <1>2, <1>3, <1>4, FindingKeeps DEF PlanIInv
<1>6. \A q \in Slots \ {s} : Open(q) => Apart(rules, t, request[q]) /\ Apart(rules, request[q], t)
  <2> SUFFICES ASSUME NEW q \in Slots \ {s}, Open(q)
               PROVE  Apart(rules, t, request[q]) /\ Apart(rules, request[q], t)
    OBVIOUS
  <2>1. Apart(rules, r, request[q]) /\ Apart(rules, request[q], r) /\ request[q] \in Request
    BY <1>1, RowsHere DEF PlanIInv
  <2>2. r.rule \notin Written(request[q].writes) \ DOMAIN rules
    BY <1>1, <2>1 DEF Apart
  <2> QED BY <1>2, <1>3, <1>4, <2>1, <2>2, FindingKeeps DEF PlanIInv
<1>7. ~overlap => LoneOK(rules, t) /\ \A q \in Slots \ {s} : ~Open(q)
  <2>1. ~overlap => LoneOK(rules, r) /\ \A q \in Slots \ {s} : ~Open(q)
    BY <1>1 DEF PlanIInv, OneAtATime
  <2> SUFFICES ASSUME ~overlap PROVE LoneOK(rules, t)
    BY <2>1
  <2>2. /\ OneOf(On(rules, r.writes)) /\ Growing(On(rules, r.writes))
        /\ r.rule \in DOMAIN On(rules, r.writes) => On(rules, r.writes)[r.rule] = r.known
    BY <1>1, <2>1 DEF LoneOK, Stands
  <2> QED BY <1>2, <1>3, <1>4, <2>2, FindingKeeps DEF PlanIInv
<1>8. request' = [request EXCEPT ![s] = t] /\ UNCHANGED <<rules, drawn, overlap>>
  BY <1>4 DEF FindPriors
<1>9. drawn' \in 0..MaxRules /\ drawn <= drawn' /\ overlap' \in BOOLEAN
  BY <1>8, RowsHere DEF PlanIInv, PlanTypes
<1> QED BY <1>5, <1>6, <1>7, <1>8, <1>9, StepKeeps

LEMMA BeginActivateKeeps ==
  ASSUME PlanIInv, NEW s \in Slots, NEW i \in DOMAIN rules, BeginActivate(s, i)
  PROVE  PlanIInv'
<1> DEFINE n == NewRequest("find", None, TRUE)
           read == [n EXCEPT !.rule = i, !.known = rules[i]]
<1>1. n \in Request /\ n.phase = "find" /\ n.left = <<>> /\ n.writes = NoWrites
      /\ n.priors = NoPriors
  BY NewIsRequest DEF NewRequest, NoWrites
<1>2. Rows(rules) /\ drawn \in 0..MaxRules /\ DOMAIN rules \subseteq 1..drawn /\ drawn \in Nat
  BY RowsHere DEF PlanIInv, PlanTypes
<1>3. rules[i] \in Rule /\ i \in Ids /\ rules[i].status = "validated"
  BY <1>2 DEF Rows, PlanIInv, ColumnsFit, BeginActivate
<1>4. read \in Request /\ read.rule = i /\ read.known = rules[i] /\ read.phase = "find"
      /\ read.left = <<>> /\ read.writes = NoWrites /\ read.priors = NoPriors
  <2> HIDE DEF n
  <2> QED BY <1>1, <1>3 DEF Request
<1>5. request' = [request EXCEPT ![s] = IF i \in LockedBy(Slots) THEN read ELSE WithPriors(read)]
  BY DEF BeginActivate
<1> HIDE DEF read
<1>6. Fresh(read)
  BY <1>3, <1>4 DEF Fresh
<1>7. CASE i \in LockedBy(Slots)
  BY <1>5, <1>6, <1>7, BeginKeeps DEF BeginActivate
<1>8. CASE i \notin LockedBy(Slots)
  <2>1. /\ RequestOK(rules, drawn, read)
        /\ \A q \in Slots : Open(q) =>
             Apart(rules, read, request[q]) /\ Apart(rules, request[q], read)
        /\ ~overlap => LoneOK(rules, read)
    BY <1>6, FreshOK
  <2>2. Activating(read)
    BY <1>4 DEF Activating
  <2>3. MayFind(drawn, read)
    BY <1>4, <2>1, <2>2 DEF MayFind, RequestOK, NoneActivated
  <2>4. PICK t \in Request : t = WithPriors(read)
    BY <1>2, <2>3, FindsPriors DEF PlanIInv
  <2>5. RequestOK(rules, drawn, t)
    BY <1>2, <2>3, <2>4, FindingKeeps DEF PlanIInv
  <2>6. \A q \in Slots : Open(q) => Apart(rules, t, request[q]) /\ Apart(rules, request[q], t)
    <3> SUFFICES ASSUME NEW q \in Slots, Open(q)
                 PROVE  Apart(rules, t, request[q]) /\ Apart(rules, request[q], t)
      OBVIOUS
    <3>1. request[q] \in Request
      BY RowsHere DEF PlanIInv
    <3> QED BY <1>2, <1>4, <2>1, <2>3, <2>4, <3>1, FindingKeeps DEF PlanIInv
  <2>7. ~overlap => LoneOK(rules, t)
    <3> SUFFICES ASSUME ~overlap PROVE LoneOK(rules, t)
      OBVIOUS
    <3>1. /\ OneOf(On(rules, read.writes)) /\ Growing(On(rules, read.writes))
          /\ read.rule \in DOMAIN On(rules, read.writes) =>
               On(rules, read.writes)[read.rule] = read.known
      BY <2>1, <2>2 DEF LoneOK, Stands
    <3> QED BY <1>2, <2>3, <2>4, <3>1, FindingKeeps DEF PlanIInv
  <2>8. ~overlap' => ~overlap /\ \A q \in Slots : ~Open(q)
    BY DEF BeginActivate, NoteOverlap, Open
  <2>9. request' = [request EXCEPT ![s] = t] /\ UNCHANGED <<rules, drawn>>
    BY <1>5, <1>8, <2>4 DEF BeginActivate
  <2>10. drawn' \in 0..MaxRules /\ drawn <= drawn' /\ overlap' \in BOOLEAN
    BY <1>2, <2>9 DEF PlanIInv, PlanTypes, BeginActivate, NoteOverlap
  <2> QED BY <2>5, <2>6, <2>7, <2>8, <2>9, <2>10, StepKeeps
<1> QED BY <1>7, <1>8

-----------------------------------------------------------------------------
(* Steps that change committed rows *)

\* A step that changes committed rows keeps the invariant if it does no more to the other
\* requests than Meanwhile says.
LEMMA RulesChange ==
  ASSUME PlanIInv, NEW qs, Rows(qs), rules' = qs, drawn' \in 0..MaxRules, drawn <= drawn',
         DOMAIN qs \subseteq 1..drawn', \A i \in DOMAIN qs : ColumnsFit(qs[i], drawn'),
         request' \in [Slots -> Request \union {Idle}], overlap' = overlap,
         \A q \in Slots : Open(q)' =>
           request'[q] = request[q] /\ Open(q) /\ Meanwhile(rules, qs, request[q]),
         ~overlap => /\ OneOf(qs) /\ Growing(qs)
                     /\ \A q \in Slots : Open(q)' => LoneOK(qs, request[q])
  PROVE  PlanIInv'
<1>1. PlanTypes'
  BY DEF PlanIInv, PlanTypes, Rows
<1>2. \A q \in Slots : Open(q)' => RequestOK(qs, drawn', request'[q])
  <2> SUFFICES ASSUME NEW q \in Slots, Open(q)' PROVE RequestOK(qs, drawn', request'[q])
    OBVIOUS
  <2>1. /\ request'[q] = request[q] /\ Meanwhile(rules, qs, request[q])
        /\ RequestOK(rules, drawn, request[q]) /\ request[q] \in Request /\ Rows(rules)
        /\ drawn \in Nat /\ drawn' \in Nat
    BY RowsHere DEF PlanIInv
  <2>2. RequestOK(qs, drawn', request[q])
    BY <2>1, OthersKeep
  <2> QED BY <2>1, <2>2
<1>3. \A p, q \in Slots : p # q /\ Open(p)' /\ Open(q)' => Apart(qs, request'[p], request'[q])
  <2> SUFFICES ASSUME NEW p \in Slots, NEW q \in Slots, p # q, Open(p)', Open(q)'
               PROVE  Apart(qs, request[p], request[q])
    OBVIOUS
  <2>1. Apart(rules, request[p], request[q]) /\ Meanwhile(rules, qs, request[p])
    BY DEF PlanIInv
  <2> QED BY <2>1 DEF Apart, Meanwhile
<1>4. OneAtATime'
  BY DEF PlanIInv, OneAtATime
<1> QED BY <1>1, <1>2, <1>3, <1>4 DEF PlanIInv

\* A request reads its own rows as before, and the rows that come and go beside them.
ReadsBoth(rs, qs, w) ==
  /\ DOMAIN On(rs, w) = DOMAIN rs \union Written(w)
  /\ DOMAIN On(qs, w) = DOMAIN qs \union Written(w)
  /\ \A i \in Written(w) : On(qs, w)[i] = On(rs, w)[i]
  /\ \A i \in DOMAIN rs \ Written(w) : On(rs, w)[i] = rs[i]
  /\ \A i \in DOMAIN qs \ Written(w) : On(qs, w)[i] = qs[i]

\* What others commit is all the difference that a request reads.
LEMMA LoneReads ==
  ASSUME NEW rs, Rows(rs), NEW qs, Rows(qs), NEW d \in Nat, NEW e \in Nat, d <= e,
         NEW r \in Request,
         RequestOK(rs, d, r), Meanwhile(rs, qs, r)
  PROVE  ReadsBoth(rs, qs, r.writes)
<1>1. r.writes \in Writes
  BY DEF Request, Writes
<1>2. WritesOK(rs, d, r.writes) /\ WritesOK(qs, e, r.writes)
  BY WritesLater DEF RequestOK
<1>3. Reads(rs, r.writes) /\ Reads(qs, r.writes)
  BY <1>1, <1>2, OnIs
<1>4. \A i \in Written(r.writes) : On(qs, r.writes)[i] = On(rs, r.writes)[i]
  BY <1>2, ReadsLater
<1> QED BY <1>3, <1>4 DEF Reads, ReadsBoth

\* The columns of a proposal that was stored.
LEMMA NewIsRule ==
  ASSUME NEW key \in Keys, NEW doc \in Docs \union {None}
  PROVE  /\ NewRule(key, doc) \in Rule
         /\ NewRule(key, doc).key = key /\ NewRule(key, doc).doc = doc
         /\ NewRule(key, doc).active = FALSE /\ NewRule(key, doc).status = "validated"
         /\ NewRule(key, doc).version = 1 /\ NewRule(key, doc).prev = None
<1>1. 1 \in Nat \ {0}
  OBVIOUS
<1> QED BY <1>1 DEF NewRule, Rule

\* The owner's own rule is beside all others.
LEMMA CreateRuleKeeps ==
  ASSUME PlanIInv, NEW key \in Keys, CreateRule(key)
  PROVE  PlanIInv'
<1> DEFINE new == [NewRule(key, None) EXCEPT !.active = TRUE, !.status = "active"]
           d == drawn
<1>1. Rows(rules) /\ d \in Nat /\ d + 1 \in 0..MaxRules /\ DOMAIN rules \subseteq 1..d
      /\ d + 1 \in Ids
  BY RowsHere, Bounds DEF PlanIInv, PlanTypes, CreateRule, Ids
<1>2. new \in Rule /\ ColumnsFit(new, d + 1) /\ new.prev = None /\ new.doc = None
  <2>1. PICK row \in Rule : row = NewRule(key, None)
    BY NewIsRule
  <2>2. row.prev = None /\ row.doc = None
    BY <2>1 DEF NewRule
  <2>3. new = [row EXCEPT !.active = TRUE, !.status = "active"]
    BY <2>1
  <2> HIDE DEF new
  <2>4. /\ new \in Rule /\ new.active = TRUE /\ new.status = "active"
        /\ new.prev = None /\ new.doc = None
    BY <2>2, <2>3 DEF Rule
  <2> QED BY <2>4 DEF ColumnsFit
<1> HIDE DEF new
<1>3. PICK qs : qs = rules'
  OBVIOUS
<1>4. /\ DOMAIN qs = DOMAIN rules \union {d + 1} /\ qs[d + 1] = new
      /\ \A i \in DOMAIN rules : qs[i] = rules[i]
      /\ qs = [i \in DOMAIN qs |-> qs[i]]
  BY <1>1, <1>3 DEF CreateRule, new
<1> HIDE <1>3
<1>5. Rows(qs)
  BY <1>1, <1>2, <1>4 DEF Rows
<1>6. \A i \in DOMAIN rules : ColumnsFit(rules[i], d) /\ ColumnsFit(rules[i], d + 1)
  BY <1>1, FitsLater DEF PlanIInv
<1>7. \A q \in Slots : Open(q) => Meanwhile(rules, qs, request[q])
  <2> SUFFICES ASSUME NEW q \in Slots, Open(q) PROVE Meanwhile(rules, qs, request[q])
    OBVIOUS
  <2>1. RequestOK(rules, d, request[q])
    BY DEF PlanIInv
  <2>2. Written(request[q].writes) \subseteq 1..d /\ Found(request[q]) \subseteq 1..d
        /\ (Activating(request[q]) => request[q].rule \in 1..d)
    BY <2>1 DEF RequestOK, KnownOK
  <2> QED BY <1>1, <1>4, <2>2 DEF Meanwhile
<1>8. ASSUME ~overlap
      PROVE  /\ OneOf(qs) /\ Growing(qs)
             /\ \A q \in Slots : Open(q) => LoneOK(qs, request[q])
  <2>1. OneOf(qs) /\ Growing(qs)
    BY <1>1, <1>2, <1>4, <1>6, <1>8, MoreRows DEF PlanIInv, OneAtATime
  <2> SUFFICES ASSUME NEW q \in Slots, Open(q) PROVE LoneOK(qs, request[q])
    BY <2>1
  <2>2. PICK r \in Request : r = request[q]
    BY RowsHere DEF PlanIInv
  <2>3. RequestOK(rules, d, r) /\ Meanwhile(rules, qs, r) /\ LoneOK(rules, r)
    BY <1>7, <1>8, <2>2 DEF PlanIInv, OneAtATime
  <2> DEFINE p == On(rules, r.writes)
             o == On(qs, r.writes)
  <2>4. Written(r.writes) \subseteq 1..d /\ Found(r) \subseteq 1..d
        /\ (Activating(r) => r.rule \in 1..d)
    BY <2>3 DEF RequestOK, KnownOK
  <2>5. /\ DOMAIN p = DOMAIN rules \union Written(r.writes)
        /\ DOMAIN o = DOMAIN qs \union Written(r.writes)
        /\ \A i \in Written(r.writes) : o[i] = p[i]
        /\ \A i \in DOMAIN rules \ Written(r.writes) : p[i] = rules[i]
        /\ \A i \in DOMAIN qs \ Written(r.writes) : o[i] = qs[i]
    <3>1. d + 1 \in Nat /\ d <= d + 1
      BY <1>1
    <3>2. ReadsBoth(rules, qs, r.writes)
      BY <1>1, <1>5, <2>3, <3>1, LoneReads
    <3> QED BY <3>2 DEF ReadsBoth
  <2>6. \A i \in DOMAIN p : ColumnsFit(p[i], d)
    <3>1. r.writes \in Writes
      BY DEF Request, Writes
    <3>2. WritesOK(rules, d, r.writes)
      BY <2>3 DEF RequestOK
    <3>3. d \in 0..MaxRules
      BY RowsHere DEF PlanIInv
    <3> QED BY <1>1, <1>6, <3>1, <3>2, <3>3, OnFits
  <2> HIDE DEF p, o
  <2>7. /\ DOMAIN o = DOMAIN p \union {d + 1} /\ DOMAIN p \subseteq 1..d
        /\ \A i \in DOMAIN p : o[i] = p[i]
        /\ o[d + 1] = new
    BY <1>1, <1>4, <2>4, <2>5
  <2>8. OneOf(p) /\ Growing(p) /\ Stands(p, r)
    BY <2>3 DEF LoneOK, p
  <2>9. OneOf(o) /\ Growing(o)
    BY <1>1, <1>2, <2>6, <2>7, <2>8, MoreRows
  <2>10. Stands(o, r)
    <3>1. CASE Activating(r)
      <4>1. r.rule # d + 1 /\ d + 1 \notin Found(r)
        BY <1>1, <2>4, <3>1
      <4> QED BY <1>1, <1>2, <2>6, <2>7, <2>8, <4>1, MoreRows
    <3>2. CASE ~Activating(r)
      BY <3>2 DEF Stands, Activating
    <3> QED BY <3>1, <3>2
  <2> QED BY <2>2, <2>9, <2>10 DEF LoneOK, o
<1>9. /\ rules' = qs /\ drawn' = d + 1 /\ request' = request /\ overlap' = overlap
      /\ \A q \in Slots : Open(q)' <=> Open(q)
  BY <1>3 DEF CreateRule, Open
<1>10. \A i \in DOMAIN qs : ColumnsFit(qs[i], d + 1)
  BY <1>2, <1>4, <1>6
<1>11. DOMAIN qs \subseteq 1..(d + 1) /\ request' \in [Slots -> Request \union {Idle}]
  BY <1>1, <1>4, <1>9 DEF PlanIInv, PlanTypes
<1> QED BY <1>1, <1>5, <1>7, <1>8, <1>9, <1>10, <1>11, RulesChange

\* No open transaction has written the rule that is deleted.
LEMMA DeleteRuleKeeps ==
  ASSUME PlanIInv, NEW k \in DOMAIN rules, DeleteRule(k)
  PROVE  PlanIInv'
<1>1. Rows(rules) /\ drawn \in Nat /\ drawn \in 0..MaxRules /\ DOMAIN rules \subseteq 1..drawn
  BY RowsHere DEF PlanIInv, PlanTypes
<1>2. PICK qs : qs = rules'
  OBVIOUS
<1>3. /\ DOMAIN qs = DOMAIN rules \ {k} /\ \A i \in DOMAIN qs : qs[i] = rules[i]
      /\ qs = [i \in DOMAIN qs |-> qs[i]]
  BY <1>2 DEF DeleteRule
<1>4. /\ rules' = qs /\ UNCHANGED <<drawn, request, overlap>>
      /\ \A q \in Slots : Open(q)' <=> Open(q)
  BY <1>2 DEF DeleteRule, Open
<1> HIDE <1>2
<1>5. Rows(qs) /\ \A i \in DOMAIN qs : ColumnsFit(qs[i], drawn)
  BY <1>1, <1>3 DEF Rows, PlanIInv
<1>6. \A q \in Slots : Open(q) => Meanwhile(rules, qs, request[q])
  <2> SUFFICES ASSUME NEW q \in Slots, Open(q) PROVE Meanwhile(rules, qs, request[q])
    OBVIOUS
  <2>1. k \notin Written(request[q].writes)
    BY DEF DeleteRule, LockedBy, Open
  <2> QED BY <1>3, <2>1 DEF Meanwhile
<1>7. ASSUME ~overlap
      PROVE  /\ OneOf(qs) /\ Growing(qs)
             /\ \A q \in Slots : Open(q) => LoneOK(qs, request[q])
  <2>1. OneOf(qs) /\ Growing(qs)
    BY <1>3, <1>7, LessRows DEF PlanIInv, OneAtATime
  <2> SUFFICES ASSUME NEW q \in Slots, Open(q) PROVE LoneOK(qs, request[q])
    BY <2>1
  <2>2. PICK r \in Request : r = request[q]
    BY RowsHere DEF PlanIInv
  <2>3. RequestOK(rules, drawn, r) /\ Meanwhile(rules, qs, r) /\ LoneOK(rules, r)
    BY <1>6, <1>7, <2>2 DEF PlanIInv, OneAtATime
  <2> DEFINE p == On(rules, r.writes)
             o == On(qs, r.writes)
  <2>4. /\ DOMAIN p = DOMAIN rules \union Written(r.writes)
        /\ DOMAIN o = DOMAIN qs \union Written(r.writes)
        /\ \A i \in Written(r.writes) : o[i] = p[i]
        /\ \A i \in DOMAIN rules \ Written(r.writes) : p[i] = rules[i]
        /\ \A i \in DOMAIN qs \ Written(r.writes) : o[i] = qs[i]
    <3>1. drawn <= drawn
      BY <1>1
    <3>2. ReadsBoth(rules, qs, r.writes)
      BY <1>1, <1>5, <2>3, <3>1, LoneReads
    <3> QED BY <3>2 DEF ReadsBoth
  <2> HIDE DEF p, o
  <2>5. DOMAIN o \subseteq DOMAIN p /\ \A i \in DOMAIN o : o[i] = p[i]
    BY <1>3, <2>4
  <2>6. OneOf(p) /\ Growing(p) /\ Stands(p, r)
    BY <2>3 DEF LoneOK, p
  <2>7. OneOf(o) /\ Growing(o) /\ Stands(o, r)
    BY <2>5, <2>6, LessRows
  <2> QED BY <2>2, <2>7 DEF LoneOK, o
<1>8. /\ DOMAIN qs \subseteq 1..drawn' /\ request' \in [Slots -> Request \union {Idle}]
      /\ drawn' \in 0..MaxRules /\ drawn <= drawn'
  BY <1>1, <1>3, <1>4 DEF PlanIInv, PlanTypes
<1> QED BY <1>1, <1>4, <1>5, <1>6, <1>7, <1>8, RulesChange

\* What is committed is what the transaction read.
LEMMA CommitKeeps ==
  ASSUME PlanIInv, NEW s \in Slots, Commit(s)
  PROVE  PlanIInv'
<1>1. Rows(rules) /\ drawn \in Nat /\ drawn \in 0..MaxRules /\ DOMAIN rules \subseteq 1..drawn
  BY RowsHere DEF PlanIInv, PlanTypes
<1>2. PICK r \in Request : r = request[s] /\ Open(s)
  BY RowsHere DEF PlanIInv, Commit, Running, Open
<1>3. RequestOK(rules, drawn, r) /\ r.writes \in Writes
  BY <1>2 DEF PlanIInv, Request, Writes
<1>4. PICK qs : qs = On(rules, r.writes)
  OBVIOUS
<1>5. Reads(rules, r.writes)
  BY <1>1, <1>3, OnIs DEF RequestOK
<1>6. rules' = qs /\ request' = [request EXCEPT ![s] = Idle] /\ UNCHANGED <<drawn, overlap>>
  BY <1>2, <1>4 DEF Commit, View, On
<1>7. \A i \in DOMAIN qs : qs[i] \in Rule /\ ColumnsFit(qs[i], drawn)
  BY <1>1, <1>3, <1>4, OnFits DEF RequestOK, PlanIInv
<1>8. DOMAIN qs = DOMAIN rules \union Written(r.writes) /\ qs = [i \in DOMAIN qs |-> qs[i]]
  BY <1>4, <1>5 DEF Reads, On
<1>9. Rows(qs) /\ DOMAIN qs \subseteq 1..drawn
  <2>1. Written(r.writes) \subseteq 1..drawn
    BY <1>3 DEF RequestOK
  <2>2. 1..drawn \subseteq Ids
    BY <1>1, Bounds DEF Ids
  <2> QED BY <1>1, <1>7, <1>8, <2>1, <2>2 DEF Rows
<1>10. \A q \in Slots : Open(q)' => q # s /\ request'[q] = request[q] /\ Open(q)
  BY <1>6 DEF PlanIInv, PlanTypes, Open
<1>11. \A i \in DOMAIN rules : qs[i].key = rules[i].key
  <2> SUFFICES ASSUME NEW i \in DOMAIN rules PROVE qs[i].key = rules[i].key
    OBVIOUS
  <2>1. CASE i \in Written(r.writes)
    <3>1. qs[i] = Over(r.writes[i], rules[i]) /\ r.writes[i] \in Write /\ r.writes[i] \notin Rule
          /\ rules[i] \in Rule
      BY <1>4, <1>5, <2>1 DEF Reads
    <3>2. Over(r.writes[i], rules[i]).key = rules[i].key
      BY <3>1, OverRule
    <3> QED BY <3>1, <3>2
  <2>2. CASE i \notin Written(r.writes)
    BY <1>4, <1>5, <2>2 DEF Reads
  <2> QED BY <2>1, <2>2
<1>12. ASSUME NEW q \in Slots, q # s, Open(q) PROVE Meanwhile(rules, qs, request[q])
  <2>1. Apart(rules, r, request[q]) /\ Apart(rules, request[q], r)
    BY <1>2, <1>12 DEF PlanIInv
  <2>2. \A i \in Written(request[q].writes) :
          /\ i \in DOMAIN rules <=> i \in DOMAIN qs
          /\ i \in DOMAIN rules => qs[i] = rules[i]
    BY <1>4, <1>5, <1>8, <2>1 DEF Apart, Reads
  <2>3. \A i \in DOMAIN qs \ DOMAIN rules :
          i \notin Found(request[q]) /\ (Activating(request[q]) => i # request[q].rule)
    BY <1>8, <2>1 DEF Apart
  <2> QED BY <1>11, <2>2, <2>3 DEF Meanwhile
<1>13. ASSUME ~overlap
       PROVE  OneOf(qs) /\ Growing(qs) /\ \A q \in Slots : ~Open(q)'
  BY <1>2, <1>4, <1>10, <1>13 DEF PlanIInv, OneAtATime, LoneOK
<1>14. request' \in [Slots -> Request \union {Idle}]
  BY <1>6 DEF PlanIInv, PlanTypes
<1> QED BY <1>1, <1>6, <1>7, <1>9, <1>10, <1>12, <1>13, <1>14, RulesChange

-----------------------------------------------------------------------------
(* A proposal is stored *)

\* "v" are the writes "w" and a row of its own, which is the next.
Adds(rs, d, w, v, new) ==
  /\ v \in Writes /\ Written(v) = Written(w) \union {d + 1} /\ v[d + 1] = new
  /\ \A i \in Written(w) : v[i] = w[i]
  /\ WritesOK(rs, d + 1, v) /\ Replaces(rs, v)
  /\ DOMAIN On(rs, v) = DOMAIN On(rs, w) \union {d + 1}
  /\ DOMAIN On(rs, w) \subseteq 1..d
  /\ \A i \in DOMAIN On(rs, w) : On(rs, v)[i] = On(rs, w)[i]
  /\ On(rs, v)[d + 1] = new

\* It reads its new row beside all others, and so in order.
LEMMA NewRowReads ==
  ASSUME NEW rs, Rows(rs), NEW d \in Nat, DOMAIN rs \subseteq 1..d, d + 1 \in Ids,
         NEW w \in Writes, Written(w) \subseteq 1..d, WritesOK(rs, d, w), Replaces(rs, w),
         NEW new \in Rule, ColumnsFit(new, d + 1)
  PROVE  Adds(rs, d, w, [w EXCEPT ![d + 1] = new], new)
<1>1. PICK v : v = [w EXCEPT ![d + 1] = new]
  OBVIOUS
<1>2. new \in Write /\ new # None
  BY NoRow DEF Write
<1>3. v \in Writes /\ v[d + 1] = new /\ \A i \in Ids \ {d + 1} : v[i] = w[i]
  BY <1>1, <1>2 DEF Writes
<1>4. Written(v) = Written(w) \union {d + 1}
  BY <1>2, <1>3 DEF Written
<1>5. d + 1 \notin Written(w) /\ d + 1 \notin DOMAIN rs
  OBVIOUS
<1>6. \A i \in Written(w) : v[i] = w[i]
  BY <1>3, <1>5 DEF Written
<1>7. WritesOK(rs, d + 1, v)
  <2> SUFFICES ASSUME NEW i \in Written(v)
               PROVE  /\ v[i] \in Rule <=> i \notin DOMAIN rs
                      /\ v[i] \in Rule => ColumnsFit(v[i], d + 1)
                      /\ PrevOK(v[i], d + 1)
    BY DEF WritesOK
  <2>1. CASE i = d + 1
    BY <1>3, <1>5, <2>1 DEF ColumnsFit, PrevOK
  <2>2. CASE i \in Written(w)
    <3>1. v[i] = w[i]
      BY <1>6, <2>2
    <3>2. /\ w[i] \in Rule <=> i \notin DOMAIN rs
          /\ w[i] \in Rule => ColumnsFit(w[i], d)
          /\ PrevOK(w[i], d)
      BY <2>2 DEF WritesOK
    <3>3. d + 1 \in Nat /\ d <= d + 1
      OBVIOUS
    <3> QED BY <3>1, <3>2, <3>3, FitsLater, PrevLater
  <2> QED BY <1>4, <2>1, <2>2
<1>8. Reads(rs, w) /\ Reads(rs, v)
  BY <1>3, <1>7, OnIs
<1>9. /\ DOMAIN On(rs, v) = DOMAIN On(rs, w) \union {d + 1}
      /\ DOMAIN On(rs, w) \subseteq 1..d
      /\ \A i \in DOMAIN On(rs, w) : On(rs, v)[i] = On(rs, w)[i]
      /\ On(rs, v)[d + 1] = new
  <2>1. /\ DOMAIN On(rs, v) = DOMAIN On(rs, w) \union {d + 1}
        /\ DOMAIN On(rs, w) = DOMAIN rs \union Written(w)
    BY <1>4, <1>8 DEF Reads
  <2>2. On(rs, v)[d + 1] = new
    BY <1>3, <1>4, <1>5, <1>8 DEF Reads
  <2>3. \A i \in DOMAIN rs \union Written(w) : On(rs, v)[i] = On(rs, w)[i]
    BY <1>4, <1>5, <1>6, <1>8 DEF Reads
  <2> QED BY <2>1, <2>2, <2>3
<1>10. Replaces(rs, v)
  <2> SUFFICES ASSUME NEW j \in Written(v), v[j] = Superseding
               PROVE  \E i \in Written(v) : On(rs, v)[i].key = rs[j].key /\ On(rs, v)[i].active
    BY DEF Replaces
  <2>1. Superseding \notin Rule
    BY DEF Superseding, Rule
  <2>2. j \in Written(w) /\ w[j] = Superseding
    BY <1>3, <1>4, <1>6, <2>1
  <2>3. PICK i \in Written(w) : On(rs, w)[i].key = rs[j].key /\ On(rs, w)[i].active
    BY <2>2 DEF Replaces
  <2>4. On(rs, v)[i] = On(rs, w)[i] /\ i \in Written(v)
    BY <1>4, <1>8, <1>9 DEF Reads
  <2> QED BY <2>3, <2>4
<1> QED BY <1>1, <1>3, <1>4, <1>6, <1>7, <1>9, <1>10 DEF Adds

\* A proposal is stored and, if it is to be activated, what it will supersede is looked up.
LEMMA StoreNextKeeps ==
  ASSUME PlanIInv, NEW s \in Slots, StoreNext(s)
  PROVE  PlanIInv'
<1> DEFINE r == request[s]
           d == drawn
           w == r.writes
           new == NewRule(Head(r.left), r.doc)
           v == [w EXCEPT ![d + 1] = new]
           stored == [r EXCEPT !.left = Tail(@), !.writes[d + 1] = new]
           active == [stored EXCEPT !.rule = d + 1, !.known = new]
<1>1. r \in Request /\ Open(s) /\ r.phase = "store" /\ r.left # <<>> /\ w \in Writes
  BY RowsHere DEF PlanIInv, StoreNext, Running, Open, Request, Writes
<1>2. Rows(rules) /\ d \in Nat /\ d + 1 \in Ids /\ d + 1 \in 0..MaxRules
      /\ DOMAIN rules \subseteq 1..d
  BY RowsHere, Bounds DEF PlanIInv, PlanTypes, StoreNext, Ids
<1>3. RequestOK(rules, d, r)
  BY <1>1 DEF PlanIInv
<1>4. Head(r.left) \in Keys /\ Tail(r.left) \in Seq(Keys) /\ r.doc \in Docs \union {None}
  BY <1>1 DEF Request
<1>5. new \in Rule /\ new.status = "validated" /\ new.prev = None /\ new.active = FALSE
  <2>1. PICK k : k = Head(r.left)
    OBVIOUS
  <2>2. PICK e : e = r.doc
    OBVIOUS
  <2>3. k \in Keys /\ e \in Docs \union {None}
    BY <1>4, <2>1, <2>2
  <2>4. NewRule(k, e) \in Rule /\ NewRule(k, e).status = "validated"
        /\ NewRule(k, e).prev = None /\ NewRule(k, e).active = FALSE
    BY <2>3, NewIsRule
  <2>5. new = NewRule(k, e)
    BY <2>1, <2>2
  <2> HIDE DEF new
  <2> QED BY <2>4, <2>5
<1> HIDE DEF new
<1>6. ColumnsFit(new, d + 1)
  BY <1>5 DEF ColumnsFit
<1>7. Adds(rules, d, w, v, new)
  BY <1>1, <1>2, <1>3, <1>5, <1>6, NewRowReads DEF RequestOK
<1>8. stored = [r EXCEPT !.left = Tail(r.left), !.writes = v]
  BY <1>1 DEF Request
<1> HIDE DEF v, stored
<1>9. v \in [Ids -> Write \union {None}]
  BY <1>7 DEF Adds, Writes
<1>10. /\ stored \in Request /\ stored.writes = v /\ stored.phase = "store"
       /\ stored.priors = r.priors /\ stored.left = Tail(r.left)
  BY <1>1, <1>4, <1>8, <1>9 DEF Request
<1>11. /\ active \in Request /\ active.writes = v /\ active.phase = "store"
       /\ active.priors = r.priors /\ active.rule = d + 1 /\ active.known = new
  BY <1>2, <1>5, <1>10 DEF Request
<1> HIDE DEF active
<1>12. /\ Found(stored) = Found(r) /\ Found(active) = Found(r)
       /\ ~Activating(stored) /\ ~Activating(active)
  BY <1>10, <1>11 DEF Found, Activating
<1>13. /\ Written(v) \subseteq 1..(d + 1) /\ Found(r) \subseteq 1..(d + 1)
       /\ \A i \in Written(v) : v[i] \in Rule \union {Superseding}
  <2>1. Written(w) \subseteq 1..d /\ Found(r) \subseteq 1..d
        /\ \A i \in Written(w) : w[i] \in Rule \union {Superseding}
    BY <1>1, <1>3 DEF RequestOK, NoneActivated
  <2>2. 1..d \subseteq 1..(d + 1) /\ d + 1 \in 1..(d + 1)
    BY <1>2
  <2> QED BY <1>5, <1>7, <2>1, <2>2 DEF Adds
<1>14. RequestOK(rules, d + 1, stored)
  BY <1>7, <1>10, <1>12, <1>13 DEF RequestOK, NoneActivated, Adds
<1>15. ASSUME NEW q \in Slots \ {s}, Open(q)
       PROVE  /\ request[q] \in Request
              /\ Apart(rules, stored, request[q]) /\ Apart(rules, request[q], stored)
              /\ Apart(rules, active, request[q]) /\ Apart(rules, request[q], active)
              /\ d + 1 \notin Written(request[q].writes)
  <2>1. /\ Apart(rules, r, request[q]) /\ Apart(rules, request[q], r)
        /\ RequestOK(rules, d, request[q]) /\ request[q] \in Request
    BY <1>1, <1>15, RowsHere DEF PlanIInv
  <2>2. /\ Written(request[q].writes) \subseteq 1..d /\ Found(request[q]) \subseteq 1..d
        /\ Activating(request[q]) => request[q].rule \in 1..d
    BY <2>1 DEF RequestOK, KnownOK
  <2>3. d + 1 \notin 1..d
    BY <1>2
  <2>4. Written(v) = Written(w) \union {d + 1}
    BY <1>7 DEF Adds
  <2> QED BY <1>10, <1>11, <1>12, <2>1, <2>2, <2>3, <2>4 DEF Apart
<1>16. ASSUME ~overlap
       PROVE  /\ OneOf(On(rules, v)) /\ Growing(On(rules, v))
              /\ On(rules, v)[d + 1] = new
              /\ \A q \in Slots \ {s} : ~Open(q)
  <2>1. OneOf(On(rules, w)) /\ Growing(On(rules, w)) /\ \A q \in Slots \ {s} : ~Open(q)
    BY <1>1, <1>16 DEF PlanIInv, OneAtATime, LoneOK
  <2>2. \A i \in DOMAIN On(rules, w) : ColumnsFit(On(rules, w)[i], d)
    <3>1. d \in 0..MaxRules /\ WritesOK(rules, d, w)
          /\ \A i \in DOMAIN rules : ColumnsFit(rules[i], d)
      BY <1>3, RowsHere DEF PlanIInv, RequestOK
    <3> QED BY <1>1, <1>2, <3>1, OnFits
  <2>3. PICK p, q : p = On(rules, w) /\ q = On(rules, v)
    OBVIOUS
  <2>4. /\ DOMAIN q = DOMAIN p \union {d + 1} /\ DOMAIN p \subseteq 1..d
        /\ \A i \in DOMAIN p : q[i] = p[i]
        /\ q[d + 1] = new
    BY <1>7, <2>3 DEF Adds
  <2>5. OneOf(q) /\ Growing(q)
    BY <1>2, <1>5, <2>1, <2>2, <2>3, <2>4, MoreRows
  <2> QED BY <2>1, <2>3, <2>4, <2>5
<1>17. /\ rules' = rules /\ drawn' = d + 1 /\ overlap' = overlap /\ overlap' \in BOOLEAN
       /\ drawn' \in 0..MaxRules /\ drawn <= drawn'
  BY <1>2 DEF StoreNext, PlanIInv, PlanTypes
<1>18. CASE ~r.activate
  <2>1. request' = [request EXCEPT ![s] = stored]
    BY <1>18 DEF StoreNext, stored, new
  <2>2. ~overlap => LoneOK(rules, stored)
    BY <1>10, <1>12, <1>16 DEF LoneOK, Stands, Activating
  <2> QED BY <1>10, <1>14, <1>15, <1>16, <1>17, <2>1, <2>2, StepKeeps
<1>19. CASE r.activate
  <2>1. MayFind(d + 1, active)
    <3>1. KnownOK(rules, d + 1, active)
      <4>1. d + 1 \in 1..(d + 1) /\ d + 1 \in Written(v)
        BY <1>2, <1>7 DEF Adds
      <4> QED BY <1>5, <1>6, <1>7, <1>11, <4>1 DEF KnownOK, Adds
    <3> QED BY <1>7, <1>11, <1>13, <3>1 DEF MayFind, Adds
  <2>2. /\ \A i \in DOMAIN rules : ColumnsFit(rules[i], d + 1)
        /\ DOMAIN rules \subseteq 1..(d + 1)
    <3>1. d + 1 \in Nat /\ d <= d + 1 /\ 1..d \subseteq 1..(d + 1)
      BY <1>2
    <3>2. \A i \in DOMAIN rules : ColumnsFit(rules[i], d)
      BY DEF PlanIInv
    <3> QED BY <1>2, <3>1, <3>2, FitsLater
  <2>3. PICK t \in Request : t = WithPriors(active)
    BY <1>2, <2>1, <2>2, FindsPriors
  <2>4. request' = [request EXCEPT ![s] = t]
    BY <1>19, <2>3 DEF StoreNext, active, stored, new
  <2>5. RequestOK(rules, d + 1, t)
    BY <1>2, <2>1, <2>2, <2>3, FindingKeeps
  <2>6. \A q \in Slots \ {s} : Open(q) => Apart(rules, t, request[q]) /\ Apart(rules, request[q], t)
    BY <1>2, <1>11, <1>15, <2>1, <2>2, <2>3, FindingKeeps
  <2>7. ~overlap => LoneOK(rules, t) /\ \A q \in Slots \ {s} : ~Open(q)
    <3> SUFFICES ASSUME ~overlap PROVE LoneOK(rules, t)
      BY <1>16
    <3>1. /\ OneOf(On(rules, active.writes)) /\ Growing(On(rules, active.writes))
          /\ active.rule \in DOMAIN On(rules, active.writes) =>
               On(rules, active.writes)[active.rule] = active.known
      BY <1>11, <1>16
    <3> QED BY <1>2, <2>1, <2>2, <2>3, <3>1, FindingKeeps
  <2> QED BY <1>17, <2>3, <2>4, <2>5, <2>6, <2>7, StepKeeps
<1> QED BY <1>18, <1>19

-----------------------------------------------------------------------------
(* A rule supersedes others *)

\* "v" are the writes "w" and over them the parts u[i] of the rows in W.
Flushed(w, W, u) ==
  [i \in Ids |-> IF i \in W THEN IF w[i] = None THEN u[i] ELSE Over(u[i], w[i]) ELSE w[i]]

\* Parts of rows that are there, of which the transaction has written all or nothing.
Parts(rs, d, w, W, u) ==
  /\ W \subseteq DOMAIN On(rs, w)
  /\ \A i \in W : /\ u[i] \in Write /\ u[i] \notin Rule /\ PrevOK(u[i], d)
                  /\ i \in Written(w) => w[i] \in Rule

\* What a transaction has written, and reads, once it has flushed them.
FlushOK(rs, d, w, W, u, v) ==
  /\ v \in Writes /\ Written(v) = Written(w) \union W /\ WritesOK(rs, d, v)
  /\ \A i \in Written(w) \ W : v[i] = w[i]
  /\ \A i \in W \ Written(w) : v[i] = u[i]
  /\ \A i \in W \intersect Written(w) : v[i] \in Rule
  /\ DOMAIN On(rs, v) = DOMAIN On(rs, w)
  /\ \A i \in DOMAIN On(rs, w) \ W : On(rs, v)[i] = On(rs, w)[i]
  /\ \A i \in W : On(rs, w)[i] \in Rule /\ On(rs, v)[i] = Over(u[i], On(rs, w)[i])

\* Over rows that were there are rows then, about the same thing.
LEMMA Flushing ==
  ASSUME NEW rs, Rows(rs), NEW d \in 0..MaxRules, NEW w \in Writes, WritesOK(rs, d, w),
         \A i \in DOMAIN rs : ColumnsFit(rs[i], d), NEW W, NEW u, Parts(rs, d, w, W, u)
  PROVE  FlushOK(rs, d, w, W, u, Flushed(w, W, u))
<1>1. PICK v : v = Flushed(w, W, u)
  OBVIOUS
<1>2. Reads(rs, w)
  BY OnIs
<1>3. W \subseteq Ids /\ W \subseteq DOMAIN rs \union Written(w)
  BY <1>2 DEF Reads, Parts, Rows, Written
<1>4. \A i \in DOMAIN On(rs, w) : On(rs, w)[i] \in Rule /\ ColumnsFit(On(rs, w)[i], d)
  BY OnFits
<1>5. \A i \in Ids \ W : v[i] = w[i]
  BY <1>1 DEF Flushed
<1>6. \A i \in W \ Written(w) : v[i] = u[i] /\ i \in DOMAIN rs /\ On(rs, w)[i] = rs[i]
  BY <1>1, <1>2, <1>3 DEF Flushed, Written, Reads
<1>7. \A i \in W \intersect Written(w) :
        v[i] = Over(u[i], w[i]) /\ i \notin DOMAIN rs /\ On(rs, w)[i] = w[i] /\ w[i] \in Rule
  <2> SUFFICES ASSUME NEW i \in W \intersect Written(w)
               PROVE  v[i] = Over(u[i], w[i]) /\ i \notin DOMAIN rs /\ On(rs, w)[i] = w[i]
                      /\ w[i] \in Rule
    OBVIOUS
  <2>1. w[i] \in Rule /\ w[i] # None /\ i \in Ids
    BY DEF Parts, Written
  <2>2. i \notin DOMAIN rs
    BY <2>1 DEF WritesOK
  <2>3. v[i] = Over(u[i], w[i])
    BY <1>1, <2>1 DEF Flushed
  <2> QED BY <1>2, <2>1, <2>2, <2>3 DEF Reads
<1>8. \A i \in W : On(rs, w)[i] \in Rule /\ ColumnsFit(On(rs, w)[i], d)
  BY <1>4 DEF Parts
<1>9. \A i \in W : /\ Over(u[i], On(rs, w)[i]) \in Rule
                   /\ ColumnsFit(Over(u[i], On(rs, w)[i]), d)
  <2> SUFFICES ASSUME NEW i \in W
               PROVE  Over(u[i], On(rs, w)[i]) \in Rule /\ ColumnsFit(Over(u[i], On(rs, w)[i]), d)
    OBVIOUS
  <2>1. PICK x \in Write, row \in Rule : x = u[i] /\ row = On(rs, w)[i]
    BY <1>8 DEF Parts
  <2>2. x \notin Rule /\ PrevOK(x, d) /\ ColumnsFit(row, d)
    BY <1>8, <2>1 DEF Parts
  <2>3. Over(x, row) \in Rule /\ Over(x, row).active = x.active /\ Over(x, row).status = x.status
        /\ Over(x, row).prev = IF "prev" \in DOMAIN x THEN x.prev ELSE row.prev
    BY <2>2, OverRule
  <2>4. \/ x.active = FALSE /\ x.status = "superseded"
        \/ x.active = TRUE /\ x.status = "active"
    BY <2>2, Partial
  <2>5. PICK o \in Rule : o = Over(x, row)
    BY <2>3
  <2>6. ColumnsFit(o, d)
    BY <2>2, <2>3, <2>4, <2>5 DEF ColumnsFit, PrevOK
  <2> QED BY <2>1, <2>5, <2>6
<1>10. \A i \in W : v[i] \in Write /\ v[i] # None
  <2> SUFFICES ASSUME NEW i \in W PROVE v[i] \in Write
    BY NoRow
  <2>1. CASE i \in Written(w)
    BY <1>7, <1>9, <2>1 DEF Write
  <2>2. CASE i \notin Written(w)
    BY <1>6, <2>2 DEF Parts
  <2> QED BY <2>1, <2>2
<1>11. v \in Writes
  <2>1. \A i \in Ids : v[i] \in Write \union {None}
    BY <1>5, <1>10 DEF Writes
  <2>2. v = [i \in Ids |-> v[i]]
    BY <1>1 DEF Flushed
  <2> QED BY <2>1, <2>2 DEF Writes
<1>12. Written(v) = Written(w) \union W
  BY <1>3, <1>5, <1>10 DEF Written
<1>13. WritesOK(rs, d, v)
  <2> SUFFICES ASSUME NEW i \in Written(v)
               PROVE  /\ v[i] \in Rule <=> i \notin DOMAIN rs
                      /\ v[i] \in Rule => ColumnsFit(v[i], d)
                      /\ PrevOK(v[i], d)
    BY DEF WritesOK
  <2>1. CASE i \in W /\ i \in Written(w)
    BY <1>7, <1>9, <2>1 DEF PrevOK, ColumnsFit
  <2>2. CASE i \in W /\ i \notin Written(w)
    BY <1>6, <2>2 DEF Parts
  <2>3. CASE i \notin W
    <3>1. i \in Written(w) /\ v[i] = w[i]
      BY <1>5, <1>12, <2>3 DEF Written
    <3> QED BY <3>1 DEF WritesOK
  <2> QED BY <2>1, <2>2, <2>3
<1>14. Reads(rs, v)
  BY <1>11, <1>13, OnIs
<1>15. DOMAIN On(rs, v) = DOMAIN On(rs, w)
  BY <1>2, <1>3, <1>12, <1>14 DEF Reads
<1>16. \A i \in DOMAIN On(rs, w) \ W : On(rs, v)[i] = On(rs, w)[i]
  <2> SUFFICES ASSUME NEW i \in DOMAIN On(rs, w) \ W PROVE On(rs, v)[i] = On(rs, w)[i]
    OBVIOUS
  <2>1. CASE i \in Written(w)
    <3>1. v[i] = w[i]
      BY <1>5, <2>1 DEF Written
    <3> QED BY <1>2, <1>12, <1>14, <2>1, <3>1 DEF Reads
  <2>2. CASE i \notin Written(w)
    BY <1>2, <1>12, <1>14, <2>2 DEF Reads
  <2> QED BY <2>1, <2>2
<1>17. \A i \in W : On(rs, v)[i] = Over(u[i], On(rs, w)[i])
  <2> SUFFICES ASSUME NEW i \in W PROVE On(rs, v)[i] = Over(u[i], On(rs, w)[i])
    OBVIOUS
  <2>1. CASE i \in Written(w)
    <3>1. i \in Written(v) \ DOMAIN rs
      BY <1>7, <1>12, <2>1
    <3>2. On(rs, v)[i] = v[i]
      BY <1>14, <3>1 DEF Reads
    <3> QED BY <1>7, <2>1, <3>2
  <2>2. CASE i \notin Written(w)
    <3>1. i \in Written(v) \intersect DOMAIN rs
      BY <1>6, <1>12, <2>2
    <3>2. On(rs, v)[i] = Over(v[i], rs[i])
      BY <1>14, <3>1 DEF Reads
    <3> QED BY <1>6, <2>2, <3>2
  <2> QED BY <2>1, <2>2
<1>18. /\ \A i \in Written(w) \ W : v[i] = w[i]
       /\ \A i \in W \intersect Written(w) : v[i] \in Rule
  BY <1>5, <1>7, <1>9 DEF Written
<1> QED BY <1>1, <1>6, <1>8, <1>11, <1>12, <1>13, <1>15, <1>16, <1>17, <1>18 DEF FlushOK

-----------------------------------------------------------------------------

\* The new version is a version, and higher than those it supersedes.
LEMMA VersionIs ==
  ASSUME NEW r \in Request, r.known \in Rule
  PROVE  /\ NextVersion(r) \in Nat \ {0}
         /\ Old(r) # {} => NextVersion(r) # r.known.version
         /\ \A i \in Old(r) : r.priors[i] < NextVersion(r)
<1>1. PICK k \in Nat \ {0} : k = r.known.version
  BY DEF Rule
<1>2. r.priors \in [Ids -> Nat] /\ Old(r) \subseteq Found(r) /\ Old(r) \subseteq Ids
  BY DEF Request, Old, Found
<1>3. CASE Found(r) = {}
  BY <1>1, <1>2, <1>3 DEF NextVersion
<1>4. CASE Found(r) # {}
  <2> DEFINE T == {r.known.version} \union {r.priors[i] : i \in Old(r)}
  <2>1. IsFiniteSet(Old(r))
    <3>1. IsFiniteSet(Ids)
      BY Bounds, FS_Interval DEF Ids
    <3> QED BY <1>2, <3>1, FS_Subset
  <2>2. PICK n \in Nat : \A i \in Old(r) : r.priors[i] <= n
    BY <1>2, <2>1, NumbersAreBounded
  <2>3. n + k \in Nat /\ T \subseteq Nat /\ T \in SUBSET (0..(n + k)) /\ T # {} /\ k \in T
        /\ \A i \in Old(r) : r.priors[i] \in T
    BY <1>1, <1>2, <2>2
  <2>4. NextVersion(r) = 1 + Max(T)
    BY <1>4 DEF NextVersion
  <2> HIDE DEF T
  <2>5. Max(T) \in T /\ \A y \in T : y <= Max(T)
    BY <2>3, MaxIs
  <2>6. PICK m \in Nat : m = Max(T)
    BY <2>3, <2>5, Zenon
  <2> QED BY <1>1, <1>2, <2>3, <2>4, <2>5, <2>6
<1> QED BY <1>3, <1>4

\* What an activation changes of a rule.
Change(c, r, f) ==
  /\ c \in Write /\ c \notin Rule /\ c.active = TRUE /\ c.status = "active"
  /\ NextVersion(r) = IF "version" \in DOMAIN c THEN c.version ELSE r.known.version
  /\ f = IF "prev" \in DOMAIN c THEN c.prev ELSE r.known.prev

\* The rule afterwards, and the columns of it that are not as they were.
After(r, f) ==
  [r.known EXCEPT !.active = TRUE, !.status = "active", !.prev = f, !.version = NextVersion(r)]
Changed(r, f) ==
  [c \in {d \in DOMAIN After(r, f) : After(r, f)[d] # r.known[d]} |-> After(r, f)[c]]

\* It changes the two columns that make it active, and the version and what it superseded only
\* together.
LEMMA ChangeIs ==
  ASSUME NEW r \in Request, r.known \in Rule, r.known.active = FALSE,
         r.known.status = "validated", r.known.prev = None, NEW f \in Ids \union {None},
         IF Old(r) = {} THEN f = None ELSE f # None
  PROVE  Change(Changed(r, f), r, f)
<1>1. PICK k \in Rule : k = r.known
  OBVIOUS
<1>2. PICK n \in Nat \ {0} : n = NextVersion(r)
  BY VersionIs
<1>3. DOMAIN k = Columns
  BY DEF Rule, Columns
<1>4. PICK a : a = After(r, f)
  OBVIOUS
<1>5. /\ DOMAIN a = Columns /\ a.key = k.key /\ a.doc = k.doc /\ a.active = TRUE
      /\ a.status = "active" /\ a.prev = f /\ a.version = n
  BY <1>1, <1>2, <1>3, <1>4 DEF After, Columns
<1>6. PICK c : c = Changed(r, f)
  OBVIOUS
<1> DEFINE C == {d \in Columns : a[d] # k[d]}
<1>7. c = [x \in C |-> a[x]]
  BY <1>1, <1>4, <1>5, <1>6 DEF Changed
<1>8. /\ "key" \notin C /\ "doc" \notin C /\ "active" \in C /\ "status" \in C
      /\ "version" \in C <=> n # k.version
      /\ "prev" \in C <=> f # None
      /\ C \subseteq Columns
  BY <1>1, <1>5 DEF Columns
<1> HIDE DEF C
<1>9. /\ DOMAIN c = C /\ c.active = TRUE /\ c.status = "active"
      /\ "version" \in C => c.version = n
      /\ "prev" \in C => c.prev = f
  BY <1>5, <1>7, <1>8
<1>10. f # None => n # k.version
  BY <1>1, <1>2, VersionIs
<1>11. c \in Write /\ c \notin Rule
  <2>1. CASE f # None
    <3>1. C = {"active", "status", "version", "prev"}
      BY <1>8, <1>10, <2>1 DEF Columns
    <3>2. c = [active |-> c.active, status |-> c.status, version |-> c.version, prev |-> c.prev]
      BY <1>7, <1>9, <3>1
    <3>3. c.version \in Nat \ {0} /\ c.prev \in Ids
      BY <1>9, <2>1, <3>1
    <3>4. c \in [active: {TRUE}, status: {"active"}, version: Nat \ {0}, prev: Ids]
      BY <1>9, <3>2, <3>3
    <3> QED BY <1>8, <1>9, <3>4 DEF Write, Rule
  <2>2. CASE f = None /\ n # k.version
    <3>1. C = {"active", "status", "version"}
      BY <1>8, <2>2 DEF Columns
    <3>2. c = [active |-> c.active, status |-> c.status, version |-> c.version]
      BY <1>7, <1>9, <3>1
    <3>3. c.version \in Nat \ {0}
      BY <1>9, <3>1
    <3>4. c \in [active: {TRUE}, status: {"active"}, version: Nat \ {0}]
      BY <1>9, <3>2, <3>3
    <3> QED BY <1>8, <1>9, <3>4 DEF Write, Rule
  <2>3. CASE f = None /\ n = k.version
    <3>1. C = {"active", "status"}
      BY <1>8, <2>3 DEF Columns
    <3>2. c = [active |-> c.active, status |-> c.status]
      BY <1>7, <1>9, <3>1
    <3>3. c \in [active: {TRUE}, status: {"active"}]
      BY <1>9, <3>2
    <3> QED BY <1>8, <1>9, <3>3 DEF Write, Rule
  <2> QED BY <2>1, <2>2, <2>3
<1> QED BY <1>1, <1>2, <1>6, <1>8, <1>9, <1>11 DEF Change

-----------------------------------------------------------------------------

\* What an activation writes: what it changes of the rule, and the others superseded.
Changes(r, f) ==
  [i \in Old(r) \union {r.rule} |-> IF i = r.rule THEN Changed(r, f) ELSE Superseding]

\* The request afterwards.
Done(r, v) ==
  [r EXCEPT !.phase = "store", !.rule = None, !.known = None, !.priors = NoPriors, !.writes = v]

\* What holds of the rows an activation reads, when all it needs is there.
\* What an activation knew of the rows, and what it makes of them.
Activates(rs, d, r, f, v) ==
  /\ KnownOK(rs, d, r) /\ PriorsOK(rs, r)
  /\ \A i \in Old(r) \union {r.rule} : On(rs, r.writes)[i].key = r.known.key
  /\ Change(Changed(r, f), r, f)
  /\ FlushOK(rs, d, r.writes, Old(r) \union {r.rule}, Changes(r, f), v)

\* What an activation writes is in order.
LEMMA ActivationReads ==
  ASSUME NEW rs, Rows(rs), NEW d \in 0..MaxRules, \A i \in DOMAIN rs : ColumnsFit(rs[i], d),
         NEW r \in Request, RequestOK(rs, d, r), r.phase = "supersede",
         Found(r) \union {r.rule} \subseteq DOMAIN On(rs, r.writes),
         NEW f, IF Old(r) = {} THEN f = None ELSE f \in Old(r)
  PROVE  Activates(rs, d, r, f, Flushed(r.writes, Old(r) \union {r.rule}, Changes(r, f)))
<1> DEFINE W == Old(r) \union {r.rule}
           u == Changes(r, f)
           w == r.writes
<1>1. KnownOK(rs, d, r) /\ PriorsOK(rs, r)
  BY DEF RequestOK, Activating
<1>2. r.known \in Rule /\ r.known.active = FALSE /\ r.known.status = "validated"
      /\ r.known.prev = None
  BY <1>1 DEF KnownOK, ColumnsFit, Rule
<1>3. Old(r) \subseteq Found(r) /\ Found(r) \subseteq Ids /\ None \notin Ids
      /\ Found(r) \subseteq 1..d
  BY NoRow DEF Old, Found, RequestOK
<1>4. f \in Ids \union {None} /\ (IF Old(r) = {} THEN f = None ELSE f # None)
  BY <1>3
<1>5. Change(Changed(r, f), r, f)
  BY <1>2, <1>4, ChangeIs
<1>6. \A i \in W : On(rs, w)[i].key = r.known.key /\ (i \in Written(w) => w[i] \in Rule)
  BY <1>1, <1>3 DEF KnownOK, PriorsOK
<1>7. Superseding \in Write /\ Superseding \notin Rule /\ PrevOK(Superseding, d)
  BY DEF Write, Superseding, Rule, PrevOK
<1>8. PrevOK(Changed(r, f), d)
  BY <1>2, <1>3, <1>5 DEF Change, PrevOK
<1>9. \A i \in W : u[i] = IF i = r.rule THEN Changed(r, f) ELSE Superseding
  BY DEF Changes
<1>10. Parts(rs, d, w, W, u)
  BY <1>3, <1>5, <1>6, <1>7, <1>8, <1>9 DEF Parts, Change
<1>11. w \in Writes /\ WritesOK(rs, d, w)
  BY DEF Request, Writes, RequestOK
<1>12. FlushOK(rs, d, w, W, u, Flushed(w, W, u))
  BY <1>10, <1>11, Flushing
<1> QED BY <1>1, <1>5, <1>6, <1>12 DEF Activates

-----------------------------------------------------------------------------

\* A row that is activated or superseded is about what it was about.
RowsReplaced(p, q, r, f) ==
  /\ \A i \in Old(r) : /\ q[i].key = p[i].key /\ q[i].doc = p[i].doc
                       /\ q[i].prev = p[i].prev /\ q[i].version = p[i].version
                       /\ ~q[i].active /\ q[i].status = "superseded"
  /\ q[r.rule].key = p[r.rule].key /\ q[r.rule].active
  /\ p[r.rule] = r.known => q[r.rule].version = NextVersion(r) /\ q[r.rule].prev = f

LEMMA RowsAfter ==
  ASSUME NEW rs, NEW d, NEW r, NEW f, NEW v, r.rule \notin Old(r),
         Change(Changed(r, f), r, f),
         FlushOK(rs, d, r.writes, Old(r) \union {r.rule}, Changes(r, f), v),
         NEW p, p = On(rs, r.writes), NEW q, q = On(rs, v)
  PROVE  RowsReplaced(p, q, r, f)
<1>1. ASSUME NEW i \in Old(r)
      PROVE  /\ q[i].key = p[i].key /\ q[i].doc = p[i].doc
             /\ q[i].prev = p[i].prev /\ q[i].version = p[i].version
             /\ ~q[i].active /\ q[i].status = "superseded"
  <2>1. PICK row \in Rule : row = p[i]
    BY DEF FlushOK
  <2>2. q[i] = Over(Superseding, row)
    BY <2>1 DEF FlushOK, Changes
  <2>3. PICK x \in Write : x = Superseding /\ x \notin Rule /\ x.active = FALSE
                           /\ x.status = "superseded" /\ DOMAIN x = {"active", "status"}
    <3>1. Superseding \in Write
      BY DEF Write
    <3>2. Superseding \notin Rule /\ DOMAIN Superseding = {"active", "status"}
          /\ Superseding.active = FALSE /\ Superseding.status = "superseded"
      BY DEF Superseding, Rule
    <3> QED BY <3>1, <3>2
  <2>4. q[i] = Over(x, row)
    BY <2>2, <2>3
  <2> HIDE <2>3
  <2>5. x \in Write /\ x \notin Rule /\ x.active = FALSE /\ x.status = "superseded"
        /\ DOMAIN x = {"active", "status"}
    BY <2>3
  <2> QED BY <2>1, <2>4, <2>5, OverRule
<1>2. /\ q[r.rule].key = p[r.rule].key /\ q[r.rule].active
      /\ p[r.rule] = r.known => q[r.rule].version = NextVersion(r) /\ q[r.rule].prev = f
  <2>1. PICK row \in Rule : row = p[r.rule]
    BY DEF FlushOK
  <2>2. PICK x : x = Changed(r, f)
    OBVIOUS
  <2>3. q[r.rule] = Over(x, row)
    BY <2>1, <2>2 DEF FlushOK, Changes
  <2>4. Change(x, r, f)
    BY <2>2
  <2> HIDE <2>2
  <2>5. PICK o : o = Over(x, row)
    OBVIOUS
  <2>6. /\ o.key = row.key /\ o.active = x.active
        /\ o.version = IF "version" \in DOMAIN x THEN x.version ELSE row.version
        /\ o.prev = IF "prev" \in DOMAIN x THEN x.prev ELSE row.prev
    BY <2>4, <2>5, OverRule DEF Change
  <2> QED BY <2>1, <2>3, <2>4, <2>5, <2>6 DEF Change
<1> QED BY <1>1, <1>2 DEF RowsReplaced

\* The request is in order afterwards: it has put something active in the place of all that it
\* superseded.
LEMMA ActivationReplaces ==
  ASSUME NEW rs, Rows(rs), NEW d, NEW r \in Request, RequestOK(rs, d, r), r.phase = "supersede",
         KnownOK(rs, d, r), NEW f, Change(Changed(r, f), r, f), NEW v,
         \A i \in Old(r) \union {r.rule} : On(rs, r.writes)[i].key = r.known.key,
         FlushOK(rs, d, r.writes, Old(r) \union {r.rule}, Changes(r, f), v)
  PROVE  RequestOK(rs, d, Done(r, v))
<1> DEFINE w == r.writes
           W == Old(r) \union {r.rule}
           t == Done(r, v)
<1>1. r.rule \notin Old(r)
  BY DEF Old
<1>2. PICK p, q : p = On(rs, w) /\ q = On(rs, v)
  OBVIOUS
<1>3. /\ \A i \in W : q[i].key = r.known.key /\ p[i].key = r.known.key
      /\ q[r.rule].active
  <2>1. RowsReplaced(p, q, r, f)
    BY <1>1, <1>2, RowsAfter
  <2> QED BY <1>2, <2>1 DEF RowsReplaced
<1>4. \A i \in DOMAIN p \ W : q[i] = p[i]
  BY <1>2 DEF FlushOK
<1>5. Superseding \notin Rule /\ Superseding.active = FALSE
  BY DEF Superseding, Rule
<1>6. v[r.rule] # Superseding
  <2>1. CASE r.rule \in Written(w)
    BY <1>5, <2>1 DEF FlushOK
  <2>2. CASE r.rule \notin Written(w)
    <3>1. v[r.rule] = Changed(r, f)
      BY <2>2 DEF FlushOK, Changes
    <3> QED BY <1>5, <3>1 DEF Change
  <2> QED BY <2>1, <2>2
<1>7. Reads(rs, w)
  BY OnIs DEF RequestOK, Request, Writes
<1>8. Written(v) = Written(w) \union W /\ r.rule \in Written(v)
  BY DEF FlushOK
<1>9. Replaces(rs, v)
  <2> SUFFICES ASSUME NEW j \in Written(v), v[j] = Superseding
               PROVE  \E i \in Written(v) : q[i].key = rs[j].key /\ q[i].active
    BY <1>2 DEF Replaces
  <2>1. CASE j \in W
    <3>1. j \notin Written(w)
      BY <1>5, <2>1 DEF FlushOK
    <3>2. j \in DOMAIN rs /\ p[j] = rs[j]
      BY <1>2, <1>5, <1>7, <1>8, <3>1 DEF Reads, FlushOK, WritesOK
    <3> QED BY <1>3, <1>8, <2>1, <3>2
  <2>2. CASE j \notin W
    <3>1. j \in Written(w) /\ w[j] = Superseding
      BY <1>8, <2>2 DEF FlushOK
    <3>2. PICK i \in Written(w) : p[i].key = rs[j].key /\ p[i].active
      BY <1>2, <3>1 DEF RequestOK, Replaces
    <3>3. CASE i \in W
      <4>1. q[r.rule].key = rs[j].key
        BY <1>3, <3>2, <3>3
      <4> QED BY <1>3, <1>8, <4>1
    <3>4. CASE i \notin W
      <4>1. i \in DOMAIN p
        BY <1>2, <1>7 DEF Reads
      <4> QED BY <1>4, <1>8, <3>2, <3>4, <4>1
    <3> QED BY <3>3, <3>4
  <2> QED BY <2>1, <2>2
<1>10. v \in Writes /\ WritesOK(rs, d, v)
  BY DEF FlushOK
<1>11. /\ t.phase = "store" /\ t.writes = v /\ t.left = r.left /\ t.priors = NoPriors
  BY <1>10 DEF Done, Request
<1>12. Found(t) = {} /\ ~Activating(t)
  BY <1>11 DEF Found, NoPriors, Activating
<1>13. Written(v) \subseteq 1..d
  BY <1>8 DEF RequestOK, Old, KnownOK
<1>14. NoneActivated(t)
  <2>1. CASE r.left = <<>>
    BY <1>11, <2>1 DEF NoneActivated
  <2>2. CASE r.left # <<>>
    <3>1. r.rule \in Written(w) /\ \A i \in Written(w) : w[i] \in Rule \union {Superseding}
      BY <2>2 DEF KnownOK, RequestOK, NoneActivated
    <3>2. \A i \in Written(v) : v[i] \in Rule \union {Superseding}
      <4> SUFFICES ASSUME NEW i \in Written(v) PROVE v[i] \in Rule \union {Superseding}
        OBVIOUS
      <4>1. CASE i \in W /\ i \in Written(w)
        BY <4>1 DEF FlushOK
      <4>2. CASE i \in W /\ i \notin Written(w)
        BY <3>1, <4>2 DEF FlushOK, Changes
      <4>3. CASE i \notin W
        BY <1>8, <3>1, <4>3 DEF FlushOK
      <4> QED BY <4>1, <4>2, <4>3
    <3> QED BY <1>11, <3>2 DEF NoneActivated
  <2> QED BY <2>1, <2>2
<1> HIDE DEF t
<1> QED BY <1>9, <1>10, <1>11, <1>12, <1>13, <1>14 DEF RequestOK, t

\* Alone, it leaves one active rule that is newer than what it superseded.
LEMMA ActivationSound ==
  ASSUME NEW rs, Rows(rs), NEW d \in 0..MaxRules, \A i \in DOMAIN rs : ColumnsFit(rs[i], d),
         NEW r \in Request, RequestOK(rs, d, r), r.phase = "supersede", KnownOK(rs, d, r),
         Found(r) \union {r.rule} \subseteq DOMAIN On(rs, r.writes),
         NEW f, Change(Changed(r, f), r, f), NEW v,
         IF Old(r) = {} THEN f = None ELSE f \in Old(r),
         \A i \in Old(r) \union {r.rule} : On(rs, r.writes)[i].key = r.known.key,
         FlushOK(rs, d, r.writes, Old(r) \union {r.rule}, Changes(r, f), v),
         LoneOK(rs, r)
  PROVE  OneOf(On(rs, v)) /\ Growing(On(rs, v))
<1>1. r.rule \notin Old(r) /\ Old(r) \subseteq Found(r)
  BY DEF Old
<1>2. PICK p, q : p = On(rs, r.writes) /\ q = On(rs, v)
  OBVIOUS
<1>3. OneOf(p) /\ Growing(p) /\ Stands(p, r)
  BY <1>2 DEF LoneOK
<1>4. r.rule \in DOMAIN p /\ Old(r) \in SUBSET DOMAIN p
  BY <1>1, <1>2
<1>5. p[r.rule] = r.known /\ r.known.status = "validated"
  BY <1>3, <1>4 DEF Stands, Activating, KnownOK
<1>6. \A i \in DOMAIN p : p[i].active <=> p[i].status = "active"
  <2>1. r.writes \in Writes /\ WritesOK(rs, d, r.writes)
    BY DEF Request, Writes, RequestOK
  <2>2. \A i \in DOMAIN p : ColumnsFit(p[i], d)
    BY <1>2, <2>1, OnFits
  <2> QED BY <2>2 DEF ColumnsFit
<1>7. Replaced(p, q, r.rule, Old(r), NextVersion(r), f)
  <2>1. DOMAIN q = DOMAIN p /\ \A i \in DOMAIN p \ (Old(r) \union {r.rule}) : q[i] = p[i]
    BY <1>2 DEF FlushOK
  <2>2. /\ \A i \in Old(r) : /\ q[i].key = p[i].key /\ q[i].doc = p[i].doc
                             /\ q[i].prev = p[i].prev /\ q[i].version = p[i].version
                             /\ ~q[i].active /\ q[i].status = "superseded"
        /\ q[r.rule].key = p[r.rule].key /\ q[r.rule].active
        /\ p[r.rule] = r.known => q[r.rule].version = NextVersion(r) /\ q[r.rule].prev = f
    <3>1. RowsReplaced(p, q, r, f)
      BY <1>1, <1>2, RowsAfter
    <3> QED BY <3>1 DEF RowsReplaced
  <2> QED BY <1>5, <2>1, <2>2 DEF Replaced
<1>8. f # None => f \in Old(r) /\ p[f].version < NextVersion(r)
  <2>1. r.known \in Rule
    BY DEF KnownOK
  <2>2. \A i \in Old(r) : r.priors[i] < NextVersion(r) /\ p[i].version = r.priors[i]
    BY <1>1, <1>3, <1>4, <2>1, VersionIs DEF Stands
  <2> QED BY <2>2
<1>9. \A i \in ActiveMatching(p, p[r.rule].key) : p[i].doc # None => i \in Old(r)
  <2>1. \A i \in ActiveMatching(p, r.known.key) : p[i].doc # None => i \in Found(r)
    BY <1>3 DEF Stands
  <2>2. r.rule \notin ActiveMatching(p, r.known.key)
    BY <1>5 DEF ActiveMatching
  <2> QED BY <1>5, <2>1, <2>2 DEF Old
<1>10. \A i \in Old(r) : p[i].key = p[r.rule].key
  BY <1>2
<1>11. OneOf(q) /\ Growing(q)
  BY <1>1, <1>3, <1>4, <1>5, <1>6, <1>7, <1>8, <1>9, <1>10, ReplacedSound
<1> QED BY <1>2, <1>11

-----------------------------------------------------------------------------

\* The activation.
LEMMA SupersedeKeeps ==
  ASSUME PlanIInv, NEW s \in Slots, Supersede(s)
  PROVE  PlanIInv'
<1> DEFINE r == request[s]
           w == r.writes
           W == Old(r) \union {r.rule}
<1>1. r \in Request /\ Open(s) /\ r.phase = "supersede" /\ Activating(r)
  BY RowsHere DEF PlanIInv, Supersede, Running, Open, Activating
<1>2. Rows(rules) /\ drawn \in 0..MaxRules /\ \A i \in DOMAIN rules : ColumnsFit(rules[i], drawn)
  BY RowsHere DEF PlanIInv
<1>3. RequestOK(rules, drawn, r) /\ KnownOK(rules, drawn, r)
  BY <1>1 DEF PlanIInv, RequestOK
<1>4. View(w) = On(rules, w)
  BY DEF View, On
<1>5. /\ Found(r) \union {r.rule} \subseteq DOMAIN On(rules, w)
      /\ W \intersect LockedBy(Slots \ {s}) = {}
  BY <1>4 DEF Supersede, Present
<1>6. r.known.prev = None
  BY <1>3 DEF KnownOK, ColumnsFit
<1>7. PICK f \in IF Old(r) = {} \/ r.known.prev # None THEN {r.known.prev} ELSE Old(r) :
        request' = [request EXCEPT ![s] =
          [r EXCEPT !.phase = "store", !.rule = None, !.known = None, !.priors = NoPriors,
             !.writes = [i \in Ids |->
               CASE i = r.rule -> IF w[i] = None THEN Changed(r, f) ELSE Over(Changed(r, f), w[i])
                 [] i \in Old(r) -> IF w[i] = None THEN Superseding ELSE Over(Superseding, w[i])
                 [] OTHER -> w[i]]]]
  BY DEF Supersede, Changed, After
<1> DEFINE v == Flushed(w, W, Changes(r, f))
<1>8. IF Old(r) = {} THEN f = None ELSE f \in Old(r)
  BY <1>6, <1>7
<1>9. [i \in Ids |->
         CASE i = r.rule -> IF w[i] = None THEN Changed(r, f) ELSE Over(Changed(r, f), w[i])
           [] i \in Old(r) -> IF w[i] = None THEN Superseding ELSE Over(Superseding, w[i])
           [] OTHER -> w[i]] = v
  <2>1. r.rule \notin Old(r)
    BY DEF Old
  <2>2. \A i \in W : Changes(r, f)[i] = IF i = r.rule THEN Changed(r, f) ELSE Superseding
    BY DEF Changes
  <2> QED BY <2>1, <2>2 DEF Flushed
<1>10. request' = [request EXCEPT ![s] = Done(r, v)]
  BY <1>7, <1>9 DEF Done
<1>11. /\ KnownOK(rules, drawn, r) /\ PriorsOK(rules, r)
       /\ \A i \in W : On(rules, w)[i].key = r.known.key
       /\ Change(Changed(r, f), r, f)
       /\ FlushOK(rules, drawn, w, W, Changes(r, f), v)
  <2>1. Activates(rules, drawn, r, f, v)
    <3> HIDE DEF v
    <3>1. Activates(rules, drawn, r, f, Flushed(w, W, Changes(r, f)))
      BY <1>1, <1>2, <1>3, <1>5, <1>8, ActivationReads
    <3> QED BY <3>1 DEF v
  <2> HIDE DEF v
  <2> QED BY <2>1 DEF Activates
<1> HIDE DEF v
<1>12. RequestOK(rules, drawn, Done(r, v))
  BY <1>1, <1>2, <1>3, <1>11, ActivationReplaces
<1>13. v \in [Ids -> Write \union {None}] /\ NoPriors \in [Ids -> Nat]
  BY <1>11 DEF FlushOK, Writes, NoPriors
<1>14. PICK t \in Request : /\ t = Done(r, v) /\ t.phase = "store" /\ t.writes = v
                            /\ t.priors = NoPriors
  <2> HIDE DEF NoPriors
  <2>1. Done(r, v) \in Request
    BY <1>1, <1>13 DEF Done, Request
  <2>2. /\ Done(r, v).phase = "store" /\ Done(r, v).writes = v
        /\ Done(r, v).priors = NoPriors
    BY <1>1 DEF Done, Request
  <2> QED BY <2>1, <2>2
<1>15. Found(t) = {} /\ ~Activating(t)
  BY <1>14 DEF Found, NoPriors, Activating
<1>16. ASSUME NEW q \in Slots \ {s}, Open(q)
       PROVE  Apart(rules, t, request[q]) /\ Apart(rules, request[q], t)
  <2>1. Apart(rules, r, request[q]) /\ Apart(rules, request[q], r)
    BY <1>1, <1>16 DEF PlanIInv
  <2>2. Written(v) = Written(w) \union W
    BY <1>11 DEF FlushOK
  <2>3. W \intersect Written(request[q].writes) = {}
    BY <1>5, <1>16 DEF LockedBy, Open
  <2>4. W \subseteq DOMAIN rules \union Written(w)
    <3>1. Reads(rules, w)
      BY <1>1, <1>2, <1>3, OnIs DEF RequestOK, Request, Writes
    <3> QED BY <1>5, <3>1 DEF Reads, Old
  <2> QED BY <1>14, <1>15, <2>1, <2>2, <2>3, <2>4 DEF Apart
<1>17. ASSUME ~overlap PROVE LoneOK(rules, t) /\ \A q \in Slots \ {s} : ~Open(q)
  <2>1. LoneOK(rules, r) /\ \A q \in Slots \ {s} : ~Open(q)
    BY <1>1, <1>17 DEF PlanIInv, OneAtATime
  <2>2. OneOf(On(rules, v)) /\ Growing(On(rules, v))
    BY <1>1, <1>2, <1>3, <1>5, <1>8, <1>11, <2>1, ActivationSound
  <2>3. Stands(On(rules, v), t)
    BY <1>14, <1>15 DEF Stands
  <2> QED BY <1>14, <2>1, <2>2, <2>3 DEF LoneOK
<1>18. /\ rules' = rules /\ drawn' = drawn /\ overlap' = overlap /\ overlap' \in BOOLEAN
       /\ drawn' \in 0..MaxRules /\ drawn <= drawn'
  BY RowsHere DEF Supersede, PlanIInv, PlanTypes
<1> QED BY <1>10, <1>12, <1>14, <1>16, <1>17, <1>18, StepKeeps

-----------------------------------------------------------------------------
LEMMA InitHolds == PlanInit => PlanIInv
<1> SUFFICES ASSUME PlanInit PROVE PlanIInv
  OBVIOUS
<1>1. /\ DOMAIN rules = {} /\ rules \in [{} -> Rule]
      /\ \A s \in Slots : request[s] = Idle
  BY DEF PlanInit
<1>2. PlanTypes
  <2>1. drawn \in 0..MaxRules /\ request \in [Slots -> Request \union {Idle}] /\ overlap \in BOOLEAN
    <3>1. 0 \in 0..MaxRules
      BY Bounds
    <3> QED BY <3>1 DEF PlanInit
  <2> QED BY <1>1, <2>1 DEF PlanTypes
<1>3. OneAtATime
  BY <1>1 DEF OneAtATime, OneOf, Growing, Open
<1> QED BY <1>1, <1>2, <1>3 DEF PlanIInv, Open

LEMMA NextKeeps == PlanIInv /\ [PlanNext]_planVars => PlanIInv'
<1> SUFFICES ASSUME PlanIInv, [PlanNext]_planVars PROVE PlanIInv'
  OBVIOUS
<1>1. CASE UNCHANGED planVars
  BY <1>1 DEF planVars, PlanIInv, PlanTypes, OneAtATime, Open
<1>2. ASSUME NEW key \in Keys, CreateRule(key) PROVE PlanIInv'
  BY <1>2, CreateRuleKeeps
<1>3. ASSUME NEW i \in DOMAIN rules, DeleteRule(i) PROVE PlanIInv'
  BY <1>3, DeleteRuleKeeps
<1>4. ASSUME NEW s \in Slots, NEW doc \in Docs, NEW force \in BOOLEAN,
             BeginExtract(s, doc, force)
      PROVE  PlanIInv'
  BY <1>4, BeginExtractKeeps
<1>5. ASSUME NEW s \in Slots, NEW doc \in Docs, NEW force \in BOOLEAN,
             SkipExtract(s, doc, force)
      PROVE  PlanIInv'
  BY <1>1, <1>5 DEF SkipExtract
<1>6. ASSUME NEW s \in Slots, NEW proposals \in Proposals, Answer(s, proposals) PROVE PlanIInv'
  BY <1>6, AnswerKeeps
<1>7. ASSUME NEW s \in Slots, NEW doc \in Sources, NEW activate \in BOOLEAN,
             NEW proposals \in Proposals \ {<<>>}, BeginAccept(s, doc, activate, proposals)
      PROVE  PlanIInv'
  BY <1>7, BeginAcceptKeeps
<1>8. ASSUME NEW s \in Slots, StoreNext(s) PROVE PlanIInv'
  BY <1>8, StoreNextKeeps
<1>9. ASSUME NEW s \in Slots, NEW i \in DOMAIN rules, BeginActivate(s, i) PROVE PlanIInv'
  BY <1>9, BeginActivateKeeps
<1>10. ASSUME NEW s \in Slots, FindPriors(s) PROVE PlanIInv'
  BY <1>10, FindPriorsKeeps
<1>11. ASSUME NEW s \in Slots, Supersede(s) PROVE PlanIInv'
  BY <1>11, SupersedeKeeps
<1>12. ASSUME NEW s \in Slots, Commit(s) PROVE PlanIInv'
  BY <1>12, CommitKeeps
<1>13. ASSUME NEW s \in Slots, Abort(s) PROVE PlanIInv'
  BY <1>13, AbortKeeps
<1> QED BY <1>1, <1>2, <1>3, <1>4, <1>5, <1>6, <1>7, <1>8, <1>9, <1>10, <1>11, <1>12, <1>13
        DEF PlanNext

\* What every reachable state of the plan satisfies.
LEMMA PlanInvariance == PlanSpec => []PlanIInv
BY InitHolds, NextKeeps, PTL DEF PlanSpec

LEMMA Implied == PlanIInv => RulesInv
<1> SUFFICES ASSUME PlanIInv PROVE RulesInv
  OBVIOUS
<1>1. PlanTypes /\ ActiveMeansActive
  BY DEF PlanIInv, ActiveMeansActive, ColumnsFit
<1>2. OneRulePerKey
  BY DEF PlanIInv, OneAtATime, OneOf, OneRulePerKey
<1>3. VersionsGrow
  BY DEF PlanIInv, OneAtATime, Growing, ColumnsFit, VersionsGrow
<1> QED BY <1>1, <1>2, <1>3 DEF RulesInv

\* The columns that say which rules are active agree whatever overlaps; and as long as no
\* two requests overlapped, at most one of the rules of manuals is active per key and a rule
\* is newer than the one it superseded.
THEOREM PlanHolds == PlanSpec => []RulesInv
BY PlanInvariance, Implied, PTL

-----------------------------------------------------------------------------
(* What had an active rule keeps one *)

\* A committed row goes, or is superseded by another about the same thing.
LEMMA CommitKeepsPlanned ==
  ASSUME PlanIInv, NEW s \in Slots, Commit(s), NEW key, Planned(key)
  PROVE  Planned(key)'
<1>1. PICK r \in Request : r = request[s] /\ Open(s)
  BY RowsHere DEF PlanIInv, Commit, Running, Open
<1>2. RequestOK(rules, drawn, r) /\ r.writes \in Writes /\ Rows(rules)
      /\ drawn \in 0..MaxRules /\ \A i \in DOMAIN rules : ColumnsFit(rules[i], drawn)
  BY <1>1, RowsHere DEF PlanIInv, Request, Writes
<1>3. PICK qs : qs = On(rules, r.writes)
  OBVIOUS
<1>4. rules' = qs
  BY <1>1, <1>3 DEF Commit, View, On
<1>5. Reads(rules, r.writes)
  BY <1>2, OnIs DEF RequestOK
<1>6. DOMAIN qs = DOMAIN rules \union Written(r.writes)
      /\ \A i \in DOMAIN qs : qs[i].active <=> qs[i].status = "active"
  BY <1>2, <1>3, <1>5, OnFits DEF RequestOK, Reads, ColumnsFit
<1>7. PICK j \in DOMAIN rules : rules[j].key = key /\ rules[j].active /\ rules[j].status = "active"
  BY DEF Planned, ActiveMatching
<1>8. \E i \in DOMAIN qs : qs[i].key = key /\ qs[i].active
  <2>1. CASE j \notin Written(r.writes)
    <3>1. qs[j] = rules[j]
      BY <1>3, <1>5, <2>1 DEF Reads
    <3> QED BY <1>6, <1>7, <3>1
  <2>2. CASE j \in Written(r.writes) /\ r.writes[j] = Superseding
    <3>1. PICK i \in Written(r.writes) : qs[i].key = rules[j].key /\ qs[i].active
      BY <1>2, <1>3, <2>2 DEF RequestOK, Replaces
    <3> QED BY <1>6, <1>7, <3>1
  <2>3. CASE j \in Written(r.writes) /\ r.writes[j] # Superseding
    <3>1. qs[j] = Over(r.writes[j], rules[j]) /\ r.writes[j] \in Write /\ r.writes[j] \notin Rule
          /\ rules[j] \in Rule
      BY <1>3, <1>5, <2>3 DEF Reads
    <3>2. r.writes[j].active = TRUE
      BY <2>3, <3>1, Partial
    <3>3. qs[j].key = key /\ qs[j].active
      BY <1>7, <3>1, <3>2, OverRule
    <3> QED BY <1>6, <3>3
  <2> QED BY <2>1, <2>2, <2>3
<1> QED BY <1>4, <1>6, <1>8 DEF Planned, ActiveMatching

\* The other steps that change rules add one or delete one.
LEMMA StepKeepsPlanned ==
  ASSUME PlanIInv, PlanNext, DOMAIN rules \subseteq DOMAIN rules', NEW key, Planned(key)
  PROVE  Planned(key)'
<1>1. CASE \A i \in DOMAIN rules : rules'[i] = rules[i]
  BY <1>1 DEF Planned, ActiveMatching
<1>2. ASSUME NEW k \in Keys, CreateRule(k) PROVE \A i \in DOMAIN rules : rules'[i] = rules[i]
  <2>1. drawn + 1 \notin DOMAIN rules
    BY RowsHere DEF PlanIInv, PlanTypes
  <2> QED BY <1>2, <2>1 DEF CreateRule
<1>3. ASSUME NEW i \in DOMAIN rules, DeleteRule(i) PROVE FALSE
  BY <1>3 DEF DeleteRule
<1>4. ASSUME NEW s \in Slots, Commit(s) PROVE Planned(key)'
  BY <1>4, CommitKeepsPlanned
<1>5. CASE UNCHANGED rules
  BY <1>1, <1>5
<1> QED BY <1>1, <1>2, <1>3, <1>4, <1>5 DEF PlanNext, BeginExtract, SkipExtract, planVars, Answer,
           BeginAccept, StoreNext, BeginActivate, FindPriors, Supersede, Abort

\* What had an active rule still has one after every step that deletes no rule, whatever
\* transactions overlap: an extraction that commits has put something active in the place
\* of all it supersedes.
THEOREM NothingLost == PlanSpec => NoKeyIsLost
<1>1. PlanIInv /\ [PlanNext]_planVars =>
        [DOMAIN rules \subseteq DOMAIN rules' =>
           \A key \in Keys : Planned(key) => Planned(key)']_planVars
  BY StepKeepsPlanned
<1> QED BY <1>1, PlanInvariance, PTL DEF PlanSpec, NoKeyIsLost

-----------------------------------------------------------------------------
(* RulePassages: members in order *)

\* InOrder is such an arrangement.
LEMMA InOrderIs ==
  ASSUME NEW S, IsFiniteSet(S), NEW R, StrictOrder(R, S)
  PROVE  /\ Arranges(InOrder(S, R), Cardinality(S), S, R)
         /\ InOrder(S, R) \in Seq(S) /\ Len(InOrder(S, R)) = Cardinality(S)
         /\ ToSet(InOrder(S, R)) = S
<1>1. PICK n : n = Cardinality(S) /\ n \in Nat
  BY FS_CardinalityType
<1>2. PICK p : Arranges(p, n, S, R)
  BY <1>1, ArrangementExists
<1>3. p \in [1..n -> S] /\ ToSet(p) = S /\ \A i, j \in DOMAIN p : i < j => <<p[i], p[j]>> \in R
  BY <1>2 DEF Arranges, ToSet
<1>4. PICK q : q = InOrder(S, R)
  OBVIOUS
<1>5. q = CHOOSE a \in [1..n -> S] :
            ToSet(a) = S /\ \A i, j \in DOMAIN a : i < j => <<a[i], a[j]>> \in R
  BY <1>1, <1>4 DEF InOrder
<1>6. q \in [1..n -> S] /\ ToSet(q) = S /\ \A i, j \in DOMAIN q : i < j => <<q[i], q[j]>> \in R
  BY <1>3, <1>5
<1>7. Arranges(q, n, S, R)
  BY <1>1, <1>6 DEF Arranges, ToSet
<1>8. q \in Seq(S) /\ Len(q) = n
  BY <1>1, <1>6
<1> QED BY <1>1, <1>4, <1>6, <1>7, <1>8

-----------------------------------------------------------------------------
(* RulePassages: the characters of a list *)

Piece == [page: Nat, size: Nat]

\* What the first passages take.
Sums(v, n, q, each) ==
  /\ v \in [0..n -> Nat] /\ v[0] = 0
  /\ \A i \in 1..n : v[i] = v[i - 1] + q[i].size + each

LEMMA TotalAlong ==
  ASSUME NEW q \in Seq(Piece), NEW each \in Nat
  PROVE  \E v : Sums(v, Len(q), q, each) /\ Total(q, each) = v[Len(q)]
<1> DEFINE n == Len(q)
           g == [x \in Nat \X Piece |-> x[1] + x[2].size + each]
           c == CHOOSE c : c = [s \in SUBSET (1..n) |->
                  IF s = {} THEN 0 ELSE c[s \ {Max(s)}] + q[Max(s)].size + each]
<1>1. n \in Nat /\ q \in [1..n -> Piece]
  OBVIOUS
<1>2. \A y \in Piece : y.size \in Nat
  BY DEF Piece
<1>3. g \in [Nat \X Piece -> Nat] /\ 0 \in Nat
  BY <1>2
<1>4. \A x \in Nat, y \in Piece : g[<<x, y>>] = x + y.size + each
  OBVIOUS
<1>5. Total(q, each) = c[1..n]
  BY <1>1 DEF Total, FoldLeft, MapThenFoldSet
<1>6. c = CHOOSE d : d = [s \in SUBSET (1..n) |->
             IF s = {} THEN 0 ELSE d[s \ {Max(s)}] + q[Max(s)].size + each]
  OBVIOUS
<1> HIDE DEF g, n, c
<1>7. c = [s \in SUBSET (1..n) |->
             IF s = {} THEN 0 ELSE c[s \ {Max(s)}] + q[Max(s)].size + each]
  <2>1. PICK h, v : /\ FoldsTo(h, 1..n, 0, g, q)
                    /\ Typed(h, 1..n, Nat, Piece, q)
                    /\ Values(v, n, Nat, Piece, 0, g, q)
    BY <1>1, <1>3, FoldAlong
  <2>2. h = [s \in SUBSET (1..n) |->
             IF s = {} THEN 0 ELSE h[s \ {Max(s)}] + q[Max(s)].size + each]
    BY <1>4, <2>1 DEF FoldsTo, Typed
  <2> QED BY <1>6, <2>2
<1>8. FoldsLike(c, 1..n, Nat, Piece, 0, g, q)
  BY <1>4, <1>7 DEF FoldsLike
<1>9. PICK v : Values(v, n, Nat, Piece, 0, g, q) /\ Ends(v, n, c)
  BY <1>1, <1>3, <1>8, FoldRounds
<1>10. \A i \in 1..n : v[i] = v[i - 1] + q[i].size + each
  BY <1>4, <1>9 DEF Values
<1>11. Sums(v, n, q, each) /\ v[n] = c[1..n]
  BY <1>9, <1>10 DEF Values, Ends, Sums
<1> QED BY <1>5, <1>11 DEF n

\* Two lists that agree up to the end of the shorter one take the same up to there.
LEMMA SumsAgree ==
  ASSUME NEW n \in Nat, NEW v, NEW w, NEW m, NEW q, NEW r, NEW each \in Nat,
         m \in Nat, n <= m, Sums(v, m, q, each), Sums(w, n, r, each),
         \A i \in 1..n : r[i].size = q[i].size
  PROVE  v[n] = w[n]
<1> DEFINE G == {i \in 0..n : v[i] = w[i]}
<1>1. 0 \in G
  BY DEF Sums
<1>2. ASSUME NEW i \in 1..n, i - 1 \in G PROVE i \in G
  <2>1. v[i] = v[i - 1] + q[i].size + each
    BY DEF Sums
  <2>2. w[i] = w[i - 1] + r[i].size + each
    BY DEF Sums
  <2>3. i \in 0..n
    OBVIOUS
  <2> QED BY <1>2, <2>1, <2>2, <2>3
<1> HIDE DEF G
<1>3. \A i \in 0..n : i \in G
  BY <1>1, <1>2, NumbersAreGood
<1> USE DEF G
<1> QED BY <1>3

LEMMA TotalIsNumber ==
  ASSUME NEW q \in Seq(Piece), NEW each \in Nat
  PROVE  Total(q, each) \in Nat
<1>1. PICK v : Sums(v, Len(q), q, each) /\ Total(q, each) = v[Len(q)]
  BY TotalAlong
<1>2. Len(q) \in 0..Len(q)
  OBVIOUS
<1> QED BY <1>1, <1>2 DEF Sums

LEMMA TotalOfNone == \A each \in Nat : Total(<<>>, each) = 0
<1> SUFFICES ASSUME NEW each \in Nat PROVE Total(<<>>, each) = 0
  OBVIOUS
<1>0. PICK q : q = <<>>
  OBVIOUS
<1>1. q \in Seq(Piece) /\ Len(q) = 0
  BY <1>0
<1>2. PICK v : Sums(v, Len(q), q, each) /\ Total(q, each) = v[Len(q)]
  BY <1>1, TotalAlong
<1> QED BY <1>0, <1>1, <1>2 DEF Sums

LEMMA TotalAppended ==
  ASSUME NEW q \in Seq(Piece), NEW p \in Piece, NEW each \in Nat
  PROVE  Total(Append(q, p), each) = Total(q, each) + p.size + each
<1>1. PICK r, n : r = Append(q, p) /\ n = Len(q)
  OBVIOUS
<1>2. n \in Nat /\ r \in Seq(Piece) /\ Len(r) = n + 1 /\ r[n + 1] = p /\ \A i \in 1..n : r[i] = q[i]
  BY <1>1
<1>3. PICK v : Sums(v, Len(q), q, each) /\ Total(q, each) = v[Len(q)]
  BY TotalAlong
<1>4. PICK w : Sums(w, Len(r), r, each) /\ Total(r, each) = w[Len(r)]
  BY <1>2, TotalAlong
<1>5. /\ Sums(v, n, q, each) /\ Total(q, each) = v[n]
      /\ Sums(w, n + 1, r, each) /\ Total(r, each) = w[n + 1]
  BY <1>1, <1>2, <1>3, <1>4
<1>6. w[n] = v[n]
  <2>1. n + 1 \in Nat /\ n <= n + 1 /\ \A i \in 1..n : q[i].size = r[i].size
    BY <1>2
  <2> QED BY <1>2, <1>5, <2>1, SumsAgree
<1>7. w[n + 1] = w[(n + 1) - 1] + r[n + 1].size + each
  <2>1. n + 1 \in 1..(n + 1)
    BY <1>2
  <2>2. \A i \in 1..(n + 1) : w[i] = w[i - 1] + r[i].size + each
    BY <1>5, Zenon DEF Sums
  <2> QED BY <2>1, <2>2, Zenon
<1>8. (n + 1) - 1 = n
  BY <1>2
<1>9. Total(r, each) = Total(q, each) + p.size + each
  BY <1>2, <1>5, <1>6, <1>7, <1>8
<1> QED BY <1>1, <1>9

\* The characters of a set of passages, counted.
Lines(P) == UNION {{p} \X (1..p.size) : p \in P}

LEMMA LinesWith ==
  ASSUME NEW P \in SUBSET Piece, IsFiniteSet(Lines(P)), NEW p \in Piece, p \notin P
  PROVE  /\ IsFiniteSet(Lines(P \union {p}))
         /\ Cardinality(Lines(P \union {p})) = Cardinality(Lines(P)) + p.size
<1>1. p.size \in Nat
  BY DEF Piece
<1>2. PICK A, B : A = Lines(P) /\ B = {p} \X (1..p.size)
  OBVIOUS
<1>3. Lines(P \union {p}) = A \union B
  BY <1>2 DEF Lines
<1>4. A \intersect B = {}
  BY <1>2 DEF Lines
<1>5. IsFiniteSet({p}) /\ Cardinality({p}) = 1
  BY FS_Singleton
<1>6. IsFiniteSet(1..p.size) /\ Cardinality(1..p.size) = p.size
  BY <1>1, FS_Interval, SMTT(30)
<1>7. IsFiniteSet(B) /\ Cardinality(B) = 1 * p.size
  BY <1>2, <1>5, <1>6, FS_Product, ZenonT(60)
<1>8. /\ IsFiniteSet(A \union B)
      /\ Cardinality(A \union B) = Cardinality(A) + Cardinality(B) - Cardinality(A \intersect B)
  BY <1>2, <1>7, FS_Union
<1>9. Cardinality(A \intersect B) = 0 /\ Cardinality(A) \in Nat
  BY <1>2, <1>4, FS_EmptySet, FS_CardinalityType
<1>10. Cardinality(B) = p.size
  BY <1>1, <1>7
<1>11. Cardinality(A \union B) = Cardinality(A) + p.size
  <2>1. PICK a, b, c, u : /\ a = Cardinality(A) /\ b = Cardinality(B)
                          /\ c = Cardinality(A \intersect B) /\ u = Cardinality(A \union B)
    OBVIOUS
  <2>2. u = a + b - c /\ c = 0 /\ b = p.size /\ a \in Nat
    BY <1>8, <1>9, <1>10, <2>1
  <2>3. u = a + p.size
    BY <1>1, <2>2
  <2> QED BY <2>1, <2>3
<1> QED BY <1>2, <1>3, <1>8, <1>11

\* Without repetitions the total is that number, in whatever order.
LEMMA TotalCounts ==
  ASSUME NEW q \in Seq(Piece), \A i, j \in 1..Len(q) : q[i] = q[j] => i = j
  PROVE  Total(q, 0) = Cardinality(Lines(ToSet(q)))
<1>1. PICK n : n = Len(q) /\ n \in Nat /\ DOMAIN q = 1..n
  OBVIOUS
<1>2. PICK v : Sums(v, Len(q), q, 0) /\ Total(q, 0) = v[Len(q)]
  BY TotalAlong
<1>3. Sums(v, n, q, 0) /\ Total(q, 0) = v[n]
  BY <1>1, <1>2
<1> DEFINE Some(k) == {q[i] : i \in 1..k}
           G == {k \in 0..n : IsFiniteSet(Lines(Some(k))) /\ v[k] = Cardinality(Lines(Some(k)))}
<1>4. 0 \in G
  <2>1. Lines(Some(0)) = {}
    BY DEF Lines
  <2>2. v[0] = 0
    BY <1>3 DEF Sums
  <2> QED BY <1>1, <2>1, <2>2, FS_EmptySet
<1>5. ASSUME NEW k \in 1..n, k - 1 \in G PROVE k \in G
  <2>1. PICK P, p : P = Some(k - 1) /\ p = q[k]
    OBVIOUS
  <2>2. P \in SUBSET Piece /\ p \in Piece
    BY <1>1, <2>1
  <2>3. p \notin P
    BY <1>1, <2>1
  <2>4. Some(k) = P \union {p}
    BY <1>1, <2>1
  <2>5. IsFiniteSet(Lines(P)) /\ v[k - 1] = Cardinality(Lines(P))
    BY <1>5, <2>1
  <2>6. v[k] = v[k - 1] + p.size + 0
    BY <1>3, <2>1 DEF Sums
  <2>7. /\ IsFiniteSet(Lines(P \union {p}))
        /\ Cardinality(Lines(P \union {p})) = Cardinality(Lines(P)) + p.size
    BY <2>2, <2>3, <2>5, LinesWith
  <2>8. p.size \in Nat /\ Cardinality(Lines(P)) \in Nat
    BY <2>2, <2>5, FS_CardinalityType DEF Piece
  <2>9. v[k] = Cardinality(Lines(P \union {p})) /\ k \in 0..n
    BY <1>1, <2>5, <2>6, <2>7, <2>8
  <2> HIDE DEF Some
  <2> QED BY <2>4, <2>7, <2>9
<1> HIDE DEF G
<1>6. \A k \in 0..n : k \in G
  BY <1>1, <1>4, <1>5, NumbersAreGood
<1> USE DEF G
<1>7. v[n] = Cardinality(Lines(Some(n)))
  BY <1>1, <1>6
<1>8. Some(n) = ToSet(q)
  BY <1>1 DEF ToSet
<1> QED BY <1>3, <1>7, <1>8

-----------------------------------------------------------------------------
(* RulePassages: one round of the loop *)

\* What the loop has taken never exceeds the limit on characters.
Round == {x \in [passages : Seq(Piece), full : BOOLEAN] : SizeOf(x.passages) <= MaxChars}

NoneTaken == [passages |-> <<>>, full |-> FALSE]

\* A passage is the last one that is taken.
TooMuch(x, p) ==
  \/ x.full
  \/ Len(x.passages) >= MaxPassages
  \/ p.size > MaxChars - SizeOf(x.passages) /\ MaxChars - SizeOf(x.passages) < LeastRest

\* It is taken as far as it fits.
Fitted(x, p) == [page |-> p.page, size |-> Min({p.size, MaxChars - SizeOf(x.passages)})]

\* The lesser of two numbers.
LEMMA LesserIs ==
  \A a, b \in Nat : Min({a, b}) \in Nat /\ Min({a, b}) = IF a <= b THEN a ELSE b
<1> SUFFICES ASSUME NEW a \in Nat, NEW b \in Nat
             PROVE  Min({a, b}) \in Nat /\ Min({a, b}) = IF a <= b THEN a ELSE b
  OBVIOUS
<1>1. PICK T, m : T = {a, b} /\ m = Min(T)
  OBVIOUS
<1>2. T \in SUBSET Nat /\ T # {}
  BY <1>1
<1>3. m \in T /\ \A y \in T : m <= y
  BY <1>1, <1>2, MinIs
<1>4. (m = a \/ m = b) /\ m <= a /\ m <= b
  BY <1>1, <1>3
<1>5. m \in Nat /\ m = IF a <= b THEN a ELSE b
  BY <1>4
<1> QED BY <1>1, <1>5

\* The fields of a round, and the room that is left.
LEMMA RoundIs ==
  ASSUME NEW x \in Round
  PROVE  /\ x.passages \in Seq(Piece) /\ x.full \in BOOLEAN
         /\ x = [passages |-> x.passages, full |-> x.full]
         /\ SizeOf(x.passages) \in Nat /\ MaxChars \in Nat
         /\ MaxChars - SizeOf(x.passages) \in Nat
<1>1. /\ x.passages \in Seq(Piece) /\ x.full \in BOOLEAN /\ SizeOf(x.passages) <= MaxChars
      /\ x = [passages |-> x.passages, full |-> x.full]
  BY DEF Round
<1>2. SizeOf(x.passages) \in Nat
  BY <1>1, TotalIsNumber DEF SizeOf
<1>3. MaxChars \in Nat
  BY PassageBounds
<1>4. MaxChars - SizeOf(x.passages) \in Nat
  <2>1. PICK a : a = SizeOf(x.passages)
    OBVIOUS
  <2>2. a \in Nat /\ a <= MaxChars
    BY <1>1, <1>2, <2>1
  <2>3. MaxChars - a \in Nat
    BY <1>3, <2>2
  <2> QED BY <2>1, <2>3
<1> QED BY <1>1, <1>2, <1>3, <1>4

\* A passage that is not taken ends the loop.
LEMMA LoopEnds ==
  ASSUME NEW x \in Round, NEW p \in Piece, TooMuch(x, p)
  PROVE  /\ TakePassage(x, p) = [passages |-> x.passages, full |-> TRUE]
         /\ TakePassage(x, p) \in Round
<1>1. TakePassage(x, p) = [x EXCEPT !.full = TRUE]
  BY DEF TakePassage, TooMuch
<1>2. [x EXCEPT !.full = TRUE] = [passages |-> x.passages, full |-> TRUE]
  <2>1. x \in [passages : Seq(Piece), full : BOOLEAN]
    BY DEF Round
  <2>2. PICK y : y = [x EXCEPT !.full = TRUE]
    OBVIOUS
  <2>3. y \in [passages : Seq(Piece), full : BOOLEAN]
    BY <2>1, <2>2
  <2>4. y.passages = x.passages
    BY <2>1, <2>2
  <2>5. y.full = TRUE
    BY <2>1, <2>2
  <2>6. y = [passages |-> y.passages, full |-> y.full]
    BY <2>3
  <2>7. [passages |-> y.passages, full |-> y.full] = [passages |-> x.passages, full |-> TRUE]
    BY <2>4, <2>5, Zenon
  <2> QED BY <2>2, <2>6, <2>7, Zenon
<1>3. [passages |-> x.passages, full |-> TRUE] \in Round
  BY RoundIs DEF Round
<1> QED BY <1>1, <1>2, <1>3

\* Another one is appended.
LEMMA LoopGoesOn ==
  ASSUME NEW x \in Round, NEW p \in Piece, ~TooMuch(x, p)
  PROVE  /\ TakePassage(x, p) = [passages |-> Append(x.passages, Fitted(x, p)), full |-> FALSE]
         /\ TakePassage(x, p) \in Round /\ Fitted(x, p) \in Piece
         /\ SizeOf(Append(x.passages, Fitted(x, p))) = SizeOf(x.passages) + Fitted(x, p).size
<1>1. PICK rest, e : rest = MaxChars - SizeOf(x.passages) /\ e = Fitted(x, p)
  OBVIOUS
<1>2. rest \in Nat /\ p.size \in Nat /\ p.page \in Nat /\ p = [page |-> p.page, size |-> p.size]
  BY <1>1, RoundIs DEF Piece
<1>3. e = [page |-> p.page, size |-> Min({p.size, rest})]
  BY <1>1 DEF Fitted
<1>4. Min({p.size, rest}) \in Nat /\ Min({p.size, rest}) <= rest
  <2>1. Min({p.size, rest}) \in Nat /\ Min({p.size, rest}) = IF p.size <= rest THEN p.size ELSE rest
    BY <1>2, LesserIs
  <2> QED BY <1>2, <2>1
<1>5. e \in Piece /\ e.size <= rest
  BY <1>2, <1>3, <1>4 DEF Piece
<1>6. [p EXCEPT !.size = Min({p.size, rest})] = e
  BY <1>2, <1>3
<1>7. TakePassage(x, p) =
        [x EXCEPT !.passages = Append(@, [p EXCEPT !.size = Min({p.size, rest})])]
  BY <1>1 DEF TakePassage, TooMuch
<1>8. x.full = FALSE
  BY RoundIs DEF TooMuch
<1>9. TakePassage(x, p) = [passages |-> Append(x.passages, e), full |-> FALSE]
  BY <1>6, <1>7, <1>8, RoundIs
<1>10. SizeOf(Append(x.passages, e)) = SizeOf(x.passages) + e.size
  <2>1. x.passages \in Seq(Piece) /\ SizeOf(x.passages) \in Nat /\ e.size \in Nat /\ 0 \in Nat
    BY <1>5, RoundIs DEF Piece
  <2>2. SizeOf(Append(x.passages, e)) = SizeOf(x.passages) + e.size + 0
    BY <1>5, <2>1, TotalAppended DEF SizeOf
  <2>3. PICK a, b : a = SizeOf(x.passages) /\ b = SizeOf(Append(x.passages, e))
    OBVIOUS
  <2>4. b = a + e.size
    BY <2>1, <2>2, <2>3
  <2> QED BY <2>3, <2>4
<1>11. SizeOf(Append(x.passages, e)) <= MaxChars
  <2>1. PICK a, b : a = SizeOf(x.passages) /\ b = SizeOf(Append(x.passages, e))
    OBVIOUS
  <2>2. b = a + e.size /\ e.size <= MaxChars - a /\ a \in Nat /\ MaxChars \in Nat /\ e.size \in Nat
    BY <1>1, <1>5, <1>10, <2>1, RoundIs DEF Piece
  <2>3. b <= MaxChars
    BY <2>2
  <2> QED BY <2>1, <2>3
<1>12. [passages |-> Append(x.passages, e), full |-> FALSE] \in Round
  <2>1. Append(x.passages, e) \in Seq(Piece)
    BY <1>5, RoundIs
  <2> QED BY <1>11, <2>1 DEF Round
<1> QED BY <1>1, <1>5, <1>9, <1>10, <1>12

\* The values of the loop, one after the other.
Rounds(v, n, q) ==
  /\ v \in [0..n -> Round] /\ v[0] = NoneTaken
  /\ \A i \in 1..n : v[i] = TakePassage(v[i - 1], q[i])

LEMMA LoopAlong ==
  ASSUME NEW q \in Seq(Piece)
  PROVE  \E v : Rounds(v, Len(q), q) /\ FoldLeft(TakePassage, NoneTaken, q) = v[Len(q)]
<1> DEFINE n == Len(q)
           g == [x \in Round \X Piece |-> TakePassage(x[1], x[2])]
           c == CHOOSE c : c = [s \in SUBSET (1..n) |->
                  IF s = {} THEN NoneTaken ELSE TakePassage(c[s \ {Max(s)}], q[Max(s)])]
<1>1. n \in Nat /\ q \in [1..n -> Piece]
  OBVIOUS
<1>2. \A x \in Round, p \in Piece : TakePassage(x, p) \in Round
  BY LoopEnds, LoopGoesOn
<1>3. g \in [Round \X Piece -> Round]
  BY <1>2
<1>4. \A x \in Round, p \in Piece : g[<<x, p>>] = TakePassage(x, p)
  OBVIOUS
<1>5. NoneTaken \in Round
  <2>1. PICK z : z = <<>>
    OBVIOUS
  <2>2. z \in Seq(Piece)
    BY <2>1
  <2>3. SizeOf(z) = 0
    BY <2>1, TotalOfNone DEF SizeOf
  <2>4. SizeOf(z) <= MaxChars
    BY <2>3, PassageBounds
  <2>5. [passages |-> z, full |-> FALSE] \in Round
    BY <2>2, <2>4 DEF Round
  <2> QED BY <2>1, <2>5 DEF NoneTaken
<1>6. FoldLeft(TakePassage, NoneTaken, q) = c[1..n]
  BY <1>1 DEF FoldLeft, MapThenFoldSet
<1>7. c = CHOOSE d : d = [s \in SUBSET (1..n) |->
             IF s = {} THEN NoneTaken ELSE TakePassage(d[s \ {Max(s)}], q[Max(s)])]
  OBVIOUS
<1> HIDE DEF g, n, c
<1>8. c = [s \in SUBSET (1..n) |->
             IF s = {} THEN NoneTaken ELSE TakePassage(c[s \ {Max(s)}], q[Max(s)])]
  <2>1. PICK h, v : /\ FoldsTo(h, 1..n, NoneTaken, g, q)
                    /\ Typed(h, 1..n, Round, Piece, q)
                    /\ Values(v, n, Round, Piece, NoneTaken, g, q)
    BY <1>1, <1>3, <1>5, FoldAlong
  <2>2. h = [s \in SUBSET (1..n) |->
             IF s = {} THEN NoneTaken ELSE TakePassage(h[s \ {Max(s)}], q[Max(s)])]
    BY <1>4, <2>1 DEF FoldsTo, Typed
  <2> QED BY <1>7, <2>2
<1>9. FoldsLike(c, 1..n, Round, Piece, NoneTaken, g, q)
  BY <1>4, <1>8 DEF FoldsLike
<1>10. PICK v : Values(v, n, Round, Piece, NoneTaken, g, q) /\ Ends(v, n, c)
  BY <1>1, <1>3, <1>5, <1>9, FoldRounds
<1>11. \A i \in 1..n : v[i] = TakePassage(v[i - 1], q[i])
  BY <1>4, <1>10 DEF Values
<1>12. Rounds(v, n, q) /\ v[n] = c[1..n]
  BY <1>10, <1>11 DEF Values, Ends, Rounds
<1> QED BY <1>6, <1>12 DEF n

-----------------------------------------------------------------------------
(* RulePassages: what the loop takes *)

\* After k rounds: the first pages that were offered, each as a whole but for the last.
TakenInOrder(P, k, s) ==
  \A i \in 1..Len(P) : P[i].page = s[i].page /\ 1 <= P[i].size /\ P[i].size <= s[i].size
OnlyLastIsCut(P, s) ==
  \A i \in 1..Len(P) :
    P[i].size < s[i].size => i = Len(P) /\ LeastRest <= P[i].size /\ SizeOf(P) = MaxChars
Taking(x, k, s) ==
  /\ Len(x.passages) <= MaxPassages /\ Len(x.passages) <= k
  /\ ~x.full => Len(x.passages) = k
  /\ Len(x.passages) = 0 => k = 0
  /\ k = 0 => x = NoneTaken
  /\ TakenInOrder(x.passages, k, s)
  /\ OnlyLastIsCut(x.passages, s)

\* The first passage is always taken.
LEMMA FirstIsTaken ==
  ASSUME NEW p \in Piece
  PROVE  ~TooMuch(NoneTaken, p)
<1>1. PICK z : z = <<>>
  OBVIOUS
<1>2. SizeOf(z) = 0 /\ Len(z) = 0
  BY <1>1, TotalOfNone DEF SizeOf
<1>3. NoneTaken.passages = z /\ NoneTaken.full = FALSE
  BY <1>1 DEF NoneTaken
<1>4. MaxPassages > 0 /\ MaxChars \in Nat /\ LeastRest \in Nat /\ LeastRest <= MaxChars
  BY PassageBounds
<1>5. ~(0 >= MaxPassages) /\ ~(MaxChars - 0 < LeastRest)
  <2>1. MaxPassages \in Nat
    BY PassageBounds
  <2> QED BY <1>4, <2>1
<1> QED BY <1>2, <1>3, <1>5 DEF TooMuch

LEMMA TakingEnds ==
  ASSUME NEW s \in Seq(Piece), NEW k \in 1..Len(s), NEW x \in Round, Taking(x, k - 1, s),
         TooMuch(x, s[k])
  PROVE  Taking(TakePassage(x, s[k]), k, s)
<1>1. PICK P, y : P = x.passages /\ y = TakePassage(x, s[k])
  OBVIOUS
<1>2. s[k] \in Piece /\ k \in Nat /\ k # 0 /\ P \in Seq(Piece)
  <2>1. Len(s) \in Nat
    OBVIOUS
  <2> QED BY <1>1, <2>1, RoundIs
<1>3. y.passages = P /\ y.full = TRUE
  <2>1. y = [passages |-> P, full |-> TRUE]
    BY <1>1, <1>2, LoopEnds
  <2> QED BY <2>1
<1>4. Len(P) # 0
  <2> SUFFICES ASSUME Len(P) = 0 PROVE FALSE
    OBVIOUS
  <2>1. k - 1 = 0
    BY <1>1 DEF Taking
  <2>2. x = NoneTaken
    BY <2>1 DEF Taking
  <2> QED BY <1>2, <2>2, FirstIsTaken
<1>5. Len(P) <= MaxPassages /\ Len(P) <= k - 1 /\ Len(P) \in Nat
  BY <1>1, <1>2 DEF Taking
<1>6. Len(P) <= k
  BY <1>2, <1>5
<1>7. TakenInOrder(P, k, s) /\ OnlyLastIsCut(P, s)
  BY <1>1 DEF Taking, TakenInOrder
<1>8. Taking(y, k, s)
  BY <1>2, <1>3, <1>4, <1>5, <1>6, <1>7, Zenon DEF Taking
<1> QED BY <1>1, <1>8

LEMMA TakingGoesOn ==
  ASSUME NEW s \in Seq(Piece), \A i \in 1..Len(s) : 1 <= s[i].size, NEW k \in 1..Len(s),
         NEW x \in Round, Taking(x, k - 1, s), ~TooMuch(x, s[k])
  PROVE  Taking(TakePassage(x, s[k]), k, s)
<1>1. PICK P, y, e : P = x.passages /\ y = TakePassage(x, s[k]) /\ e = Fitted(x, s[k])
  OBVIOUS
<1>2. PICK p : p = s[k]
  OBVIOUS
<1>3. p \in Piece /\ k \in Nat /\ k # 0 /\ P \in Seq(Piece) /\ 1 <= p.size /\ Len(P) \in Nat
  <2>1. Len(s) \in Nat
    OBVIOUS
  <2> QED BY <1>1, <1>2, <2>1, RoundIs
<1>4. PICK a : a = SizeOf(P)
  OBVIOUS
<1>5. a \in Nat /\ MaxChars \in Nat /\ MaxChars - a \in Nat /\ LeastRest \in Nat /\ 1 <= LeastRest
  <2>1. LeastRest \in Nat /\ LeastRest # 0
    BY PassageBounds
  <2>2. a \in Nat /\ MaxChars \in Nat /\ MaxChars - a \in Nat
    BY <1>1, <1>4, RoundIs
  <2> QED BY <2>1, <2>2
<1>6. ~x.full /\ ~(Len(P) >= MaxPassages) /\ ~(p.size > MaxChars - a /\ MaxChars - a < LeastRest)
  BY <1>1, <1>2, <1>4 DEF TooMuch
<1>7. Len(P) = k - 1 /\ Len(P) < MaxPassages
  <2>1. MaxPassages \in Nat
    BY PassageBounds
  <2> QED BY <1>1, <1>3, <1>6, <2>1 DEF Taking
<1>8. PICK Q : Q = Append(P, e)
  OBVIOUS
<1>9. /\ y = [passages |-> Q, full |-> FALSE] /\ e \in Piece
      /\ SizeOf(Q) = a + e.size
  BY <1>1, <1>2, <1>3, <1>4, <1>8, LoopGoesOn
<1>10. y.passages = Q /\ y.full = FALSE
  BY <1>9
<1>11. Len(Q) = k /\ Q[k] = e /\ \A i \in 1..(k - 1) : Q[i] = P[i]
  BY <1>3, <1>7, <1>8
<1>12. e.page = p.page /\ e.size = IF p.size <= MaxChars - a THEN p.size ELSE MaxChars - a
  <2>1. p.size \in Nat
    BY <1>3 DEF Piece
  <2>2. PICK r : r = MaxChars - a
    OBVIOUS
  <2>3. r \in Nat
    BY <1>5, <2>2
  <2>4. Min({p.size, r}) = IF p.size <= r THEN p.size ELSE r
    BY <2>1, <2>3, LesserIs
  <2>5. e = [page |-> p.page, size |-> Min({p.size, r})]
    BY <1>1, <1>2, <1>4, <2>2 DEF Fitted
  <2> QED BY <2>2, <2>4, <2>5
<1>13. p.size \in Nat /\ e.size \in Nat
  BY <1>3, <1>9 DEF Piece
<1>14. e.size <= p.size /\ 1 <= e.size
  BY <1>3, <1>5, <1>6, <1>12, <1>13
<1>15. e.size < p.size => LeastRest <= e.size /\ SizeOf(Q) = MaxChars
  BY <1>3, <1>5, <1>6, <1>9, <1>12, <1>13
<1>16. ASSUME NEW i \in 1..(k - 1)
       PROVE  Q[i].page = s[i].page /\ 1 <= Q[i].size /\ Q[i].size <= s[i].size
  BY <1>1, <1>7, <1>11 DEF Taking, TakenInOrder
<1>17. ASSUME NEW i \in 1..(k - 1), Q[i].size < s[i].size PROVE FALSE
  <2>1. P[i].size < s[i].size /\ i \in 1..Len(P)
    BY <1>7, <1>11, <1>17
  <2>2. a = MaxChars
    BY <1>1, <1>4, <2>1 DEF Taking, OnlyLastIsCut
  <2> QED BY <1>3, <1>5, <1>6, <1>13, <2>2
<1>18. TakenInOrder(Q, k, s)
  <2> SUFFICES ASSUME NEW i \in 1..k
               PROVE  Q[i].page = s[i].page /\ 1 <= Q[i].size /\ Q[i].size <= s[i].size
    BY <1>11 DEF TakenInOrder
  <2>1. CASE i = k
    BY <1>2, <1>11, <1>12, <1>14, <2>1
  <2>2. CASE i \in 1..(k - 1)
    BY <1>16, <2>2
  <2> QED BY <1>3, <2>1, <2>2
<1>19. OnlyLastIsCut(Q, s)
  <2> SUFFICES ASSUME NEW i \in 1..k, Q[i].size < s[i].size
               PROVE  i = k /\ LeastRest <= Q[i].size /\ SizeOf(Q) = MaxChars
    BY <1>11 DEF OnlyLastIsCut
  <2>1. i \notin 1..(k - 1)
    BY <1>17
  <2>2. i = k
    BY <1>3, <2>1
  <2> QED BY <1>2, <1>11, <1>15, <2>2
<1>20. Len(Q) <= MaxPassages /\ Len(Q) <= k
  <2>1. MaxPassages \in Nat
    BY PassageBounds
  <2> QED BY <1>3, <1>7, <1>11, <2>1
<1>21. Taking(y, k, s)
  BY <1>3, <1>10, <1>11, <1>18, <1>19, <1>20, Zenon DEF Taking
<1> QED BY <1>1, <1>21

\* What the loop has taken at its end.
LEMMA LoopTakes ==
  ASSUME NEW s \in Seq(Piece), \A i \in 1..Len(s) : 1 <= s[i].size
  PROVE  \E x \in Round : Taking(x, Len(s), s) /\ x = FoldLeft(TakePassage, NoneTaken, s)
<1>1. PICK n : n = Len(s) /\ n \in Nat
  OBVIOUS
<1>2. PICK v : Rounds(v, n, s) /\ FoldLeft(TakePassage, NoneTaken, s) = v[n]
  BY <1>1, LoopAlong
<1> DEFINE G == {k \in 0..n : Taking(v[k], k, s)}
<1>3. 0 \in G
  <2>1. v[0] = NoneTaken
    BY <1>2 DEF Rounds
  <2>2. PICK z : z = <<>>
    OBVIOUS
  <2>3. NoneTaken.passages = z /\ NoneTaken.full = FALSE /\ Len(z) = 0
    BY <2>2 DEF NoneTaken
  <2>4. 0 <= MaxPassages /\ 0 <= 0
    BY PassageBounds
  <2>5. 1..Len(z) = {}
    BY <2>3
  <2>6. TakenInOrder(z, 0, s) /\ OnlyLastIsCut(z, s)
    BY <2>5 DEF TakenInOrder, OnlyLastIsCut
  <2>7. Taking(NoneTaken, 0, s)
    BY <2>3, <2>4, <2>6, Zenon DEF Taking
  <2> QED BY <1>1, <2>1, <2>7
<1>4. ASSUME NEW k \in 1..n, k - 1 \in G PROVE k \in G
  <2>1. PICK x : x = v[k - 1]
    OBVIOUS
  <2>2. x \in Round /\ Taking(x, k - 1, s) /\ k \in 1..Len(s) /\ k \in 0..n
    BY <1>1, <1>2, <1>4, <2>1 DEF Rounds
  <2>3. v[k] = TakePassage(x, s[k])
    BY <1>2, <2>1 DEF Rounds
  <2>4. Taking(TakePassage(x, s[k]), k, s)
    <3>1. CASE TooMuch(x, s[k])
      BY <2>2, <3>1, TakingEnds
    <3>2. CASE ~TooMuch(x, s[k])
      BY <2>2, <3>2, TakingGoesOn
    <3> QED BY <3>1, <3>2
  <2> QED BY <2>2, <2>3, <2>4
<1> HIDE DEF G
<1>5. \A k \in 0..n : k \in G
  BY <1>1, <1>3, <1>4, NumbersAreGood
<1> USE DEF G
<1>6. v[n] \in Round /\ Taking(v[n], n, s)
  BY <1>1, <1>2, <1>5 DEF Rounds
<1> QED BY <1>1, <1>2, <1>6

-----------------------------------------------------------------------------
(* RulePassages: pages and passages *)

BookOK == book \in Seq(Page)

\* The order of the pages, and of the passages.
ByScore == {x \in Worth \X Worth : Before(x[1], x[2])}
ByPage(S) == {x \in S \X S : x[1].page < x[2].page}

LEMMA PageIs ==
  ASSUME BookOK
  PROVE  \A i \in DOMAIN book : /\ i \in Nat /\ book[i].score \in Nat /\ book[i].size \in Nat
                                /\ 1 <= book[i].size
<1> SUFFICES ASSUME NEW i \in DOMAIN book
             PROVE  i \in Nat /\ book[i].score \in Nat /\ book[i].size \in Nat /\ 1 <= book[i].size
  OBVIOUS
<1>1. book[i] \in Page /\ i \in Nat
  BY DEF BookOK
<1>2. book[i].score \in 0..2 /\ book[i].size \in 1..(MaxPageChars + 1)
  BY <1>1 DEF Page, Scores
<1>3. MaxPageChars \in Nat
  BY PassageBounds
<1> QED BY <1>1, <1>2, <1>3

LEMMA PagesAreOrdered ==
  ASSUME BookOK
  PROVE  IsFiniteSet(Worth) /\ StrictOrder(ByScore, Worth)
<1>1. IsFiniteSet(Worth)
  <2>1. DOMAIN book = 1..Len(book) /\ Len(book) \in Nat
    BY DEF BookOK
  <2>2. IsFiniteSet(1..Len(book)) /\ Worth \subseteq 1..Len(book)
    BY <2>1, FS_Interval DEF Worth
  <2> QED BY <2>2, FS_Subset
<1>2. \A i \in Worth : i \in Nat /\ book[i].score \in Nat
  BY PageIs DEF Worth
<1>3. \A i \in Worth : <<i, i>> \notin ByScore
  BY <1>2 DEF ByScore, Before
<1>4. \A i, j \in Worth : i # j => <<i, j>> \in ByScore \/ <<j, i>> \in ByScore
  BY <1>2 DEF ByScore, Before
<1>5. ASSUME NEW i \in Worth, NEW j \in Worth, NEW k \in Worth,
             <<i, j>> \in ByScore, <<j, k>> \in ByScore
      PROVE  <<i, k>> \in ByScore
  <2>1. Before(i, j) /\ Before(j, k)
    BY <1>5 DEF ByScore
  <2>2. Before(i, k)
    BY <1>2, <2>1 DEF Before
  <2> QED BY <2>2 DEF ByScore
<1> QED BY <1>1, <1>3, <1>4, <1>5 DEF StrictOrder

LEMMA PiecesAreOrdered ==
  ASSUME NEW S \in SUBSET Piece, \A p, q \in S : p.page = q.page => p = q
  PROVE  StrictOrder(ByPage(S), S)
<1>1. \A p \in S : p.page \in Nat
  BY DEF Piece
<1>2. \A p \in S : <<p, p>> \notin ByPage(S)
  BY <1>1 DEF ByPage
<1>3. \A p, q \in S : p # q => <<p, q>> \in ByPage(S) \/ <<q, p>> \in ByPage(S)
  <2> SUFFICES ASSUME NEW p \in S, NEW q \in S, p # q
               PROVE  <<p, q>> \in ByPage(S) \/ <<q, p>> \in ByPage(S)
    OBVIOUS
  <2>1. p.page # q.page
    OBVIOUS
  <2>2. p.page < q.page \/ q.page < p.page
    BY <1>1, <2>1
  <2> QED BY <2>2 DEF ByPage
<1>4. ASSUME NEW p \in S, NEW q \in S, NEW r \in S, <<p, q>> \in ByPage(S), <<q, r>> \in ByPage(S)
      PROVE  <<p, r>> \in ByPage(S)
  <2>1. p.page < q.page /\ q.page < r.page
    BY <1>4 DEF ByPage
  <2>2. p.page < r.page
    BY <1>1, <2>1
  <2> QED BY <2>2 DEF ByPage
<1> QED BY <1>2, <1>3, <1>4 DEF StrictOrder

\* The pages that are offered to the loop.
OfferedIs(s, r, n) ==
  /\ s \in Seq(Piece) /\ Len(s) = n /\ n \in Nat /\ Arranges(r, n, Worth, ByScore)
  /\ \A k \in 1..n : /\ s[k].page = r[k] /\ 1 <= s[k].size
                     /\ s[k].size = Min({book[r[k]].size, MaxPageChars})

LEMMA ScoredIs ==
  ASSUME BookOK
  PROVE  OfferedIs(Scored, Ranked, Cardinality(Worth))
<1>1. PICK n, r : n = Cardinality(Worth) /\ r = Ranked
  OBVIOUS
<1>2. StrictOrder(ByScore, Worth) /\ IsFiniteSet(Worth)
  BY PagesAreOrdered
<1>3. n \in Nat
  BY <1>1, <1>2, FS_CardinalityType
<1>4. r = InOrder(Worth, ByScore)
  BY <1>1 DEF Ranked, ByScore
<1>5. Arranges(r, n, Worth, ByScore) /\ r \in Seq(Worth) /\ Len(r) = n
  BY <1>1, <1>2, <1>4, InOrderIs
<1>6. DOMAIN r = 1..n /\ r \in [1..n -> Worth]
  BY <1>5
<1>7. Scored = [k \in 1..n |-> [page |-> r[k], size |-> Min({book[r[k]].size, MaxPageChars})]]
  BY <1>1, <1>6 DEF Scored
<1>8. ASSUME NEW k \in 1..n
      PROVE  /\ r[k] \in Nat /\ Min({book[r[k]].size, MaxPageChars}) \in Nat
             /\ 1 <= Min({book[r[k]].size, MaxPageChars})
  <2>1. PICK i : i = r[k]
    OBVIOUS
  <2>2. i \in DOMAIN book
    BY <1>6, <2>1 DEF Worth
  <2>3. PICK a : a = book[i].size
    OBVIOUS
  <2>4. i \in Nat /\ a \in Nat /\ 1 <= a
    BY <2>2, <2>3, PageIs
  <2>5. MaxPageChars \in Nat /\ MaxPageChars # 0
    BY PassageBounds
  <2>6. /\ Min({a, MaxPageChars}) \in Nat
        /\ Min({a, MaxPageChars}) = IF a <= MaxPageChars THEN a ELSE MaxPageChars
    BY <2>4, <2>5, LesserIs
  <2>7. 1 <= Min({a, MaxPageChars})
    BY <2>4, <2>5, <2>6
  <2> QED BY <2>1, <2>3, <2>4, <2>6, <2>7
<1>9. \A k \in 1..n : [page |-> r[k], size |-> Min({book[r[k]].size, MaxPageChars})] \in Piece
  BY <1>8 DEF Piece
<1>10. PICK s : s = Scored
  OBVIOUS
<1>11. s \in [1..n -> Piece]
  BY <1>7, <1>9, <1>10
<1>12. s \in Seq(Piece) /\ Len(s) = n
  BY <1>3, <1>11
<1>13. ASSUME NEW k \in 1..n
       PROVE  /\ s[k].page = r[k] /\ 1 <= s[k].size
              /\ s[k].size = Min({book[r[k]].size, MaxPageChars})
  <2>1. s[k] = [page |-> r[k], size |-> Min({book[r[k]].size, MaxPageChars})]
    BY <1>7, <1>10
  <2> QED BY <1>8, <2>1
<1>14. OfferedIs(s, r, n)
  BY <1>3, <1>5, <1>12, <1>13 DEF OfferedIs
<1> QED BY <1>1, <1>10, <1>14

\* What was taken, as a list and as a set.
TakenAs(P, s, r, n) ==
  /\ OfferedIs(s, r, n) /\ P \in Seq(Piece) /\ Taken = ToSet(P)
  /\ Len(P) <= MaxPassages /\ Len(P) <= n /\ (Len(P) = 0 => n = 0)
  /\ TakenInOrder(P, n, s) /\ OnlyLastIsCut(P, s) /\ SizeOf(P) <= MaxChars

LEMMA TakenIs ==
  ASSUME BookOK
  PROVE  \E P : TakenAs(P, Scored, Ranked, Cardinality(Worth))
<1>1. PICK s, r, n : s = Scored /\ r = Ranked /\ n = Cardinality(Worth)
  OBVIOUS
<1>2. OfferedIs(s, r, n)
  BY <1>1, ScoredIs
<1>3. s \in Seq(Piece) /\ Len(s) = n /\ \A i \in 1..Len(s) : 1 <= s[i].size
  BY <1>2 DEF OfferedIs
<1>4. PICK x \in Round : Taking(x, Len(s), s) /\ x = FoldLeft(TakePassage, NoneTaken, s)
  BY <1>3, LoopTakes
<1>5. PICK P : P = x.passages
  OBVIOUS
<1>6. Taken = ToSet(P)
  <2>1. Taken = ToSet(FoldLeft(TakePassage, NoneTaken, s).passages)
    BY <1>1 DEF Taken, NoneTaken
  <2> QED BY <1>4, <1>5, <2>1
<1>7. P \in Seq(Piece) /\ SizeOf(P) <= MaxChars
  BY <1>5, RoundIs DEF Round
<1>8. TakenAs(P, s, r, n)
  BY <1>2, <1>3, <1>4, <1>5, <1>6, <1>7 DEF TakenAs, Taking
<1> QED BY <1>1, <1>8

-----------------------------------------------------------------------------
(* RulePassages: what is shown *)

\* The pages that were taken are different ones.
LEMMA TakenOnce ==
  ASSUME BookOK, NEW P, NEW s, NEW r, NEW n, TakenAs(P, s, r, n)
  PROVE  \A i, j \in 1..Len(P) : P[i].page = P[j].page => i = j
<1> SUFFICES ASSUME NEW i \in 1..Len(P), NEW j \in 1..Len(P), P[i].page = P[j].page
             PROVE  i = j
  OBVIOUS
<1>1. P \in Seq(Piece) /\ Len(P) <= n /\ n \in Nat /\ Len(P) \in Nat
  BY DEF TakenAs, OfferedIs
<1>2. i \in 1..n /\ j \in 1..n
  BY <1>1
<1>3. P[i].page = r[i] /\ P[j].page = r[j]
  BY <1>2 DEF TakenAs, TakenInOrder, OfferedIs
<1>4. Arranges(r, n, Worth, ByScore) /\ StrictOrder(ByScore, Worth)
  BY PagesAreOrdered DEF TakenAs, OfferedIs
<1> QED BY <1>2, <1>3, <1>4, ArrangedOnce

\* They are shown in another order, and are as long together as before.
ShownAs(Q, P) ==
  /\ Q \in Seq(Piece) /\ ToSet(Q) = ToSet(P) /\ Len(Q) <= Len(P) /\ SizeOf(Q) = SizeOf(P)
  /\ \A i, j \in 1..Len(Q) : i < j => Q[i].page < Q[j].page

LEMMA PassagesAre ==
  ASSUME BookOK, NEW P, NEW s, NEW r, NEW n, TakenAs(P, s, r, n)
  PROVE  ShownAs(Passages, P)
<1>1. PICK S, Q, m : S = Taken /\ Q = Passages /\ m = Len(P)
  OBVIOUS
<1>2. P \in Seq(Piece) /\ m \in Nat /\ S = ToSet(P) /\ P \in [1..m -> Piece]
  BY <1>1 DEF TakenAs
<1>3. S = {P[i] : i \in 1..m} /\ S \in SUBSET Piece
  BY <1>2 DEF ToSet
<1>4. \A i, j \in 1..m : P[i].page = P[j].page => i = j
  BY <1>1, TakenOnce
<1>5. \A p, q \in S : p.page = q.page => p = q
  BY <1>3, <1>4
<1>6. IsFiniteSet(S) /\ Cardinality(S) <= m
  <2>1. IsFiniteSet(1..m) /\ Cardinality(1..m) = m
    BY <1>2, FS_Interval
  <2>2. P \in Surjection(1..m, S)
    BY <1>2, <1>3 DEF Surjection
  <2> QED BY <2>1, <2>2, FS_Surjection
<1>7. StrictOrder(ByPage(S), S)
  BY <1>3, <1>5, PiecesAreOrdered
<1>8. Q = InOrder(S, ByPage(S))
  BY <1>1 DEF Passages, ByPage
<1>9. /\ Arranges(Q, Cardinality(S), S, ByPage(S)) /\ Q \in Seq(S) /\ Len(Q) = Cardinality(S)
      /\ ToSet(Q) = S
  BY <1>6, <1>7, <1>8, InOrderIs
<1>10. Q \in Seq(Piece) /\ Arranges(Q, Len(Q), S, ByPage(S)) /\ Len(Q) <= m
  <2>1. Q \in Seq(Piece)
    BY <1>3, <1>9
  <2> QED BY <1>6, <1>9, <2>1
<1>11. SizeOf(Q) = SizeOf(P)
  <2>1. \A i, j \in 1..Len(Q) : Q[i] = Q[j] => i = j
    BY <1>7, <1>10, ArrangedOnce
  <2>2. \A i, j \in 1..Len(P) : P[i] = P[j] => i = j
    BY <1>1, <1>4
  <2>3. Total(Q, 0) = Cardinality(Lines(ToSet(Q)))
    BY <1>10, <2>1, TotalCounts
  <2>4. Total(P, 0) = Cardinality(Lines(ToSet(P)))
    BY <1>2, <2>2, TotalCounts
  <2> QED BY <1>2, <1>9, <2>3, <2>4 DEF SizeOf
<1>12. \A i, j \in 1..Len(Q) : i < j => Q[i].page < Q[j].page
  BY <1>10 DEF Arranges, ByPage
<1>13. ShownAs(Q, P)
  BY <1>1, <1>2, <1>9, <1>10, <1>11, <1>12 DEF ShownAs
<1> QED BY <1>1, <1>13

\* What is shown is within the limits, in order, and the best there is.
LEMMA PagesAreFit ==
  ASSUME BookOK
  PROVE  PagesFit(Passages) /\ Passages \in Seq(Piece)
<1>1. PICK P, s, r, n : TakenAs(P, s, r, n)
  BY TakenIs
<1>2. PICK Q, m : Q = Passages /\ m = Len(P)
  OBVIOUS
<1>3. ShownAs(Q, P)
  BY <1>1, <1>2, PassagesAre
<1>4. OfferedIs(s, r, n) /\ P \in Seq(Piece) /\ n \in Nat /\ m \in Nat /\ m <= n
  <2>1. OfferedIs(s, r, n) /\ P \in Seq(Piece) /\ Len(P) <= n
    BY <1>1, Zenon DEF TakenAs
  <2>2. n \in Nat
    BY <2>1, Zenon DEF OfferedIs
  <2> QED BY <1>2, <2>1, <2>2
<1>5. ToSet(Q) = {P[i] : i \in 1..m}
  <2>1. ToSet(P) = {P[i] : i \in 1..m}
    BY <1>2, <1>4 DEF ToSet
  <2>2. ToSet(Q) = ToSet(P)
    BY <1>3, Zenon DEF ShownAs
  <2> QED BY <2>1, <2>2
<1>50. PICK shown : shown = {p.page : p \in ToSet(Q)}
  OBVIOUS
<1>6. shown = {r[i] : i \in 1..m}
  <2>1. ToSet(Q) = {P[i] : i \in 1..m}
    BY <1>5
  <2>2. \A i \in 1..m : P[i].page = r[i]
    <3>1. \A i \in 1..m : P[i].page = s[i].page /\ i \in 1..n
      BY <1>1, <1>2, <1>4 DEF TakenAs, TakenInOrder
    <3> QED BY <1>4, <3>1 DEF OfferedIs
  <2> QED BY <1>50, <2>1, <2>2
<1>7. /\ r \in [1..n -> Worth] /\ \A j \in Worth : \E b \in 1..n : r[b] = j
      /\ \A a, b \in 1..n : a < b => Before(r[a], r[b])
  BY <1>4 DEF OfferedIs, Arranges, ByScore
<1>8. Len(Q) <= MaxPassages /\ SizeOf(Q) <= MaxChars
  <2>1. Len(P) <= MaxPassages /\ SizeOf(P) <= MaxChars
    BY <1>1 DEF TakenAs
  <2>2. Len(Q) <= Len(P) /\ SizeOf(Q) = SizeOf(P) /\ Len(Q) \in Nat
    BY <1>3 DEF ShownAs
  <2>3. MaxPassages \in Nat
    BY PassageBounds
  <2> QED BY <1>2, <1>4, <2>1, <2>2, <2>3
<1>9. \A k \in 1..(Len(Q) - 1) : Q[k].page < Q[k + 1].page
  <2> SUFFICES ASSUME NEW k \in 1..(Len(Q) - 1) PROVE Q[k].page < Q[k + 1].page
    OBVIOUS
  <2>1. Len(Q) \in Nat
    BY <1>3 DEF ShownAs
  <2>2. k \in 1..Len(Q) /\ k + 1 \in 1..Len(Q) /\ k < k + 1
    BY <2>1
  <2> QED BY <1>3, <2>2 DEF ShownAs
<1>10. shown \subseteq Worth
  BY <1>4, <1>6, <1>7
<1>11. Worth # {} => shown # {}
  <2> SUFFICES ASSUME Worth # {}, shown = {} PROVE FALSE
    OBVIOUS
  <2>1. n # 0
    BY <1>4, <1>7
  <2>2. m # 0
    BY <1>1, <1>2, <2>1 DEF TakenAs
  <2>3. 1 \in 1..m
    BY <1>4, <2>2
  <2> QED BY <1>6, <2>3
<1>12. ASSUME NEW i \in shown, NEW j \in Worth \ shown PROVE Before(i, j)
  <2>1. PICK a \in 1..m : r[a] = i
    BY <1>6
  <2>2. PICK b \in 1..n : r[b] = j
    BY <1>7
  <2>3. b \notin 1..m
    BY <1>6, <2>2
  <2>4. a < b /\ a \in 1..n
    BY <1>4, <2>3
  <2> QED BY <1>7, <2>1, <2>2, <2>4
<1>13. ASSUME NEW p \in ToSet(Q), p.size < Min({book[p.page].size, MaxPageChars})
       PROVE  p.size >= LeastRest /\ \A i \in shown \ {p.page} : Before(i, p.page)
  <2>1. PICK k \in 1..m : p = P[k]
    BY <1>5
  <2>2. k \in 1..n /\ P[k].page = r[k] /\ s[k].size = Min({book[r[k]].size, MaxPageChars})
    <3>1. P[k].page = s[k].page /\ k \in 1..n
      BY <1>1, <1>2, <1>4 DEF TakenAs, TakenInOrder
    <3> QED BY <1>4, <3>1 DEF OfferedIs
  <2>3. P[k].size < s[k].size
    BY <1>13, <2>1, <2>2
  <2>4. k = m /\ LeastRest <= P[k].size
    BY <1>1, <1>2, <2>3 DEF TakenAs, OnlyLastIsCut
  <2>5. ASSUME NEW i \in shown \ {p.page} PROVE Before(i, p.page)
    <3>1. PICK a \in 1..m : r[a] = i
      BY <1>6
    <3>2. a # m
      BY <2>1, <2>2, <2>4, <2>5, <3>1
    <3>3. a < m /\ a \in 1..n /\ m \in 1..n
      BY <1>4, <3>2
    <3> QED BY <1>7, <2>1, <2>2, <2>4, <3>1, <3>3
  <2>6. P[k].size \in Nat /\ LeastRest \in Nat
    <3>1. P[k] \in Piece
      BY <1>2, <1>4
    <3>2. LeastRest \in Nat
      BY PassageBounds
    <3> QED BY <3>1, <3>2 DEF Piece
  <2>7. p.size >= LeastRest
    BY <2>1, <2>4, <2>6
  <2> QED BY <2>5, <2>7
<1>14. PagesFit(Q)
  <2>1. /\ Len(Q) <= MaxPassages /\ SizeOf(Q) <= MaxChars
        /\ \A k \in 1..(Len(Q) - 1) : Q[k].page < Q[k + 1].page
    BY <1>8, <1>9
  <2>2. /\ shown \subseteq Worth /\ (Worth # {} => shown # {})
        /\ \A i \in shown, j \in Worth \ shown : Before(i, j)
        /\ \A p \in ToSet(Q) :
             p.size < Min({book[p.page].size, MaxPageChars}) =>
               p.size >= LeastRest /\ \A i \in shown \ {p.page} : Before(i, p.page)
    BY <1>10, <1>11, <1>12, <1>13
  <2> QED BY <1>50, <2>1, <2>2, Zenon DEF PagesFit
<1>15. Q \in Seq(Piece)
  BY <1>3 DEF ShownAs
<1> QED BY <1>2, <1>14, <1>15

-----------------------------------------------------------------------------
(* RulePassages: one more passage *)

\* A batch that is no longer than it may be.
BatchOK(b) ==
  /\ b \in Seq(Piece) /\ b # <<>>
  /\ Len(b) > 1 => BatchSize(b) <= BatchChars
Grouped == {bs \in Seq(Seq(Piece)) : \A k \in 1..Len(bs) : BatchOK(bs[k])}

\* The passage goes into the last batch.
FitsLast(bs, p) ==
  /\ bs # <<>>
  /\ BatchSize(bs[Len(bs)]) + p.size + HeaderChars <= BatchChars

\* The batches are the first k passages.
HoldsFirst(bs, k, q) ==
  \E g : /\ Joins(g, bs, Piece) /\ Len(g[Len(bs)]) = k
         /\ \A i \in 1..k : g[Len(bs)][i] = q[i]

LEMMA BatchSizes ==
  /\ HeaderChars \in Nat /\ BatchChars \in Nat
  /\ \A b \in Seq(Piece) : BatchSize(b) \in Nat
  /\ \A b \in Seq(Piece), p \in Piece :
       BatchSize(Append(b, p)) = BatchSize(b) + p.size + HeaderChars
<1>1. HeaderChars \in Nat /\ BatchChars \in Nat
  BY PassageBounds
<1>2. \A b \in Seq(Piece) : Total(b, HeaderChars) \in Nat
  BY <1>1, TotalIsNumber
<1>3. \A b \in Seq(Piece), p \in Piece :
        Total(Append(b, p), HeaderChars) = Total(b, HeaderChars) + p.size + HeaderChars
  BY <1>1, TotalAppended
<1> QED BY <1>1, <1>2, <1>3 DEF BatchSize

\* A batch of one passage is opened.
LEMMA BatchOpens ==
  ASSUME NEW bs \in Grouped, NEW p \in Piece, ~FitsLast(bs, p)
  PROVE  AddToBatches(bs, p) = Append(bs, <<p>>) /\ AddToBatches(bs, p) \in Grouped
<1>1. bs \in Seq(Seq(Piece)) /\ \A k \in 1..Len(bs) : BatchOK(bs[k])
  BY DEF Grouped
<1>2. AddToBatches(bs, p) = Append(bs, <<p>>)
  <2>1. CASE bs = <<>>
    BY <2>1 DEF AddToBatches
  <2>2. CASE bs # <<>>
    <3>1. Len(bs) \in 1..Len(bs)
      <4>1. Len(bs) # 0
        BY <1>1, <2>2, EmptyIs
      <4>2. Len(bs) \in Nat
        BY <1>1
      <4> QED BY <4>1, <4>2
    <3>2. PICK b : b = bs[Len(bs)]
      OBVIOUS
    <3>3. b \in Seq(Piece)
      BY <1>1, <3>1, <3>2
    <3>4. PICK a : a = BatchSize(b)
      OBVIOUS
    <3>5. a \in Nat /\ HeaderChars \in Nat /\ BatchChars \in Nat
      BY <3>3, <3>4, BatchSizes
    <3>6. ~(a + p.size + HeaderChars <= BatchChars)
      BY <2>2, <3>2, <3>4 DEF FitsLast
    <3>7. p.size \in Nat
      BY DEF Piece
    <3>8. a + p.size + HeaderChars > BatchChars
      BY <3>5, <3>6, <3>7
    <3> QED BY <3>2, <3>4, <3>8 DEF AddToBatches
  <2> QED BY <2>1, <2>2
<1>3. PICK t, cs, m : t = <<p>> /\ cs = Append(bs, t) /\ m = Len(bs)
  OBVIOUS
<1>4. t \in Seq(Piece) /\ Len(t) = 1 /\ m \in Nat
  BY <1>1, <1>3
<1>5. BatchOK(t)
  <2>1. t # <<>>
    BY <1>3
  <2> QED BY <1>4, <2>1 DEF BatchOK
<1>6. cs \in Seq(Seq(Piece)) /\ Len(cs) = m + 1 /\ cs[m + 1] = t /\ \A k \in 1..m : cs[k] = bs[k]
  BY <1>1, <1>3, <1>4
<1>7. ASSUME NEW k \in 1..Len(cs) PROVE BatchOK(cs[k])
  <2>1. CASE k \in 1..m
    <3>1. cs[k] = bs[k] /\ k \in 1..Len(bs)
      BY <1>3, <1>6, <2>1
    <3> QED BY <1>1, <3>1
  <2>2. CASE k = m + 1
    BY <1>5, <1>6, <2>2
  <2> QED BY <1>4, <1>6, <2>1, <2>2
<1>8. cs \in Grouped
  BY <1>6, <1>7 DEF Grouped
<1> QED BY <1>2, <1>3, <1>8

\* The last batch grows.
Grow(bs, p) == [bs EXCEPT ![Len(bs)] = Append(bs[Len(bs)], p)]

LEMMA BatchGrows ==
  ASSUME NEW bs \in Grouped, NEW p \in Piece, FitsLast(bs, p)
  PROVE  /\ AddToBatches(bs, p) = Grow(bs, p) /\ Grow(bs, p) \in Grouped
         /\ Len(bs) \in 1..Len(bs) /\ Len(Grow(bs, p)) = Len(bs)
         /\ Grow(bs, p)[Len(bs)] = Append(bs[Len(bs)], p)
         /\ \A k \in 1..(Len(bs) - 1) : Grow(bs, p)[k] = bs[k]
<1>1. bs \in Seq(Seq(Piece)) /\ \A k \in 1..Len(bs) : BatchOK(bs[k])
  BY DEF Grouped
<1>2. PICK m : m = Len(bs)
  OBVIOUS
<1>3. m \in Nat /\ m \in 1..m
  <2>1. Len(bs) # 0
    BY <1>1, EmptyIs DEF FitsLast
  <2>2. m \in Nat
    BY <1>1, <1>2
  <2> QED BY <1>2, <2>1, <2>2
<1>4. PICK b, c : b = bs[m] /\ c = Append(b, p)
  OBVIOUS
<1>5. b \in Seq(Piece) /\ c \in Seq(Piece) /\ Len(c) = Len(b) + 1
  BY <1>1, <1>2, <1>3, <1>4
<1>6. PICK a : a = BatchSize(b)
  OBVIOUS
<1>7. a \in Nat /\ HeaderChars \in Nat /\ BatchChars \in Nat /\ p.size \in Nat
  BY <1>5, <1>6, BatchSizes DEF Piece
<1>8. a + p.size + HeaderChars <= BatchChars
  BY <1>2, <1>4, <1>6 DEF FitsLast
<1>9. AddToBatches(bs, p) = Grow(bs, p)
  <2>1. ~(a + p.size + HeaderChars > BatchChars)
    BY <1>7, <1>8
  <2>2. bs # <<>>
    BY DEF FitsLast
  <2> QED BY <1>2, <1>4, <1>6, <2>1, <2>2 DEF AddToBatches, Grow
<1>10. BatchOK(c)
  <2>1. BatchSize(c) = a + p.size + HeaderChars
    BY <1>4, <1>5, <1>6, BatchSizes
  <2>2. c # <<>>
    BY <1>5
  <2> QED BY <1>5, <1>8, <2>1, <2>2 DEF BatchOK
<1>11. PICK cs : cs = Grow(bs, p)
  OBVIOUS
<1>12. cs = [bs EXCEPT ![m] = c]
  BY <1>2, <1>4, <1>11 DEF Grow
<1>13. bs \in [1..m -> Seq(Piece)]
  BY <1>1, <1>2
<1>14. cs \in [1..m -> Seq(Piece)] /\ cs[m] = c /\ \A k \in 1..m : k # m => cs[k] = bs[k]
  BY <1>3, <1>5, <1>12, <1>13
<1>15. cs \in Seq(Seq(Piece)) /\ Len(cs) = m
  BY <1>3, <1>14
<1>16. \A k \in 1..m : BatchOK(cs[k])
  BY <1>1, <1>2, <1>10, <1>14
<1>17. cs \in Grouped
  BY <1>15, <1>16 DEF Grouped
<1>18. \A k \in 1..(m - 1) : cs[k] = bs[k]
  BY <1>3, <1>14
<1> QED BY <1>2, <1>3, <1>4, <1>9, <1>11, <1>14, <1>15, <1>17, <1>18

-----------------------------------------------------------------------------
(* RulePassages: the loop over the passages *)

\* One list longer: what was joined before, and one more passage at its end.
LEMMA HoldsOneMore ==
  ASSUME NEW a \in Seq(Piece), NEW p \in Piece, NEW k \in Nat, NEW q, Len(a) = k,
         \A i \in 1..k : a[i] = q[i], q[k + 1] = p
  PROVE  /\ Append(a, p) \in Seq(Piece) /\ Len(Append(a, p)) = k + 1
         /\ \A i \in 1..(k + 1) : Append(a, p)[i] = q[i]
<1>1. PICK b : b = Append(a, p)
  OBVIOUS
<1>2. b \in Seq(Piece) /\ Len(b) = k + 1 /\ b[k + 1] = p /\ \A i \in 1..k : b[i] = a[i]
  BY <1>1
<1>3. \A i \in 1..(k + 1) : b[i] = q[i]
  BY <1>2
<1> QED BY <1>1, <1>2, <1>3

LEMMA HoldsWithNew ==
  ASSUME NEW bs \in Grouped, NEW p \in Piece, NEW k \in Nat, NEW q, HoldsFirst(bs, k, q),
         q[k + 1] = p
  PROVE  HoldsFirst(Append(bs, <<p>>), k + 1, q)
<1>1. PICK m, t, cs : m = Len(bs) /\ t = <<p>> /\ cs = Append(bs, t)
  OBVIOUS
<1>2. bs \in Seq(Seq(Piece)) /\ m \in Nat /\ t \in Seq(Piece)
  BY <1>1 DEF Grouped
<1>3. Len(cs) = m + 1 /\ cs[m + 1] = t /\ \A i \in 1..m : cs[i] = bs[i]
  BY <1>1, <1>2
<1>4. PICK g : Joins(g, bs, Piece) /\ Len(g[m]) = k /\ \A i \in 1..k : g[m][i] = q[i]
  BY <1>1 DEF HoldsFirst
<1>5. /\ g \in [0..m -> Seq(Piece)] /\ g[0] = <<>>
      /\ \A i \in 1..m : g[i] = g[i - 1] \o bs[i]
  BY <1>1, <1>4 DEF Joins
<1>6. PICK a, b : a = g[m] /\ b = Append(a, p)
  OBVIOUS
<1>7. a \in Seq(Piece)
  <2>1. m \in 0..m
    BY <1>2
  <2> QED BY <1>5, <1>6, <2>1
<1>8. b \in Seq(Piece) /\ Len(b) = k + 1 /\ \A i \in 1..(k + 1) : b[i] = q[i]
  BY <1>4, <1>6, <1>7, HoldsOneMore
<1>9. b = a \o t
  BY <1>1, <1>6, <1>7, JoinedAtEnd
<1>10. PICK f : f = [i \in 0..(m + 1) |-> IF i <= m THEN g[i] ELSE b]
  OBVIOUS
<1>11. f \in [0..(m + 1) -> Seq(Piece)] /\ f[m + 1] = b /\ \A i \in 0..m : f[i] = g[i]
  BY <1>2, <1>5, <1>8, <1>10, SMTT(30)
<1>12. f[0] = <<>>
  <2>1. 0 \in 0..m
    BY <1>2
  <2> QED BY <1>5, <1>11, <2>1
<1>13. ASSUME NEW i \in 1..(m + 1) PROVE f[i] = f[i - 1] \o cs[i]
  <2>1. i - 1 \in 0..m
    BY <1>2
  <2>2. f[i - 1] = g[i - 1]
    BY <1>11, <2>1
  <2>3. CASE i = m + 1
    <3>1. i - 1 = m
      BY <1>2, <2>3
    <3> QED BY <1>3, <1>6, <1>9, <1>11, <2>2, <2>3, <3>1
  <2>4. CASE i # m + 1
    <3>1. i \in 1..m /\ i \in 0..m
      BY <1>2, <2>4
    <3> QED BY <1>3, <1>5, <1>11, <2>2, <3>1
  <2> QED BY <2>3, <2>4
<1>14. Joins(f, cs, Piece)
  BY <1>3, <1>11, <1>12, <1>13 DEF Joins
<1>15. HoldsFirst(cs, k + 1, q)
  BY <1>3, <1>8, <1>11, <1>14 DEF HoldsFirst
<1> QED BY <1>1, <1>15

LEMMA HoldsGrown ==
  ASSUME NEW bs \in Grouped, NEW p \in Piece, NEW k \in Nat, NEW q, HoldsFirst(bs, k, q),
         q[k + 1] = p, FitsLast(bs, p)
  PROVE  HoldsFirst(Grow(bs, p), k + 1, q)
<1>1. PICK m, cs : m = Len(bs) /\ cs = Grow(bs, p)
  OBVIOUS
<1>2. bs \in Seq(Seq(Piece)) /\ m \in Nat /\ m \in 1..m
  <2>1. bs \in Seq(Seq(Piece))
    BY DEF Grouped
  <2> QED BY <1>1, <2>1, BatchGrows
<1>3. /\ Len(cs) = m /\ cs[m] = Append(bs[m], p)
      /\ \A i \in 1..(m - 1) : cs[i] = bs[i]
  BY <1>1, BatchGrows
<1>4. PICK g : Joins(g, bs, Piece) /\ Len(g[m]) = k /\ \A i \in 1..k : g[m][i] = q[i]
  BY <1>1 DEF HoldsFirst
<1>5. /\ g \in [0..m -> Seq(Piece)] /\ g[0] = <<>>
      /\ \A i \in 1..m : g[i] = g[i - 1] \o bs[i]
  BY <1>1, <1>4 DEF Joins
<1>6. PICK a, b, c, d : a = g[m] /\ b = Append(a, p) /\ c = g[m - 1] /\ d = bs[m]
  OBVIOUS
<1>7. a \in Seq(Piece) /\ c \in Seq(Piece) /\ d \in Seq(Piece) /\ a = c \o d
  <2>1. m \in 0..m /\ m - 1 \in 0..m
    BY <1>2
  <2>2. a \in Seq(Piece) /\ c \in Seq(Piece)
    BY <1>5, <1>6, <2>1
  <2>3. d \in Seq(Piece)
    BY <1>1, <1>2, <1>6
  <2>4. a = c \o d
    BY <1>2, <1>5, <1>6, Zenon
  <2> QED BY <2>2, <2>3, <2>4
<1>8. b \in Seq(Piece) /\ Len(b) = k + 1 /\ \A i \in 1..(k + 1) : b[i] = q[i]
  <2>1. a \in Seq(Piece) /\ Len(a) = k /\ \A i \in 1..k : a[i] = q[i]
    BY <1>4, <1>6, <1>7
  <2>2. /\ Append(a, p) \in Seq(Piece) /\ Len(Append(a, p)) = k + 1
        /\ \A i \in 1..(k + 1) : Append(a, p)[i] = q[i]
    BY <2>1, HoldsOneMore
  <2> QED BY <1>6, <2>2, Zenon
<1>9. b = c \o Append(d, p)
  <2>1. c \o Append(d, p) = Append(c \o d, p)
    <3>1. c \in Seq(Piece) /\ d \in Seq(Piece)
      BY <1>7
    <3> QED BY <3>1, JoinedAtEnd
  <2> QED BY <1>6, <1>7, <2>1, Zenon
<1>10. PICK f : f = [i \in 0..m |-> IF i < m THEN g[i] ELSE b]
  OBVIOUS
<1>11. f \in [0..m -> Seq(Piece)] /\ f[m] = b /\ \A i \in 0..(m - 1) : f[i] = g[i]
  BY <1>2, <1>5, <1>8, <1>10, SMTT(30)
<1>12. f[0] = <<>>
  <2>1. 0 \in 0..(m - 1)
    BY <1>2
  <2> QED BY <1>5, <1>11, <2>1
<1>13. ASSUME NEW i \in 1..m PROVE f[i] = f[i - 1] \o cs[i]
  <2>1. i - 1 \in 0..(m - 1)
    BY <1>2
  <2>2. f[i - 1] = g[i - 1]
    BY <1>11, <2>1
  <2>3. CASE i = m
    BY <1>3, <1>6, <1>9, <1>11, <2>2, <2>3
  <2>4. CASE i # m
    <3>1. i \in 1..(m - 1) /\ i \in 0..(m - 1)
      BY <1>2, <2>4
    <3> QED BY <1>3, <1>5, <1>11, <2>2, <3>1
  <2> QED BY <2>3, <2>4
<1>14. Joins(f, cs, Piece)
  BY <1>3, <1>11, <1>12, <1>13 DEF Joins
<1>15. HoldsFirst(cs, k + 1, q)
  BY <1>3, <1>8, <1>11, <1>14 DEF HoldsFirst
<1> QED BY <1>1, <1>15

\* The values of the loop over the passages.
BatchRounds(v, n, q) ==
  /\ v \in [0..n -> Grouped] /\ v[0] = <<>>
  /\ \A i \in 1..n : v[i] = AddToBatches(v[i - 1], q[i])

LEMMA BatchesAlong ==
  ASSUME NEW q \in Seq(Piece)
  PROVE  \E v : BatchRounds(v, Len(q), q) /\ Batches(q) = v[Len(q)]
<1> DEFINE n == Len(q)
           g == [x \in Grouped \X Piece |-> AddToBatches(x[1], x[2])]
           c == CHOOSE c : c = [s \in SUBSET (1..n) |->
                  IF s = {} THEN <<>> ELSE AddToBatches(c[s \ {Max(s)}], q[Max(s)])]
<1>1. n \in Nat /\ q \in [1..n -> Piece]
  OBVIOUS
<1>2. \A bs \in Grouped, p \in Piece : AddToBatches(bs, p) \in Grouped
  BY BatchOpens, BatchGrows
<1>3. g \in [Grouped \X Piece -> Grouped]
  BY <1>2
<1>4. \A bs \in Grouped, p \in Piece : g[<<bs, p>>] = AddToBatches(bs, p)
  OBVIOUS
<1>5. <<>> \in Grouped
  <2>1. PICK z : z = <<>>
    OBVIOUS
  <2>2. z \in Seq(Seq(Piece)) /\ Len(z) = 0
    BY <2>1
  <2>3. 1..Len(z) = {}
    BY <2>2
  <2>4. z \in Grouped
    BY <2>2, <2>3 DEF Grouped
  <2> QED BY <2>1, <2>4
<1>6. Batches(q) = c[1..n]
  BY <1>1 DEF Batches, FoldLeft, MapThenFoldSet
<1>7. c = CHOOSE d : d = [s \in SUBSET (1..n) |->
             IF s = {} THEN <<>> ELSE AddToBatches(d[s \ {Max(s)}], q[Max(s)])]
  OBVIOUS
<1> HIDE DEF g, n, c
<1>8. c = [s \in SUBSET (1..n) |->
             IF s = {} THEN <<>> ELSE AddToBatches(c[s \ {Max(s)}], q[Max(s)])]
  <2>1. PICK h, v : /\ FoldsTo(h, 1..n, <<>>, g, q)
                    /\ Typed(h, 1..n, Grouped, Piece, q)
                    /\ Values(v, n, Grouped, Piece, <<>>, g, q)
    BY <1>1, <1>3, <1>5, FoldAlong
  <2>2. h = [s \in SUBSET (1..n) |->
             IF s = {} THEN <<>> ELSE AddToBatches(h[s \ {Max(s)}], q[Max(s)])]
    BY <1>4, <2>1 DEF FoldsTo, Typed
  <2> QED BY <1>7, <2>2
<1>9. FoldsLike(c, 1..n, Grouped, Piece, <<>>, g, q)
  BY <1>4, <1>8 DEF FoldsLike
<1>10. PICK v : Values(v, n, Grouped, Piece, <<>>, g, q) /\ Ends(v, n, c)
  BY <1>1, <1>3, <1>5, <1>9, FoldRounds
<1>11. \A i \in 1..n : v[i] = AddToBatches(v[i - 1], q[i])
  BY <1>4, <1>10 DEF Values
<1>12. BatchRounds(v, n, q) /\ v[n] = c[1..n]
  BY <1>10, <1>11 DEF Values, Ends, BatchRounds
<1> QED BY <1>6, <1>12 DEF n

\* Nothing is lost or repeated on the way into the batches, and none is too long.
LEMMA BatchesAreFit ==
  ASSUME NEW q \in Seq(Piece)
  PROVE  BatchesFit(q)
<1>1. PICK n : n = Len(q) /\ n \in Nat
  OBVIOUS
<1>2. PICK v : BatchRounds(v, n, q) /\ Batches(q) = v[n]
  BY <1>1, BatchesAlong
<1> DEFINE G == {k \in 0..n : HoldsFirst(v[k], k, q)}
<1>3. 0 \in G
  <2>1. PICK z : z = <<>>
    OBVIOUS
  <2>2. z \in Seq(Piece) /\ Len(z) = 0 /\ v[0] = z
    BY <1>2, <2>1 DEF BatchRounds
  <2>3. PICK g : g = [i \in 0..0 |-> z]
    OBVIOUS
  <2>4. g \in [0..0 -> Seq(Piece)] /\ g[0] = z
    BY <2>2, <2>3
  <2>5. Joins(g, z, Piece)
    BY <2>1, <2>2, <2>4 DEF Joins
  <2>6. HoldsFirst(z, 0, q)
    BY <2>2, <2>4, <2>5 DEF HoldsFirst
  <2> QED BY <1>1, <2>2, <2>6
<1>4. ASSUME NEW k \in 1..n, k - 1 \in G PROVE k \in G
  <2>1. PICK bs, p, j : bs = v[k - 1] /\ p = q[k] /\ j = k - 1
    OBVIOUS
  <2>2. bs \in Grouped /\ p \in Piece /\ j \in Nat /\ k = j + 1 /\ k \in 0..n
    BY <1>1, <1>2, <2>1 DEF BatchRounds
  <2>3. HoldsFirst(bs, j, q) /\ q[j + 1] = p
    BY <1>4, <2>1, <2>2
  <2>4. v[k] = AddToBatches(bs, p)
    BY <1>2, <2>1 DEF BatchRounds
  <2>5. HoldsFirst(v[k], j + 1, q)
    <3>1. CASE FitsLast(bs, p)
      <4>1. v[k] = Grow(bs, p)
        BY <2>2, <2>4, <3>1, BatchGrows
      <4> QED BY <2>2, <2>3, <3>1, <4>1, HoldsGrown
    <3>2. CASE ~FitsLast(bs, p)
      <4>1. v[k] = Append(bs, <<p>>)
        BY <2>2, <2>4, <3>2, BatchOpens
      <4> QED BY <2>2, <2>3, <4>1, HoldsWithNew
    <3> QED BY <3>1, <3>2
  <2> QED BY <2>2, <2>5
<1> HIDE DEF G
<1>5. \A k \in 0..n : k \in G
  BY <1>1, <1>3, <1>4, NumbersAreGood
<1> USE DEF G
<1>6. PICK bs : bs = Batches(q)
  OBVIOUS
<1>7. bs \in Grouped /\ HoldsFirst(bs, n, q)
  BY <1>1, <1>2, <1>5, <1>6 DEF BatchRounds
<1>8. bs \in Seq(Seq(Piece)) /\ \A k \in 1..Len(bs) : BatchOK(bs[k])
  BY <1>7 DEF Grouped
<1>9. PICK g : /\ Joins(g, bs, Piece) /\ Len(g[Len(bs)]) = n
               /\ \A i \in 1..n : g[Len(bs)][i] = q[i]
  BY <1>7 DEF HoldsFirst
<1>10. PICK a : a = g[Len(bs)]
  OBVIOUS
<1>11. a \in Seq(Piece)
  <2>1. Len(bs) \in 0..Len(bs)
    BY <1>8
  <2> QED BY <1>9, <1>10, <2>1 DEF Joins
<1>12. a = q
  BY <1>1, <1>9, <1>10, <1>11, SameList
<1>13. FlattenSeq(bs) = q
  BY <1>8, <1>9, <1>10, <1>12, FlattenIs
<1>14. \A k \in DOMAIN bs :
         bs[k] # <<>> /\ (Len(bs[k]) > 1 => BatchSize(bs[k]) <= BatchChars)
  BY <1>8 DEF BatchOK
<1> QED BY <1>6, <1>13, <1>14 DEF BatchesFit

-----------------------------------------------------------------------------
(* RulePassages: the manual beside the plan *)

\* No page is added or removed while the pages become complete.
LEMMA BookHolds == ManualSpec => []BookOK
<1>1. ManualInit => BookOK
  <2> SUFFICES ASSUME ManualInit PROVE BookOK
    OBVIOUS
  <2>1. CASE book = <<>>
    BY <2>1 DEF BookOK
  <2>2. CASE book \in Books
    <3>1. MaxPages \in Nat
      BY PassageBounds
    <3>2. book \in [1..MaxPages -> Page]
      BY <2>2 DEF Books
    <3> QED BY <3>1, <3>2 DEF BookOK
  <2> QED BY <2>1, <2>2 DEF ManualInit
<1>2. BookOK /\ [ManualNext]_<<planVars, book>> => BookOK'
  <2> SUFFICES ASSUME BookOK, [ManualNext]_<<planVars, book>> PROVE BookOK'
    OBVIOUS
  <2>1. CASE UNCHANGED book
    BY <2>1 DEF BookOK
  <2>2. ASSUME NEW i \in DOMAIN book, CompletePage(i) PROVE BookOK'
    <3>1. PICK n, p : n = Len(book) /\ p = [book[i] EXCEPT !.complete = TRUE]
      OBVIOUS
    <3>2. n \in Nat /\ book \in [1..n -> Page] /\ book[i] \in Page
      BY <3>1 DEF BookOK
    <3>3. p \in Page
      BY <3>1, <3>2 DEF Page
    <3>4. book' = [book EXCEPT ![i] = p]
      BY <2>2, <3>1 DEF CompletePage
    <3>5. book' \in [1..n -> Page]
      BY <3>2, <3>3, <3>4
    <3> QED BY <3>2, <3>5 DEF BookOK
  <2> QED BY <2>1, <2>2 DEF ManualNext, BookNext, ReadPages
<1> QED BY <1>1, <1>2, PTL DEF ManualSpec

\* In every state of the manual.
LEMMA PromptsAreFit == BookOK => PromptsFit
BY PagesAreFit, BatchesAreFit DEF PromptsFit

\* The plan goes its way beside the manual.
LEMMA ManualKeepsPlan == ManualSpec => []PlanIInv
<1>1. ManualInit => PlanIInv
  BY InitHolds DEF ManualInit
<1>2. PlanIInv /\ [ManualNext]_<<planVars, book>> => PlanIInv'
  <2>1. [ManualNext]_<<planVars, book>> => [PlanNext]_planVars
    BY DEF ManualNext
  <2> QED BY <2>1, NextKeeps
<1> QED BY <1>1, <1>2, PTL DEF ManualSpec

\* Whatever pages are complete when an extraction reads them: the chat model is shown the
\* best of them, within the limits on passages, pages and characters and in the order of
\* the manual; a page is cut only if it is the last that was taken, and never to less than
\* is worth a line; and the prompts hold these passages once, none of them over its budget
\* but for a single passage that is.  Beside it the rules of the plan stay sound.
THEOREM PromptsHold == ManualSpec => []PlanInv
<1>1. PlanIInv /\ BookOK => PlanInv
  BY Implied, PromptsAreFit DEF PlanInv
<1> QED BY <1>1, ManualKeepsPlan, BookHolds, PTL
=============================================================================
