------------------------ MODULE AttachmentProcessing ------------------------
(***************************************************************************)
(* Background checks of uploaded attachments: the durable job row, the     *)
(* message published after the request commits, the broker, the workers    *)
(* that claim, scan and report, and the user who completes, retries and    *)
(* deletes.                                                                *)
(*                                                                         *)
(* Every operation of the service takes the owner's row lock before it     *)
(* reads the job and holds it until commit, so a transaction is one        *)
(* action.  The steps between transactions are actions of their own:       *)
(* publication, the scan (no lock is held), the recording of a failed      *)
(* publication, and a process that stops at any of these points.           *)
(*                                                                         *)
(* Time is kept as ages, capped where the code stops looking at them.      *)
(***************************************************************************)
EXTENDS Naturals

CONSTANTS
  Attachments,   \* attachment ids
  Workers,       \* worker slots of the Celery process
  Lease,         \* PROCESSING_LEASE_SECONDS, in ticks
  GrantPeriod,   \* _PRESIGN_EXPIRES_SECONDS, in ticks
  MaxAttempts,   \* bound: attempts issued per attachment
  NoTask         \* the task of an idle worker slot

ASSUME PositiveLease == Lease \in Nat \ {0}
ASSUME NaturalBounds == GrantPeriod \in Nat /\ MaxAttempts \in Nat
ASSUME SomeAttachment == Attachments # {}

VARIABLES
  status,    \* attachment row: "pending", "uploaded", or "deleted"
  grant,     \* ticks since the upload grant was issued, capped at GrantPeriod
  job,       \* attachment_processing row of each attachment
  outbox,    \* committed messages the web process has yet to publish
  unsent,    \* messages whose publication raised, failure not yet recorded
  broker,    \* messages Redis holds
  pc,        \* what each worker slot does
  task,      \* the claim a busy worker slot works on
  author     \* history: the attempt that wrote the current outcome

vars == <<status, grant, job, outbox, unsent, broker, pc, task, author>>

-----------------------------------------------------------------------------
ScanResults == {"not_scanned", "clean", "infected"}
ScanStatuses == ScanResults \union {"error"}
InFlight == {"queued", "running"}
Settled == {"completed", "failed"}

Message == [att: Attachments, attempt: 1..MaxAttempts]

Job == [attempt: 0..MaxAttempts,
        state: {"none"} \union InFlight \union Settled,
        scan: ScanStatuses,
        age: 0..Lease]      \* ticks since updated_at, while in flight

\* "raised" stands for a scanner that raised or returned an invalid result.
Task == [msg: Message, result: ScanResults \union {"raised"}, age: 0..Lease]

NoJob == [attempt |-> 0, state |-> "none", scan |-> "not_scanned", age |-> 0]
Busy(w) == pc[w] # "idle"

TypeOK ==
  /\ status \in [Attachments -> {"pending", "uploaded", "deleted"}]
  /\ grant \in [Attachments -> 0..GrantPeriod]
  /\ job \in [Attachments -> Job]
  /\ outbox \subseteq Message
  /\ unsent \subseteq Message
  /\ broker \subseteq Message
  /\ pc \in [Workers -> {"idle", "scanning", "reporting"}]
  /\ task \in [Workers -> Task \union {NoTask}]
  /\ \A w \in Workers : Busy(w) => task[w] \in Task
  /\ author \in [Attachments -> 0..MaxAttempts]

\* An attachment uploaded before checks existed has no job row.
Init ==
  /\ status \in [Attachments -> {"pending", "uploaded"}]
  /\ grant = [a \in Attachments |-> 0]
  /\ job = [a \in Attachments |-> NoJob]
  /\ outbox = {} /\ unsent = {} /\ broker = {}
  /\ pc = [w \in Workers |-> "idle"]
  /\ task = [w \in Workers |-> NoTask]
  /\ author = [a \in Attachments |-> 0]

-----------------------------------------------------------------------------
(* Requests *)

\* Mutant: a lease that never runs out.
LeaseNeverEnds(a) == job[a].state \in InFlight

\* The busy test of queue(retry=True).
LeaseHeld(a) == job[a].state \in InFlight /\ job[a].age < Lease

\* The part of queue() that issues an attempt.  The scan verdict survives.
Enqueue(a) ==
  /\ job[a].attempt < MaxAttempts
  /\ job' = [job EXCEPT ![a] = [attempt |-> job[a].attempt + 1, state |-> "queued",
                                scan |-> job[a].scan, age |-> 0]]
  /\ outbox' = outbox \union {[att |-> a, attempt |-> job[a].attempt + 1]}
  /\ author' = [author EXCEPT ![a] = 0]

\* UploadService.complete: verifies the object, then queues.  Completing twice
\* queues only an attachment that has no job yet.
Complete(a) ==
  /\ status[a] # "deleted"
  /\ job[a].state = "none"
  /\ status' = [status EXCEPT ![a] = "uploaded"]
  /\ Enqueue(a)
  /\ UNCHANGED <<grant, unsent, broker, pc, task>>

\* POST /v1/attachments/{id}/processing
Retry(a) ==
  /\ status[a] = "uploaded"
  /\ ~LeaseHeld(a)
  /\ Enqueue(a)
  /\ UNCHANGED <<status, grant, unsent, broker, pc, task>>

\* AttachmentService.delete: the job row cascades with the attachment.  (The
\* count of attempts stays: attempt ids are never issued again.)
Delete(a) ==
  /\ status[a] # "deleted"
  /\ grant[a] = GrantPeriod
  /\ status' = [status EXCEPT ![a] = "deleted"]
  /\ job' = [job EXCEPT ![a] = [NoJob EXCEPT !.attempt = job[a].attempt]]
  /\ author' = [author EXCEPT ![a] = 0]
  /\ UNCHANGED <<grant, outbox, unsent, broker, pc, task>>

-----------------------------------------------------------------------------
(* finish(): the outcome is kept only for the attempt the row holds, in the *)
(* state the caller expects.                                               *)

\* Mutants: the state, or the attempt, is not compared.
CurrentAnyState(m, state) ==
  status[m.att] # "deleted" /\ job[m.att].attempt = m.attempt
CurrentAnyAttempt(m, state) ==
  status[m.att] # "deleted" /\ job[m.att].state = state

Current(m, state) ==
  /\ status[m.att] # "deleted"
  /\ job[m.att].attempt = m.attempt
  /\ job[m.att].state = state

\* Mutant: a failure to scan hides an infection.
VerdictForgets(old, result) == IF result = "raised" THEN "error" ELSE result

Verdict(old, result) ==
  IF result = "raised" THEN IF old = "infected" THEN old ELSE "error"
  ELSE IF old # "infected" \/ result = "clean" THEN result ELSE old

FinishJob(m, expected, result) ==
  \/ /\ Current(m, expected)
     /\ job' = [job EXCEPT ![m.att] =
                  [attempt |-> job[m.att].attempt, age |-> 0,
                   state |-> IF result = "raised" THEN "failed" ELSE "completed",
                   scan |-> Verdict(job[m.att].scan, result)]]
     /\ author' = [author EXCEPT ![m.att] = m.attempt]
  \/ ~Current(m, expected) /\ UNCHANGED <<job, author>>

-----------------------------------------------------------------------------
(* After commit: dispatch_committed *)

Publish(m) ==
  /\ m \in outbox
  /\ outbox' = outbox \ {m}
  /\ broker' = broker \union {m}
  /\ UNCHANGED <<status, grant, job, unsent, pc, task, author>>

\* send_task raised; the broker may hold the message all the same.
PublishRaises(m) ==
  /\ m \in outbox
  /\ outbox' = outbox \ {m}
  /\ unsent' = unsent \union {m}
  /\ broker' \in {broker, broker \union {m}}
  /\ UNCHANGED <<status, grant, job, pc, task, author>>

\* The failure is recorded in a transaction of its own.
RecordUnsent(m) ==
  /\ m \in unsent
  /\ unsent' = unsent \ {m}
  /\ FinishJob(m, "queued", "raised")
  /\ UNCHANGED <<status, grant, outbox, broker, pc, task>>

\* The web process stops before publishing, or cannot record the failure.
ForgetMessage(m) ==
  /\ m \in outbox \union unsent
  /\ outbox' = outbox \ {m}
  /\ unsent' = unsent \ {m}
  /\ UNCHANGED <<status, grant, job, broker, pc, task, author>>

-----------------------------------------------------------------------------
(* The worker: claim, scan without a lock, report *)

\* Mutant: the claim does not refresh updated_at.
ClaimOnOldLease(w, m) ==
  /\ pc[w] = "idle" /\ m \in broker
  /\ Current(m, "queued") /\ status[m.att] = "uploaded"
  /\ job' = [job EXCEPT ![m.att].state = "running"]
  /\ pc' = [pc EXCEPT ![w] = "scanning"]
  /\ task' = [task EXCEPT ![w] = [msg |-> m, result |-> "raised", age |-> 0]]
  /\ broker' = broker \ {m}
  /\ UNCHANGED <<status, grant, outbox, unsent, author>>

\* The broker may deliver a message it has delivered before.
Claim(w, m) ==
  /\ pc[w] = "idle" /\ m \in broker
  /\ Current(m, "queued") /\ status[m.att] = "uploaded"
  /\ job' = [job EXCEPT ![m.att].state = "running", ![m.att].age = 0]
  /\ pc' = [pc EXCEPT ![w] = "scanning"]
  /\ task' = [task EXCEPT ![w] = [msg |-> m, result |-> "raised", age |-> 0]]
  /\ broker' \in {broker, broker \ {m}}
  /\ UNCHANGED <<status, grant, outbox, unsent, author>>

\* A message that cannot be claimed is acknowledged and dropped.
IgnoreMessage(m) ==
  /\ m \in broker
  /\ ~(Current(m, "queued") /\ status[m.att] = "uploaded")
  /\ broker' = broker \ {m}
  /\ UNCHANGED <<status, grant, job, outbox, unsent, pc, task, author>>

LoseMessage(m) ==
  /\ m \in broker
  /\ broker' = broker \ {m}
  /\ UNCHANGED <<status, grant, job, outbox, unsent, pc, task, author>>

Scan(w) ==
  /\ pc[w] = "scanning"
  /\ pc' = [pc EXCEPT ![w] = "reporting"]
  /\ \E r \in ScanResults \union {"raised"} : task' = [task EXCEPT ![w].result = r]
  /\ UNCHANGED <<status, grant, job, outbox, unsent, broker, author>>

Report(w) ==
  /\ pc[w] = "reporting"
  /\ FinishJob(task[w].msg, "running", task[w].result)
  /\ pc' = [pc EXCEPT ![w] = "idle"]
  /\ task' = [task EXCEPT ![w] = NoTask]
  /\ UNCHANGED <<status, grant, outbox, unsent, broker>>

WorkerStops(w) ==
  /\ Busy(w)
  /\ pc' = [pc EXCEPT ![w] = "idle"]
  /\ task' = [task EXCEPT ![w] = NoTask]
  /\ UNCHANGED <<status, grant, job, outbox, unsent, broker, author>>

-----------------------------------------------------------------------------
Older(age, cap) == IF age < cap THEN age + 1 ELSE age

Tick ==
  /\ grant' = [a \in Attachments |-> Older(grant[a], GrantPeriod)]
  /\ job' = [a \in Attachments |->
               IF job[a].state \in InFlight
               THEN [job[a] EXCEPT !.age = Older(@, Lease)] ELSE job[a]]
  /\ task' = [w \in Workers |->
                IF Busy(w) THEN [task[w] EXCEPT !.age = Older(@, Lease)] ELSE task[w]]
  /\ UNCHANGED <<status, outbox, unsent, broker, pc, author>>

\* What the program does when nothing breaks.
Work ==
  \/ \E a \in Attachments : Complete(a) \/ Retry(a) \/ Delete(a)
  \/ \E m \in Message : Publish(m) \/ RecordUnsent(m) \/ IgnoreMessage(m)
  \/ \E w \in Workers : \/ Scan(w) \/ Report(w)
                        \/ \E m \in Message : Claim(w, m)
  \/ Tick

\* What can go wrong with the attempt that m stands for.
Fault(m) ==
  \/ PublishRaises(m) \/ ForgetMessage(m) \/ LoseMessage(m)
  \/ \E w \in Workers : Busy(w) /\ task[w].msg = m /\ WorkerStops(w)

Next == Work \/ \E m \in Message : Fault(m)

Spec == Init /\ [][Next]_vars

(* For liveness, faults are finite: the last attempt of each attachment is *)
(* spared.  Time passes, processes that have not stopped go on, and the    *)
(* user retries what has stalled; recovery is manual by design.            *)
FewFaultsNext == Work \/ \E m \in Message : m.attempt < MaxAttempts /\ Fault(m)

Fairness ==
  /\ WF_vars(Tick)
  /\ \A m \in Message : /\ WF_vars(Publish(m)) /\ WF_vars(RecordUnsent(m))
                        /\ WF_vars(\E w \in Workers : Claim(w, m))
  /\ \A w \in Workers : WF_vars(Scan(w)) /\ WF_vars(Report(w))
  /\ \A a \in Attachments : WF_vars(Retry(a) /\ job[a].state \in InFlight)

FairSpec == Init /\ [][FewFaultsNext]_vars /\ Fairness

-----------------------------------------------------------------------------
(* Properties *)

\* Claims on the same attempt are exclusive: however often the broker delivers
\* a message, at most one worker slot scans for it (claim() is fenced by state).
OneScannerPerAttempt ==
  \A v, w \in Workers :
    (v # w /\ Busy(v) /\ Busy(w)) => task[v].msg # task[w].msg

\* A worker that scans for the attempt the row holds finds the row "running": a
\* publication failure recorded late cannot fail an attempt that is under way.
LiveClaimIsRunning ==
  \A w \in Workers :
    LET m == task[w].msg IN
    (Busy(w) /\ status[m.att] # "deleted" /\ job[m.att].attempt = m.attempt)
      => job[m.att].state = "running"

\* Two scans of one attachment overlap only after the older one has outlived
\* its lease: retry never supersedes an attempt whose claim is still fresh.
NoEarlyTakeover ==
  \A w \in Workers :
    LET m == task[w].msg IN
    (Busy(w) /\ status[m.att] # "deleted" /\ m.attempt # job[m.att].attempt)
      => task[w].age = Lease

\* The outcome a user reads was written by the attempt the row names, and a row
\* without an outcome was written by none ("stale completion" is fenced).
OutcomeIsCurrent ==
  \A a \in Attachments :
    author[a] = IF job[a].state \in Settled THEN job[a].attempt ELSE 0

\* The outcome of an attempt is final: nothing that arrives after it, a second
\* report or a late publication failure, changes the row again short of a new
\* attempt or the deletion of the file.
OutcomeIsFinal ==
  [][\A a \in Attachments :
       (job[a].state \in Settled /\ job'[a].attempt = job[a].attempt
          /\ status'[a] # "deleted") => job'[a] = job[a]]_vars

\* A known infection is cleared only by a later attempt that completed with a
\* clean verdict: not by a retry, a scanner failure, or a missing scanner.
InfectionIsSticky ==
  [][\A a \in Attachments :
       (job[a].scan = "infected" /\ job'[a].scan # "infected" /\ status'[a] # "deleted")
         => /\ job'[a].state = "completed" /\ job'[a].scan = "clean"
            /\ job[a].state = "running"]_vars

\* A check that is in flight is settled in the end, or its file deleted: losing
\* the message, the broker, the web process or the worker leaves a row that the
\* lease lets the user retry, and no fault leaves one that nobody can.
EventuallySettled ==
  \A a \in Attachments : (job[a].state \in InFlight) ~> (job[a].state \notin InFlight)

\* Each attachment's job implements the abstract fenced job.
Phase(a) == IF status[a] = "deleted" THEN "gone" ELSE job[a].state

Abstract == INSTANCE FencedJob WITH
  Subjects <- Attachments,
  attempt <- [a \in Attachments |-> job[a].attempt],
  phase <- [a \in Attachments |-> Phase(a)]

ImplementsFencedJob == Abstract!JobSpec

\* What holds in every state: the types, claims that are exclusive and alive, and
\* outcomes that are the current attempt's.
Inv ==
  /\ TypeOK
  /\ OneScannerPerAttempt
  /\ LiveClaimIsRunning
  /\ OutcomeIsCurrent
=============================================================================
