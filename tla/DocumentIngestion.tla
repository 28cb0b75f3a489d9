-------------------------- MODULE DocumentIngestion --------------------------
(***************************************************************************)
(* Extraction of a document's pages: the durable job row, the message      *)
(* published after the request commits, and the worker that claims the     *)
(* job, reads one snapshot of the file, commits one page after the other   *)
(* and records the outcome; retries keep the pages that are complete.      *)
(*                                                                         *)
(* As in AttachmentProcessing a transaction runs under the owner's row     *)
(* lock and is one action; the worker's steps between its transactions     *)
(* hold no lock.  Ages stand for clock readings.                           *)
(***************************************************************************)
EXTENDS Naturals

CONSTANTS
  Documents,     \* document ids
  Manuals,       \* those registered as manufacturer manuals
  Workers,       \* worker slots of the Celery process
  PageCount,     \* pages of the file (its hash is checked, so it has no others)
  Lease,         \* PROCESSING_LEASE_SECONDS, in ticks
  MaxAttempts,   \* bound: attempts issued per document
  NoTask         \* the task of an idle worker slot

ASSUME PositiveNumbers == PageCount \in Nat \ {0} /\ Lease \in Nat \ {0}
ASSUME NaturalAttempts == MaxAttempts \in Nat
ASSUME SomeDocument == Documents # {}

VARIABLES
  document,  \* document row: "draft", "active", "archived", or "deleted"
  infected,  \* documents whose file is known to be infected
  job,       \* document_ingestion row of each document
  pages,     \* state of each document_pages row
  rules,     \* documents for which rule extraction has been published
  outbox,    \* committed messages the web process has yet to publish
  unsent,    \* messages whose publication raised, failure not yet recorded
  broker,    \* messages Redis holds
  pc,        \* what each worker slot does
  task,      \* the claim a busy worker slot works on
  author     \* history: the attempt that wrote the current outcome

vars == <<document, infected, job, pages, rules, outbox, unsent, broker, pc, task, author>>
queues == <<outbox, unsent, broker>>
library == <<document, infected>>
slots == <<pc, task>>

-----------------------------------------------------------------------------
Pages == 1..PageCount
PageStates == {"completed", "pending_provider", "failed"}
InFlight == {"queued", "running"}
Settled == {"completed", "partial", "failed"}

Message == [doc: Documents, attempt: 1..MaxAttempts]

Job == [attempt: 0..MaxAttempts,
        state: {"none"} \union InFlight \union Settled,
        count: {0, PageCount},
        age: 0..Lease]      \* ticks since updated_at, while in flight

Task == [msg: Message,
         left: SUBSET Pages,        \* pages to extract: those not complete when claimed
         claimed: BOOLEAN,          \* FALSE when the claim itself raised
         age: 0..Lease]             \* ticks since the worker's last commit

NoJob == [attempt |-> 0, state |-> "none", count |-> 0, age |-> 0]
Busy(w) == pc[w] # "idle"

TypeOK ==
  /\ document \in [Documents -> {"draft", "active", "archived", "deleted"}]
  /\ infected \subseteq Documents
  /\ job \in [Documents -> Job]
  /\ pages \in [Documents -> [Pages -> PageStates \union {"none"}]]
  /\ rules \subseteq Documents
  /\ outbox \subseteq Message /\ unsent \subseteq Message /\ broker \subseteq Message
  /\ pc \in [Workers -> {"idle", "claimed", "opened", "extracting", "raised"}]
  /\ task \in [Workers -> Task \union {NoTask}]
  /\ \A w \in Workers : Busy(w) => task[w] \in Task
  /\ author \in [Documents -> 0..MaxAttempts]

Init ==
  /\ document = [d \in Documents |-> "draft"]
  /\ infected = {}
  /\ job = [d \in Documents |-> NoJob]
  /\ pages = [d \in Documents |-> [p \in Pages |-> "none"]]
  /\ rules = {}
  /\ outbox = {} /\ unsent = {} /\ broker = {}
  /\ pc = [w \in Workers |-> "idle"]
  /\ task = [w \in Workers |-> NoTask]
  /\ author = [d \in Documents |-> 0]

-----------------------------------------------------------------------------
(* The document and its file *)

\* Confirmation of this or of a newer edition, and selection as primary.
SetStatus(d) ==
  /\ document[d] # "deleted"
  /\ \E s \in {"active", "archived"} :
       /\ s = "archived" => document[d] = "active"
       /\ document' = [document EXCEPT ![d] = s]
  /\ UNCHANGED <<infected, job, pages, rules, queues, slots, author>>

\* The file is flagged, or cleared by a later clean scan.
Scanned(d) ==
  /\ document[d] # "deleted"
  /\ infected' \in {infected \union {d}, infected \ {d}}
  /\ UNCHANGED <<document, job, pages, rules, queues, slots, author>>

\* Deleting the file cascades to the document, its job and its pages.
Delete(d) ==
  /\ document[d] # "deleted"
  /\ document' = [document EXCEPT ![d] = "deleted"]
  /\ job' = [job EXCEPT ![d] = [NoJob EXCEPT !.attempt = job[d].attempt]]
  /\ pages' = [pages EXCEPT ![d] = [p \in Pages |-> "none"]]
  /\ author' = [author EXCEPT ![d] = 0]
  /\ UNCHANGED <<infected, rules, queues, slots>>

-----------------------------------------------------------------------------
(* POST /v1/documents/{id}/ingestion and the publication of its message *)

Confirmed(d) == document[d] \in {"active", "archived"}

\* Mutant: a lease that never runs out.
LeaseNeverEnds(d) == job[d].state \in InFlight

LeaseHeld(d) == job[d].state \in InFlight /\ job[d].age < Lease

\* page_count stays from the attempt before.
Queue(d) ==
  /\ Confirmed(d) /\ d \notin infected
  /\ ~LeaseHeld(d)
  /\ job[d].attempt < MaxAttempts
  /\ job' = [job EXCEPT ![d] = [attempt |-> job[d].attempt + 1, state |-> "queued",
                                count |-> job[d].count, age |-> 0]]
  /\ outbox' = outbox \union {[doc |-> d, attempt |-> job[d].attempt + 1]}
  /\ author' = [author EXCEPT ![d] = 0]
  /\ UNCHANGED <<library, pages, rules, unsent, broker, slots>>

\* Mutant: the attempt of the row is not compared.
CurrentAnyAttempt(m, state) ==
  document[m.doc] # "deleted" /\ job[m.doc].state = state

\* _current(): the document exists, and the row holds this attempt in this state.
Current(m, state) ==
  /\ document[m.doc] # "deleted"
  /\ job[m.doc].attempt = m.attempt
  /\ job[m.doc].state = state

\* finish(): writes the outcome of a current attempt, or nothing.
Settle(m, state, outcome) ==
  \/ /\ Current(m, state)
     /\ job' = [job EXCEPT ![m.doc] = [attempt |-> job[m.doc].attempt, state |-> outcome,
                                       count |-> job[m.doc].count, age |-> 0]]
     /\ author' = [author EXCEPT ![m.doc] = m.attempt]
  \/ ~Current(m, state) /\ UNCHANGED <<job, author>>

Publish(m) ==
  /\ m \in outbox
  /\ outbox' = outbox \ {m}
  /\ broker' = broker \union {m}
  /\ UNCHANGED <<library, job, pages, rules, unsent, slots, author>>

\* send_task raised; the broker may hold the message all the same.
PublishRaises(m) ==
  /\ m \in outbox
  /\ outbox' = outbox \ {m}
  /\ unsent' = unsent \union {m}
  /\ broker' \in {broker, broker \union {m}}
  /\ UNCHANGED <<library, job, pages, rules, slots, author>>

\* The failure is recorded in a transaction of its own.
RecordUnsent(m) ==
  /\ m \in unsent
  /\ unsent' = unsent \ {m}
  /\ Settle(m, "queued", "failed")
  /\ UNCHANGED <<library, pages, rules, outbox, broker, slots>>

\* The web process stops before publishing, or cannot record the failure.
ForgetMessage(m) ==
  /\ m \in outbox \union unsent
  /\ outbox' = outbox \ {m}
  /\ unsent' = unsent \ {m}
  /\ UNCHANGED <<library, job, pages, rules, broker, slots, author>>

LoseMessage(m) ==
  /\ m \in broker
  /\ broker' = broker \ {m}
  /\ UNCHANGED <<library, job, pages, rules, outbox, unsent, slots, author>>

-----------------------------------------------------------------------------
(* The worker: pipelines/document_pipeline.py *)

Completed(d) == {p \in Pages : pages[d][p] = "completed"}

Become(w, stage, t) ==
  /\ pc' = [pc EXCEPT ![w] = stage]
  /\ task' = [task EXCEPT ![w] = t]

Leave(w) == Become(w, "idle", NoTask)

\* A commit of the worker refreshes updated_at.
Heartbeat(m, count) ==
  job' = [job EXCEPT ![m.doc] = [attempt |-> job[m.doc].attempt, state |-> "running",
                                 count |-> count, age |-> 0]]

\* Mutant: pages that are complete are extracted again.
ClaimAll(w, m) ==
  /\ pc[w] = "idle" /\ m \in broker
  /\ Current(m, "queued") /\ Confirmed(m.doc) /\ m.doc \notin infected
  /\ Heartbeat(m, job[m.doc].count)
  /\ Become(w, "claimed", [msg |-> m, left |-> Pages, claimed |-> TRUE, age |-> 0])
  /\ broker' = broker \ {m}
  /\ UNCHANGED <<library, pages, rules, outbox, unsent, author>>

\* The broker may deliver a message it has delivered before.
Claim(w, m) ==
  /\ pc[w] = "idle" /\ m \in broker
  /\ Current(m, "queued") /\ Confirmed(m.doc) /\ m.doc \notin infected
  /\ Heartbeat(m, job[m.doc].count)
  /\ Become(w, "claimed",
            [msg |-> m, left |-> Pages \ Completed(m.doc), claimed |-> TRUE, age |-> 0])
  /\ broker' \in {broker, broker \ {m}}
  /\ UNCHANGED <<library, pages, rules, outbox, unsent, author>>

\* claim() raises: the file is blocked, or its transaction fails.
ClaimRaises(w, m) ==
  /\ pc[w] = "idle" /\ m \in broker
  /\ Current(m, "queued")
  /\ Become(w, "raised", [msg |-> m, left |-> {}, claimed |-> FALSE, age |-> 0])
  /\ broker' = broker \ {m}
  /\ UNCHANGED <<library, job, pages, rules, outbox, unsent, author>>

ClaimBlocked(w, m) == (m.doc \in infected) /\ ClaimRaises(w, m)

IgnoreMessage(m) ==
  /\ m \in broker /\ ~Current(m, "queued")
  /\ broker' = broker \ {m}
  /\ UNCHANGED <<library, job, pages, rules, outbox, unsent, slots, author>>

\* One snapshot of the bytes, whose hash is the registered one.
ReadFile(w) ==
  /\ pc[w] = "claimed"
  /\ Become(w, "opened", task[w])
  /\ UNCHANGED <<library, job, pages, rules, queues, author>>

\* What each transaction of a claimed job does first: leave when another
\* attempt has taken over, raise when the file is blocked.
Superseded(w) == ~Current(task[w].msg, "running")

Overtaken(w) ==
  /\ pc[w] \in {"opened", "extracting"} /\ Superseded(w)
  /\ Leave(w)
  /\ UNCHANGED <<library, job, pages, rules, queues, author>>

Blocked(w) ==
  /\ pc[w] \in {"opened", "extracting"} /\ ~Superseded(w)
  /\ task[w].msg.doc \in infected
  /\ Become(w, "raised", task[w])
  /\ UNCHANGED <<library, job, pages, rules, queues, author>>

\* The file cannot be read or is not the registered one, or a transaction fails.
Raise(w) ==
  /\ pc[w] \in {"claimed", "opened", "extracting"}
  /\ Become(w, "raised", task[w])
  /\ UNCHANGED <<library, job, pages, rules, queues, author>>

Ready(w) == ~Superseded(w) /\ task[w].msg.doc \notin infected

StartPages(w) ==
  /\ pc[w] = "opened" /\ Ready(w)
  /\ Heartbeat(task[w].msg, PageCount)
  /\ Become(w, "extracting", [task[w] EXCEPT !.age = 0])
  /\ UNCHANGED <<library, pages, rules, queues, author>>

\* Pages are extracted in order; a page that fails is saved as failed, one that
\* needs OCR nobody has configured as pending.
SavePage(w) ==
  LET d == task[w].msg.doc IN
  /\ pc[w] = "extracting" /\ Ready(w)
  /\ \E p \in task[w].left, s \in PageStates :
       /\ \A q \in task[w].left : p <= q
       /\ pages' = [pages EXCEPT ![d][p] = s]
       /\ Become(w, "extracting", [task[w] EXCEPT !.left = @ \ {p}, !.age = 0])
  /\ Heartbeat(task[w].msg, job[d].count)
  /\ UNCHANGED <<library, rules, queues, author>>

\* Mutant: going through all pages is taken for completing them.
OutcomeDone(d) == "completed"

Outcome(d) == IF Completed(d) = Pages THEN "completed" ELSE "partial"

WantsRules(d) == d \in Manuals /\ document[d] = "active"

\* Mutant: a failed page ends the extraction.
FinishEarly(w) ==
  LET d == task[w].msg.doc IN
  /\ pc[w] = "extracting" /\ Ready(w)
  /\ task[w].left = {} \/ \E p \in Pages : pages[d][p] = "failed"
  /\ Settle(task[w].msg, "running", Outcome(d))
  /\ WantsRules(d) /\ rules' = rules \union {d}
  /\ Leave(w)
  /\ UNCHANGED <<library, pages, queues>>

\* The outcome and the request for rule extraction; publishing it may fail.
Finish(w) ==
  LET d == task[w].msg.doc IN
  /\ pc[w] = "extracting" /\ task[w].left = {} /\ Ready(w)
  /\ Settle(task[w].msg, "running", Outcome(d))
  /\ \/ rules' = rules
     \/ WantsRules(d) /\ rules' = rules \union {d}
  /\ Leave(w)
  /\ UNCHANGED <<library, pages, queues>>

\* Rule extraction is published before the commit, which may fail.
FinishLost(w) ==
  LET d == task[w].msg.doc IN
  /\ pc[w] = "extracting" /\ task[w].left = {} /\ Ready(w)
  /\ WantsRules(d) /\ rules' = rules \union {d}
  /\ Become(w, "raised", task[w])
  /\ UNCHANGED <<library, job, pages, queues, author>>

RecordError(w) ==
  /\ pc[w] = "raised"
  /\ Settle(task[w].msg, IF task[w].claimed THEN "running" ELSE "queued", "failed")
  /\ Leave(w)
  /\ UNCHANGED <<library, pages, rules, queues>>

WorkerStops(w) ==
  /\ Busy(w)
  /\ Leave(w)
  /\ UNCHANGED <<library, job, pages, rules, queues, author>>

-----------------------------------------------------------------------------
Older(age) == IF age < Lease THEN age + 1 ELSE age

Tick ==
  /\ job' = [d \in Documents |->
               IF job[d].state \in InFlight THEN [job[d] EXCEPT !.age = Older(@)] ELSE job[d]]
  /\ task' = [w \in Workers |->
                IF Busy(w) THEN [task[w] EXCEPT !.age = Older(@)] ELSE task[w]]
  /\ UNCHANGED <<library, pages, rules, queues, pc, author>>

Proceed(w) ==
  \/ ReadFile(w) \/ Overtaken(w) \/ Blocked(w) \/ StartPages(w) \/ SavePage(w) \/ Finish(w)
  \/ RecordError(w)

\* What the program does when nothing breaks.
Work ==
  \/ \E d \in Documents : SetStatus(d) \/ Scanned(d) \/ Delete(d) \/ Queue(d)
  \/ \E m \in Message : Publish(m) \/ RecordUnsent(m) \/ IgnoreMessage(m)
  \/ \E w \in Workers : Proceed(w) \/ \E m \in Message : Claim(w, m) \/ ClaimBlocked(w, m)
  \/ Tick

\* What can go wrong with the attempt that m stands for.
Fault(m) ==
  \/ PublishRaises(m) \/ ForgetMessage(m) \/ LoseMessage(m)
  \/ \E w \in Workers : ClaimRaises(w, m)
  \/ \E w \in Workers : /\ Busy(w) /\ task[w].msg = m
                        /\ Raise(w) \/ FinishLost(w) \/ WorkerStops(w)

Next == Work \/ \E m \in Message : Fault(m)

Spec == Init /\ [][Next]_vars

(* For liveness, faults are finite: the last attempt of each document is   *)
(* spared.  Time passes, processes that have not stopped go on, and the    *)
(* user retries what has stalled.                                          *)
FewFaultsNext == Work \/ \E m \in Message : m.attempt < MaxAttempts /\ Fault(m)

Fairness ==
  /\ WF_vars(Tick)
  /\ \A m \in Message :
       /\ WF_vars(Publish(m)) /\ WF_vars(RecordUnsent(m))
       /\ WF_vars(\E w \in Workers : Claim(w, m) \/ ClaimBlocked(w, m))
  /\ \A w \in Workers : WF_vars(Proceed(w))
  /\ \A d \in Documents : WF_vars(Queue(d) /\ job[d].state \in InFlight)

FairSpec == Init /\ [][FewFaultsNext]_vars /\ Fairness

-----------------------------------------------------------------------------
(* Properties *)

\* The attempt a worker slot has claimed, while it works on it.
Claims(w) == Busy(w) /\ task[w].claimed

\* However often a message is delivered, one worker slot extracts for it.
OneWorkerPerAttempt ==
  \A v, w \in Workers :
    (v # w /\ Claims(v) /\ Claims(w)) => task[v].msg # task[w].msg

\* A worker that goes on committing pages is never superseded: another attempt
\* is issued only when its lease has run out since its last commit.
TakeoverAfterSilence ==
  \A w \in Workers :
    LET m == task[w].msg IN
    (Claims(w) /\ document[m.doc] # "deleted" /\ m.attempt # job[m.doc].attempt)
      => task[w].age = Lease

\* "completed" means that every page of the file is stored complete, whatever
\* attempts, workers and failures it took.
CompletedIsWhole ==
  \A d \in Documents :
    job[d].state = "completed" => Completed(d) = Pages /\ job[d].count = PageCount

\* The outcome a user reads was written by the attempt the row names.
OutcomeIsCurrent ==
  \A d \in Documents :
    author[d] = IF job[d].state \in Settled THEN job[d].attempt ELSE 0

\* A page once complete is kept by every retry and by workers that are late; it
\* goes only with the document.  And pages are written only on behalf of an extraction
\* in progress, so that what was indexed or shown after the outcome does not change
\* behind it.
PagesAreStable ==
  [][\A d \in Documents : document'[d] # "deleted" =>
       /\ \A p \in Completed(d) : pages'[d][p] = "completed"
       /\ job[d].state \in Settled => pages'[d] = pages[d]]_vars

\* An extraction in flight is settled, its document deleted, or its file blocked.
EventuallySettled ==
  \A d \in Documents :
    (job[d].state \in InFlight) ~> (job[d].state \notin InFlight \/ d \in infected)

\* Rules are extracted from a manual only when every page of it has been dealt
\* with, also when the outcome itself fails to commit after the publication.
RulesSeeEveryPage ==
  [][\A d \in Documents :
       (d \notin rules /\ d \in rules') => \A p \in Pages : pages[d][p] # "none"]_vars

\* Each document's extraction implements the abstract fenced job.
Phase(d) == IF document[d] = "deleted" THEN "gone" ELSE job[d].state

Abstract == INSTANCE FencedJob WITH
  Subjects <- Documents,
  attempt <- [d \in Documents |-> job[d].attempt],
  phase <- [d \in Documents |-> Phase(d)]

ImplementsFencedJob == Abstract!JobSpec

\* What holds in every state: the types, claims that are exclusive and last until
\* the worker falls silent, and outcomes that are current and true of the pages.
Inv ==
  /\ TypeOK
  /\ OneWorkerPerAttempt
  /\ TakeoverAfterSilence
  /\ OutcomeIsCurrent
  /\ CompletedIsWhole
=============================================================================
