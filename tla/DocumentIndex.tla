---------------------------- MODULE DocumentIndex ----------------------------
(***************************************************************************)
(* Sections, chunks and embeddings of a document: the index job that is    *)
(* bound to one extraction of the pages and to one embedding               *)
(* configuration, the worker that cuts chunks and embeds them in batches,  *)
(* and the extraction it depends on, which may start again at any time.    *)
(*                                                                         *)
(* The extraction is the abstract job of FencedJob, which                  *)
(* DocumentIngestion implements; it rewrites the pages only while it runs. *)
(* Transactions run under the owner's row lock and are one action each.    *)
(***************************************************************************)
EXTENDS Naturals, FiniteSets, Dispatch

CONSTANTS
  Documents,     \* confirmed documents
  Workers,       \* worker slots of the Celery process
  Texts,         \* what the text of a document's complete pages may be
  Blank,         \* the text of pages that have none: no chunks are cut from it
  Chunks,        \* the chunks cut from any other text, by chunk_index
  Batch,         \* the limit of pending()
  Configs,       \* embedding model and version
  Lease,         \* PROCESSING_LEASE_SECONDS, in ticks
  MaxAttempts,   \* bound: index attempts per document
  MaxSources,    \* bound: extractions per document
  NoTask         \* the task of an idle worker slot

ASSUME PositiveNumbers == Batch \in Nat \ {0} /\ Lease \in Nat \ {0}
ASSUME OrderedChunks == Chunks \subseteq Nat
ASSUME NaturalBounds == MaxAttempts \in Nat /\ MaxSources \in Nat
ASSUME BlankIsText == Blank \in Texts

VARIABLES
  source,    \* attempts of the extraction, its phase, and who settled it:
  phase,     \*   the variables of FencedJob
  settler,
  text,      \* the text of the complete pages stored for each document
  infected,  \* documents whose file is known to be infected
  config,    \* the configuration the API runs with
  setup,     \* the configuration each worker slot runs with
  job,       \* document_indexes row of each document
  index,     \* its document_chunks rows
  pc, task,  \* what each worker slot does, and the claim it works on
  author     \* history: the attempt that wrote the current outcome

extraction == <<source, phase, settler, text>>
deployed == <<config, setup>>
slots == <<pc, task>>
rows == <<job, index, author>>
vars == <<extraction, infected, deployed, rows, queues, slots>>

-----------------------------------------------------------------------------
InFlight == {"queued", "running"}
Settled == {"completed", "partial", "failed", "awaiting_configuration"}
Usable == {"completed", "partial"}

Message == [doc: Documents, attempt: 1..MaxAttempts]

Job == [attempt: 0..MaxAttempts,
        source: 0..MaxSources,     \* source_attempt_id
        config: Configs,           \* embedding_model, embedding_version
        state: {"none"} \union InFlight \union Settled,
        age: 0..Lease]             \* ticks since updated_at, while in flight

\* The chunks of a text: the configuration that made the vector of each, and
\* the embedding_model and embedding_version it is labelled with.
Bare == "bare"
Labels == Configs \union {Bare}
Index == [text: Texts, vector: [Chunks -> Labels], label: [Chunks -> Labels]]

Task == [msg: Message,
         text: Texts,              \* the pages read when claiming, until they are cut
         batch: SUBSET Chunks,     \* the chunks being embedded
         error: {"failed", "awaiting_configuration"},
         claimed: BOOLEAN]         \* FALSE when the claim itself raised

AllBare == [c \in Chunks |-> Bare]
NoJob(c) == [attempt |-> 0, source |-> 0, config |-> c, state |-> "none", age |-> 0]
NoIndex == [text |-> Blank, vector |-> AllBare, label |-> AllBare]
Busy(w) == pc[w] # "idle"

Source == INSTANCE FencedJob WITH
  Subjects <- Documents, attempt <- source, author <- settler

TypeOK ==
  /\ source \in [Documents -> 0..MaxSources]
  /\ phase \in [Documents -> {"none", "gone"} \union InFlight \union Settled]
  /\ settler \in [Documents -> 0..MaxSources]
  /\ text \in [Documents -> Texts]
  /\ infected \subseteq Documents
  /\ config \in Configs /\ setup \in [Workers -> Configs]
  /\ job \in [Documents -> Job]
  /\ index \in [Documents -> Index]
  /\ outbox \subseteq Message /\ unsent \subseteq Message /\ broker \subseteq Message
  /\ pc \in [Workers -> {"idle", "claimed", "looping", "embedding", "done", "raised"}]
  /\ task \in [Workers -> Task \union {NoTask}]
  /\ \A w \in Workers : Busy(w) => task[w] \in Task
  /\ author \in [Documents -> 0..MaxAttempts]

Init ==
  /\ Source!JobInit
  /\ text = [d \in Documents |-> Blank]
  /\ infected = {}
  /\ config \in Configs
  /\ setup = [w \in Workers |-> config]
  /\ job = [d \in Documents |-> NoJob(config)]
  /\ index = [d \in Documents |-> NoIndex]
  /\ QueuesEmpty
  /\ pc = [w \in Workers |-> "idle"]
  /\ task = [w \in Workers |-> NoTask]
  /\ author = [d \in Documents |-> 0]

-----------------------------------------------------------------------------
(* The surroundings: extraction, scans, deployments *)

Exists(d) == phase[d] # "gone"

\* The extraction goes on as FencedJob says, short of deletion.
Extract(d) ==
  /\ \/ source[d] < MaxSources /\ Source!Issue(d)
     \/ Source!Start(d)
     \/ Source!Settle(d) /\ phase'[d] # "awaiting_configuration"
  /\ UNCHANGED <<text, infected, deployed, rows, queues, slots>>

\* Pages are written only while it runs: see PagesAreStable.
WritePages(d) ==
  /\ phase[d] = "running"
  /\ \E t \in Texts : text' = [text EXCEPT ![d] = t]
  /\ UNCHANGED <<source, phase, settler, infected, deployed, rows, queues, slots>>

Scanned(d) ==
  /\ Exists(d)
  /\ infected' \in {infected \union {d}, infected \ {d}}
  /\ UNCHANGED <<extraction, deployed, rows, queues, slots>>

\* Deleting the file cascades to all rows of the document.
Delete(d) ==
  /\ Source!Discard(d)
  /\ text' = [text EXCEPT ![d] = Blank]
  /\ job' = [job EXCEPT ![d] = [NoJob(config) EXCEPT !.attempt = job[d].attempt]]
  /\ index' = [index EXCEPT ![d] = NoIndex]
  /\ author' = [author EXCEPT ![d] = 0]
  /\ UNCHANGED <<infected, deployed, queues, slots>>

\* The API is started with another configuration; each worker follows when it
\* is started anew.
Reconfigure ==
  /\ config' \in Configs \ {config}
  /\ UNCHANGED <<extraction, infected, setup, rows, queues, slots>>

-----------------------------------------------------------------------------
(* POST /v1/documents/{id}/index and the publication of its message *)

\* Mutant: a lease that never runs out.
LeaseNeverEnds(d) == job[d].state \in InFlight

Stale(d) == job[d].source # source[d] \/ job[d].config # config

LeaseHeld(d) == ~Stale(d) /\ job[d].state \in InFlight /\ job[d].age < Lease

Queue(d) ==
  /\ d \notin infected /\ phase[d] \in Usable
  /\ ~LeaseHeld(d)
  /\ job[d].attempt < MaxAttempts
  /\ job' = [job EXCEPT ![d] = [attempt |-> job[d].attempt + 1, source |-> source[d],
                                config |-> config, state |-> "queued", age |-> 0]]
  /\ author' = [author EXCEPT ![d] = 0]
  /\ Enqueue([doc |-> d, attempt |-> job[d].attempt + 1])
  /\ UNCHANGED <<extraction, infected, deployed, index, slots>>

\* Mutants of _current(): the attempt, or the extraction the job is bound to, is
\* not compared.
CurrentAnyAttempt(m, state) ==
  /\ job[m.doc].state = state
  /\ job[m.doc].source = source[m.doc] /\ phase[m.doc] \in Usable

CurrentAnySource(m, state) ==
  Exists(m.doc) /\ job[m.doc].state = state /\ job[m.doc].attempt = m.attempt

\* _current(): the row holds this attempt in this state, and the extraction it
\* is bound to is the newest and has settled with pages.
Current(m, state) ==
  /\ job[m.doc].state = state
  /\ job[m.doc].attempt = m.attempt
  /\ job[m.doc].source = source[m.doc]
  /\ phase[m.doc] \in Usable

\* finish(): writes the outcome of a current attempt, or nothing.
Settle(m, state, outcome) ==
  \/ /\ Current(m, state)
     /\ job' = [job EXCEPT ![m.doc] = [job[m.doc] EXCEPT !.state = outcome, !.age = 0]]
     /\ author' = [author EXCEPT ![m.doc] = m.attempt]
  \/ ~Current(m, state) /\ UNCHANGED <<job, author>>

Publish(m) == Send(m) /\ UNCHANGED <<extraction, infected, deployed, rows, slots>>

PublishRaises(m) == SendRaises(m) /\ UNCHANGED <<extraction, infected, deployed, rows, slots>>

RecordUnsent(m) ==
  /\ TakeUnsent(m)
  /\ Settle(m, "queued", "failed")
  /\ UNCHANGED <<extraction, infected, deployed, index, slots>>

ForgetMessage(m) == Forget(m) /\ UNCHANGED <<extraction, infected, deployed, rows, slots>>

LoseMessage(m) == Drop(m) /\ UNCHANGED <<extraction, infected, deployed, rows, slots>>

-----------------------------------------------------------------------------
(* The worker: pipelines/document_index.py *)

Become(w, stage, t) ==
  /\ pc' = [pc EXCEPT ![w] = stage]
  /\ task' = [task EXCEPT ![w] = t]

Leave(w) == Become(w, "idle", NoTask)

\* A commit of the worker refreshes updated_at.
Heartbeat(d) ==
  job' = [job EXCEPT ![d] = [job[d] EXCEPT !.state = "running", !.age = 0]]

NewTask(m) ==
  [msg |-> m, text |-> text[m.doc], batch |-> {}, error |-> "failed", claimed |-> TRUE]

Claim(w, m) ==
  /\ pc[w] = "idle" /\ Deliver(m)
  /\ Current(m, "queued") /\ m.doc \notin infected
  /\ job[m.doc].config = setup[w]
  /\ Heartbeat(m.doc)
  /\ Become(w, "claimed", NewTask(m))
  /\ UNCHANGED <<extraction, infected, deployed, index, author>>

\* claim() raises: the file is blocked, the worker runs with a configuration
\* that is not the job's, or the transaction fails.
ClaimRaises(w, m) ==
  /\ pc[w] = "idle" /\ Drop(m)
  /\ Current(m, "queued")
  /\ Become(w, "raised", [NewTask(m) EXCEPT !.claimed = FALSE])
  /\ UNCHANGED <<extraction, infected, deployed, rows>>

ClaimRefused(w, m) ==
  /\ m.doc \in infected \/ job[m.doc].config # setup[w]
  /\ ClaimRaises(w, m)

IgnoreMessage(m) ==
  /\ Drop(m) /\ ~Current(m, "queued")
  /\ UNCHANGED <<extraction, infected, deployed, rows, slots>>

\* What each transaction of a claimed job does first: leave when the job is no
\* longer its own, raise when the file is blocked.
Superseded(w) == ~Current(task[w].msg, "running")
Ready(w) == ~Superseded(w) /\ task[w].msg.doc \notin infected

Overtaken(w) ==
  /\ pc[w] \in {"claimed", "looping", "embedding", "done"} /\ Superseded(w)
  /\ Leave(w)
  /\ UNCHANGED <<extraction, infected, deployed, rows, queues>>

Blocked(w) ==
  /\ pc[w] \in {"claimed", "looping", "embedding", "done"} /\ ~Superseded(w)
  /\ task[w].msg.doc \in infected
  /\ Become(w, "raised", task[w])
  /\ UNCHANGED <<extraction, infected, deployed, rows, queues>>

\* The file is not the registered one, the provider fails, or a transaction does.
Raise(w) ==
  /\ pc[w] \in {"claimed", "looping", "embedding", "done"}
  /\ Become(w, "raised", task[w])
  /\ UNCHANGED <<extraction, infected, deployed, rows, queues>>

\* A vector is reused for the same words under the job's configuration.
Reusable(d, c) == index[d].label[c] = job[d].config

\* The chunks must be cut from the text stored now.  A chunk of another text
\* may happen to have the same words.
Prepare(w) ==
  LET d == task[w].msg.doc
      cache == {c \in Chunks : Reusable(d, c)} IN
  /\ pc[w] = "claimed" /\ Ready(w)
  /\ task[w].text = text[d]
  /\ \E same \in SUBSET cache :
       /\ index[d].text = text[d] => same = cache
       /\ text[d] = Blank => same = {}
       /\ index' = [index EXCEPT ![d] =
            [text |-> text[d],
             vector |-> [c \in Chunks |-> IF c \in same THEN index[d].vector[c] ELSE Bare],
             label |-> [c \in Chunks |-> IF c \in same THEN job[d].config ELSE Bare]]]
  /\ Heartbeat(d)
  /\ Become(w, "looping", [task[w] EXCEPT !.text = Blank])
  /\ UNCHANGED <<extraction, infected, deployed, queues, author>>

\* The chunks a document has, and those without a vector.
Cut(d) == IF index[d].text = Blank THEN {} ELSE Chunks

\* Mutant: chunks that have a vector are embedded again.
PendingAll(d) == Cut(d)

Pending(d) == {c \in Cut(d) : index[d].vector[c] = Bare}

\* pending(): the next batch in the order of the chunks, or none.  It commits, so
\* the lease is renewed.
TakeBatch(w) ==
  LET d == task[w].msg.doc IN
  /\ pc[w] = "looping" /\ Ready(w)
  /\ LET b == {c \in Pending(d) : Cardinality({e \in Pending(d) : e < c}) < Batch} IN
       Become(w, IF b = {} THEN "done" ELSE "embedding", [task[w] EXCEPT !.batch = b])
  /\ Heartbeat(d)
  /\ UNCHANGED <<extraction, infected, deployed, index, queues, author>>

\* embed() raises when the worker has no API key; the key is a setting of its
\* own, beside the model and its version.
Unconfigured(w) ==
  /\ pc[w] = "embedding"
  /\ Become(w, "raised", [task[w] EXCEPT !.error = "awaiting_configuration"])
  /\ UNCHANGED <<extraction, infected, deployed, rows, queues>>

\* embed() has answered, outside any transaction; the answer is saved.
SaveEmbeddings(w) ==
  LET d == task[w].msg.doc
      done == task[w].batch IN
  /\ pc[w] = "embedding" /\ Ready(w)
  /\ index' = [index EXCEPT ![d] =
       [text |-> index[d].text,
        vector |-> [c \in Chunks |-> IF c \in done THEN setup[w] ELSE index[d].vector[c]],
        label |-> [c \in Chunks |-> IF c \in done THEN job[d].config ELSE index[d].label[c]]]]
  /\ Heartbeat(d)
  /\ Become(w, "looping", [task[w] EXCEPT !.batch = {}])
  /\ UNCHANGED <<extraction, infected, deployed, queues, author>>

Outcome(d) ==
  IF Cut(d) # {} /\ Pending(d) = {} /\ phase[d] = "completed" THEN "completed" ELSE "partial"

Finish(w) ==
  /\ pc[w] = "done" /\ Ready(w)
  /\ Settle(task[w].msg, "running", Outcome(task[w].msg.doc))
  /\ Leave(w)
  /\ UNCHANGED <<extraction, infected, deployed, index, queues>>

RecordError(w) ==
  /\ pc[w] = "raised"
  /\ Settle(task[w].msg, IF task[w].claimed THEN "running" ELSE "queued", task[w].error)
  /\ Leave(w)
  /\ UNCHANGED <<extraction, infected, deployed, index, queues>>

WorkerStops(w) ==
  /\ Busy(w)
  /\ Leave(w)
  /\ UNCHANGED <<extraction, infected, deployed, rows, queues>>

\* A worker is started anew, with the configuration of the API.
Restart(w) ==
  /\ setup[w] # config
  /\ setup' = [setup EXCEPT ![w] = config]
  /\ Leave(w)
  /\ UNCHANGED <<extraction, infected, config, rows, queues>>

-----------------------------------------------------------------------------
Older(age) == IF age < Lease THEN age + 1 ELSE age

Tick ==
  /\ job' = [d \in Documents |->
               IF job[d].state \in InFlight THEN [job[d] EXCEPT !.age = Older(@)] ELSE job[d]]
  /\ UNCHANGED <<extraction, infected, deployed, index, queues, slots, author>>

Proceed(w) ==
  \/ Overtaken(w) \/ Blocked(w) \/ Prepare(w) \/ TakeBatch(w)
  \/ Unconfigured(w) \/ SaveEmbeddings(w) \/ Finish(w) \/ RecordError(w)

\* What the program does when nothing breaks.
Work ==
  \/ \E d \in Documents :
       Extract(d) \/ WritePages(d) \/ Scanned(d) \/ Delete(d) \/ Queue(d)
  \/ \E m \in Message : Publish(m) \/ RecordUnsent(m) \/ IgnoreMessage(m)
  \/ \E w \in Workers : Proceed(w) \/ \E m \in Message : Claim(w, m) \/ ClaimRefused(w, m)
  \/ Tick

Deploy == Reconfigure \/ \E w \in Workers : Restart(w)

\* What can go wrong with the attempt that m stands for.
Fault(m) ==
  \/ PublishRaises(m) \/ ForgetMessage(m) \/ LoseMessage(m)
  \/ \E w \in Workers : ClaimRaises(w, m)
  \/ \E w \in Workers : Busy(w) /\ task[w].msg = m /\ (Raise(w) \/ WorkerStops(w))

Next == Work \/ Deploy \/ \E m \in Message : Fault(m)

Spec == Init /\ [][Next]_vars

(* For liveness faults and deployments are finite: they spare the last     *)
(* attempt of each document.                                               *)
FewFaultsNext ==
  \/ Work
  \/ (\E d \in Documents : job[d].attempt < MaxAttempts) /\ Deploy
  \/ \E m \in Message : m.attempt < MaxAttempts /\ Fault(m)

Fairness ==
  /\ WF_vars(Tick)
  /\ \A m \in Message :
       WF_vars(\/ Publish(m) \/ RecordUnsent(m)
               \/ \E w \in Workers : Claim(w, m) \/ ClaimRefused(w, m))
  /\ \A w \in Workers : WF_vars(Proceed(w))
  /\ \A d \in Documents : WF_vars(Queue(d) /\ job[d].state \in InFlight)

FairSpec == Init /\ [][FewFaultsNext]_vars /\ Fairness

-----------------------------------------------------------------------------
(* Search: the conditions every read of repositories/retrieval.py shares *)

\* Mutant: the extraction the index was built from is not compared.
ReadableAnySource(d) ==
  /\ d \notin infected /\ phase[d] \in Usable /\ job[d].state \in Usable
  /\ job[d].config = config

Readable(d) ==
  /\ d \notin infected /\ phase[d] \in Usable /\ job[d].state \in Usable
  /\ job[d].source = source[d]
  /\ job[d].config = config

\* The chunks a question can be answered from.
Searchable(d) == IF Readable(d) THEN {c \in Cut(d) : index[d].label[c] = config} ELSE {}

-----------------------------------------------------------------------------
(* Properties *)

\* Whatever is found was cut from the text that is stored now, and its vector
\* was made by the configuration that embeds the question: extraction, indexing
\* and deployments may overlap in any way.
SearchableIsSound ==
  \A d \in Documents : \A c \in Searchable(d) :
    index[d].text = text[d] /\ index[d].vector[c] = config

\* A vector's label is the configuration that made it, also when workers and API
\* run with different ones.
LabelsAreTrue ==
  \A d \in Documents : index[d].label = index[d].vector

\* A completed index leaves nothing out: as long as it is readable, every page
\* is extracted and every chunk of it can be found.
CompletedIndexIsWhole ==
  \A d \in Documents :
    (Readable(d) /\ job[d].state = "completed") =>
      /\ phase[d] = "completed" /\ text[d] # Blank
      /\ Searchable(d) = Chunks

\* Chunks and vectors change only on behalf of the attempt in progress, bound to
\* the newest extraction: a worker that is late changes nothing.
LateBuildersChangeNothing ==
  [][\A d \in Documents :
       (index'[d] # index[d] /\ Exists(d)') =>
         /\ job[d].state = "running" /\ job[d].source = source[d]
         /\ phase[d] \in Usable]_vars

\* An index in flight is settled, or its extraction, its file or its document
\* gets in the way: the embedding loop ends.
IndexSettles ==
  \A d \in Documents :
    (job[d].state \in InFlight)
      ~> (job[d].state \notin InFlight \/ d \in infected \/ Stale(d))

\* Each document's index implements the abstract fenced job.
Phase(d) == IF Exists(d) THEN job[d].state ELSE "gone"

Abstract == INSTANCE FencedJob WITH
  Subjects <- Documents,
  attempt <- [d \in Documents |-> job[d].attempt],
  phase <- [d \in Documents |-> Phase(d)]

ImplementsFencedJob == Abstract!JobSpec

\* What holds in every state: the types, labels that say what made the vectors, and
\* completed indexes that leave nothing out.
Inv ==
  /\ TypeOK
  /\ LabelsAreTrue
  /\ CompletedIndexIsWhole
  /\ SearchableIsSound
=============================================================================
