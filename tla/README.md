# Vroometr: formal models

TLA+ models of Vroometr, a platform for motorcycle ownership: a FastAPI
application over Postgres, Celery workers behind Redis, files in S3, and
language models behind HTTP adapters. Each module is translated from the code
under `src/`; the comments of its definitions name the functions, and
`PROJECT.json` maps every definition to lines. TLC checks the models on small
instances; TLAPS proves the theorems listed below for every value of the
constants.

- [1. The system](#1-the-system)
- [2. The modules](#2-the-modules)
- [3. The runs](#3-the-runs)
- [4. What is proved](#4-what-is-proved)
- [5. Disagreements found](#5-disagreements-found)
- [6. What is not modelled](#6-what-is-not-modelled)
- [7. What could follow](#7-what-could-follow)

To check everything, in this directory:

    tlc -workers 2 -config uploads.cfg MCUploads   # a run: cfg and module of PROJECT.json
    tlapm Uploads_proofs.tla                       # a module of proofs

## 1. The system

All state that matters is in Postgres. A request of the API runs in one
transaction (`deps.py`, `get_db`): the route runs, the session commits, and
only then are the background messages it left behind published; an exception
rolls back. A worker uses a transaction per step. Isolation is READ COMMITTED.
There are two ways of keeping requests of one account apart, and telling them
apart is half of understanding this system:

- **with the owner's lock**: uploads, deletion of files, checks, documents,
  extraction and indexing take `SELECT ... FOR UPDATE` on the row of the user
  (`AttachmentRepository.lock_owner`) before they read, and hold it until they
  commit. In the models such a transaction is one action, unless it calls S3
  while it holds the lock;
- **without**: bikes, the active bike, maintenance records and rules, and
  conversations. There a request reads, decides, and writes the columns it
  changed; other requests commit in between. In the models its reads and its
  writes are different actions, and the only locks are those Postgres takes on
  the rows it writes.

### Components

**Uploads, quota and deletion of files** (`services/uploads.py`,
`storage_quota.py`, `attachments.py`, `storage/s3.py`). State: rows of
`attachments` (pending, uploaded), S3 objects, grants signed for
fifteen minutes. A client asks for a grant, sends the bytes to S3 itself,
reports completion; the API compares the object with the row. Hard: quota is
reserved by overlapping requests; S3 does not roll back; a grant outlives the
row it was signed for. Correct means: the quota is never exceeded; a deleted
file never comes back; a verified file can be read; a half-finished deletion
is finished by repeating it.

**Attachment links** (`services/attachment_links.py`). Rows that tie a file to
a bike or a maintenance record, with no foreign key to the target. Correct
means: a link points to a file that is there, and to a target that is there.

**Durable jobs** (`processing/dispatch.py`, `documents/dispatch.py`,
`documents/index_dispatch.py`, `src/workers/`). The same pattern three times:
a row with an attempt id, a state and a lease; a message published after
commit; a worker that claims the attempt, works without a lock, and reports.
Hard: lost, repeated and late messages, a publication that raises although it
succeeded, crashed and slow workers, retries that race them. Correct means:
only the newest attempt is claimed, once, and settled, once, by itself; and a
job does not stay in flight for ever.

**Attachment checks** (`services/attachment_processing.py`). A durable job that
scans an uploaded file; an infected file is blocked. Correct means, beyond the
above: a known infection is never forgotten except by a clean re-check.

**Document records and editions** (`services/documents.py`,
`documents/inspection.py`). Documents registered on uploaded files, grouped in
editions; a draft is confirmed and archives the older ones; a bike has one
primary manual; deleting a file deletes its documents. Hard: any order of
registration, confirmation, choice and deletion must stay within the
constraints of the database, and no bike should lose its primary by accident.

**Document extraction** (`services/document_ingestion.py`,
`src/pipelines/document_pipeline.py`). A durable job that turns a PDF into rows
of `document_pages`, one commit per page; a retry keeps what is complete.
Hard: late workers, crashes between commits, the outcome against the pages.

**Document index** (`services/document_index.py`,
`src/pipelines/document_index.py`, `documents/chunking.py`). A durable job that
cuts the pages into chunks and embeds them in batches. Hard: the pages may be
extracted again while it runs, the configuration of the embedding model may
change between API and worker. Correct means: what a search finds was cut from
the text stored now and embedded by the configuration in use.

**Manual retrieval** (`services/retrieval.py`, `retrieval/ranking.py`). Vector
and keyword candidates, fusion, reranking, selection, neighbours, a budget,
and revalidation between the calls of the providers. Correct means: passages
are from eligible documents only, within the budget, without overlaps; an
answer whose sources changed is refused.

**Bikes and the active bike** (`services/bikes.py`, `active_bikes.py`). Rows of
bikes with a meter reading that is confirmed or estimated, and
`users.active_bike_id`. Hard: no lock. Correct means: an estimate is never
stored as a confirmed reading; the active bike answered was rideable at some
moment of the request; a status change never takes a reading away.

**Maintenance records and due state** (`services/maintenance.py`,
`maintenance/due_state.py`). A log of services and a derivation, from the log,
the rule, the meter and the date, of what is due. Correct means: urgency grows
with hours and days and falls with the service that answers it; estimates never
make a definitive verdict; the whole history counts.

**Maintenance rules and rule extraction** (`services/maintenance.py`,
`maintenance/rule_extraction.py`, `rule_validation.py`, `rule_dispatch.py`,
`src/pipelines/rule_extraction.py`). Rules a model proposes from a manual;
an activated rule supersedes the active ones about the same thing. Hard: the
transaction spans the calls of the model; overlapping deliveries. Correct
means: one active extracted rule per key, none lost, versions that grow; what
the model is shown of the manual is its best pages, within the limits.

**Recommendations and taxonomy** (`maintenance/recommendations.py`,
`taxonomy.py`). Functions over due items: a priority, hints for the conditions
the owner names, advice a language model adds. Correct means: naming more
conditions never takes a hint back; the model adds, and never rewrites the
interval of a rule.

**Conversations and assistant turns** (`services/conversations.py`,
`assistant_turn.py`, `reasoning_agent.py`). A thread with messages, a rolling
summary, the bike it is about, boundaries where the bike was switched. A turn
stores the question, asks the model in up to six rounds of tools, stores the
reply: one transaction, which holds the row of the thread while the model
thinks. Correct means: the summary is made of what is stored; messages carry
the bike the thread was on; nothing outlives the thread; turns end.

**Compact context and hierarchical memory** (`services/compact_context.py`,
`hierarchical_memory.py`). Read-only selections of messages under budgets: the
recent turns of a prompt, the window of a thread around a match. Hard: two
budgets at once, messages longer than a budget, windows at the ends of the
thread. Correct means: the question reaches the model in full; the window shows
the message it was made for whenever that can fit.

**Assistant tools** (`assistant_tools/`). Read-only wrappers of the services
with citations; a write policy that no registered tool reaches yet, and a decision on
claims (`decide_from_retrieval`) that no reply passes through yet. Hard: the
model may ask for anything, several calls at a time, and any of them may fail.
Correct means: each call has its result; a reply names the sources it was given, and
no others.

**Users, identity and age gate** (`services/users.py`, `clerk_sync.py`,
`age_gate.py`, `auth/`). Rows of users created by the first request or by a
webhook, birthdays, parental consents. Hard: several first requests at once, one
of which fails; 29 February. Correct means: one row per owner; nobody too young
is let in, and no birthday is missed.

**HTTP application, AI adapters, web application, evaluations,
infrastructure.** Wiring, HTTP clients, pages, scripts, containers, migrations.

### How they interact

- Completing an upload queues an attachment check in the same transaction; a
  verdict of "infected" blocks the file for documents, extraction, indexing
  and search (`ensure_processable`).
- Deleting a file deletes its links, its job and its documents with their
  pages, indexes and rules, by foreign keys.
- Finishing an extraction publishes rule extraction, and makes every index of
  the document stale, because an index names the extraction attempt it was
  built from.
- Retrieval reads documents, pages, indexes and chunks in single statements.
- The due state reads rules, records and the bike; logging a service may move
  the meter of the bike.
- A turn calls retrieval and the due state as tools, within its transaction.

## 2. The modules

| Module | Models | Extends / instantiates |
|---|---|---|
| `FencedJob` | abstract: what a durable job promises | |
| `Dispatch` | after-commit publication and the broker, for `DocumentIndex` | |
| `Uploads` | uploads, quota, links, deletion of files | |
| `AttachmentProcessing` | attachment checks | implements `FencedJob` |
| `DocumentEditions` | document records, editions, primary manual | |
| `Retrieval` | a search while the documents change | extends `DocumentEditions` |
| `Chunking` | cutting the text of a manual | |
| `DocumentIngestion` | extraction of pages | implements `FencedJob` |
| `DocumentIndex` | chunks, embeddings, what a search may find | `Dispatch`; composes the extraction as a `FencedJob` (`Source`); implements `FencedJob` |
| `Garage` | owners' sign-up, bikes, meter, active bike | |
| `AgeGate` | dates of birth, consents, eligibility | |
| `DueState` | log of services, due state | |
| `Recommendations` | advice about what is due | extends `DueState` |
| `MaintenancePlan` | rules, extraction, superseding | |
| `RulePassages` | what the model is shown when rules are extracted | extends `MaintenancePlan` |
| `Conversations` | threads, summaries, overlapping turns | |
| `AssistantTurn` | one turn opened up: prompt, tools, sources; windows of a thread | |
| `AttachmentProcessing_proofs`, `Uploads_proofs`, `DocumentIngestion_proofs` | theorems | extend the module they are about |
| `Manuals_proofs` | theorems about `DocumentIndex`, `MaintenancePlan` and `RulePassages` | extends all |
| `Retrieval_proofs` | theorems about `DocumentEditions`, `Retrieval` and `Chunking` | extends `Retrieval` and `Chunking` |
| `Garage_proofs` | theorems about `Garage`, `AgeGate`, `DueState` and `Recommendations` | extends all |
| `Conversations_proofs` | theorems about `Conversations` and `AssistantTurn` | extends both |
| `FiniteInduction` | lemmas: what induction would give on finite sets, numbers and sequences | |

`MC...` modules are the instances TLC checks, with the symmetry sets of the runs
that have no liveness property. Three of them put two models that share no state
side by side: `MCRetrieval` the library with searches, or the text of a manual;
`MCMaintenancePlan` the plan, or the pages it is made from; `MCGarage` the bikes
and requests, and the age gate. In each, the steps of one happen while the other
is in an initial state. As neither reads the other, the interleavings that this
leaves out show no state of either that is not reached anyway, and no property
relates the two.

Definitions commented "Mutant" are deviations of the definition that follows
them; no specification uses them. They are kept to show that each property
notices the mistake they make.

### FencedJob

`attempt`, `phase` and `author` of each subject; `Issue`, `Start`, `Settle`,
`Discard`. The four actions are the promise of the pattern: a claim needs the
newest attempt to be queued, an outcome is written by the newest attempt, and
an attempt that was never claimed can only fail. The three jobs refine it with
`attempt` = the number of attempt ids drawn, `phase` = the state of the row
(or "gone"), `author` = a history variable set where the code writes an
outcome. The state machine of the rows would be trivial to refine without
`author`: with it, a step in which a superseded attempt writes is no step of
`FencedJob`.

### AttachmentProcessing

`status` and `grant` stand for the row of the attachment; `job` for the row of
`attachment_processing` (attempt, state, scan status, age of its lease);
`outbox` for messages committed and not yet sent, `unsent` for publications
that raised and are about to be recorded as failed, `broker` for Redis;
`pc` and `task` for the worker slots. One action per transaction: `Complete`
and `Retry` (`queue`), `Claim` (`claim`), `Report` (`finish`), `RecordUnsent`
(`fail_dispatch`), `Delete`. Scanning happens outside transactions. A
publication that raises may or may not have reached the broker. Delivering
may leave the message in the broker (at-least-once), `LoseMessage` removes it
undelivered. Time is the age
of the lease, capped at `Lease`, where the code stops looking.

### Uploads

A request is a sequence of stages under the owner's lock: `Reserve` (lock,
quota), `SignGrant` (the presigned grant), `StampRow` (`created_at`),
`CommitRow`; `Verify` (HEAD), `CommitUploaded`; `BeginDelete`, `RemoveObject`
(S3), `CommitDelete` (row, links). `Abort` ends a request between any two
stages: the database rolls back, S3 does not. `Transfer` is the client's
upload, possible while `grant` is younger than `GrantPeriod`, including grants
whose transaction failed; FastAPI is not pinned, so whether the response is sent
before or after the commit depends on its version, and the model lets the
client use a grant as soon as it is signed, which covers both. S3 evaluates
the expiry of a grant when the transfer starts; a transfer is one action, so
the time it takes is not modelled. `Link`, `Unlink` and `DeleteRecord` are one
action each.

### DocumentEditions

One action per operation, as they all hold the owner's lock: `Register`,
`Confirm`, `SelectPrimary`, `DeleteFile` with the cascade of the foreign keys
(documents go, `supersedes_document_id` becomes NULL). `Rewrite` replaces the
bytes of a file by others (the S3 object, not the row), `Scanned` flags it:
both make later checks of the hash or of the file fail.

### Retrieval

One search of one bike, statement by statement: `Begin`, `VectorSearch` and
`KeywordSearch`, their fusion, `Revalidate`, `Rerank`, `ReadNeighbours` once per
match, `Answer` with the budget and the final check, `ProviderFails`, `Respond`.
Between any two of them a step of `DocumentEditions` may happen, or an index may
be dropped (`Unindex`) or built again (`Reindex`): `During`. A passage is a
document, a chunk and the content it was cut from, so a passage that was read
and one that is there now can differ. Distances, ranks, scores of the reranker
and which neighbours are useful are choices; that overlapping texts are taken
once, that the neighbours of a dropped match are dropped and where the budget
stops are not. `search.stale` is a history: whether a change took away a
passage the search could have found.

### Chunking

`build_chunks` as operators over a manual, whose characters are of four kinds
(`Letters`): `Valid` and `Entries` (the outline, if it does not jump back, or else
the numbered headings), `Anchors` and `Ambiguous` (where sections begin, and on
which pages that is not clear), `Stretches` of a page, `Ranges` that cut a
stretch at a break in its second half, `ChunksOfPage`, `BuildChunks`. The only
action completes a page, as an index may be built between two. The module says what
a `Manual` is, and the constant `Manuals` which ones may be cut: any, in the proofs;
the small ones of `MCRetrieval`, in the run.

### DocumentIngestion

The pattern of `AttachmentProcessing` with a worker of more steps: `Claim`
(`claim`), `ReadFile` (the snapshot), `StartPages` (`start_pages`), one
`SavePage` per page, `Finish`. Each of them looks at the attempt again
(`_current`); `Overtaken` and `Blocked` are its early returns and errors.
A page is completed, pending a provider or failed, by choice. `Finish` sends
the message of rule extraction from within the transaction, so it may go out
for an outcome whose commit then fails: `FinishLost`.

### DocumentIndex

`source`, `phase`, `settler` and `text` are the extraction, taken at the level
of `FencedJob`, which `DocumentIngestion` is shown to implement; pages may
change only while it runs. `job` and `index` are the rows; `config` is the
configuration of the API and `setup` that of each worker, which pick up a new
one at different times (`Reconfigure`, `Restart`): a deployment. A vector is
represented by the configuration that computed it, so that a mismatch between
`vector` and `label` is a fact of the model. Workers prepare, take batches,
call the model and save, each in a transaction of its own. `Searchable` is the
eligibility predicate of `repositories/retrieval.py`. Chunks carry no text of
their own but that of the document, or none (blank pages).

### Garage and AgeGate

`SignIn`, `SignUp`, `Welcome`, `Rollback` are the first requests of an owner
without a row, or the webhook: lookup, INSERT in a savepoint, which waits for an
uncommitted row of the same identity, and the end of the transaction. `Create`
makes a bike, in an ordinary request or in a first one. Then per slot: `BeginPatch`
reads a bike and sets the columns its body names (any set of them, `Patches`),
`CommitPatch` writes the columns in which the patched object differs from what was
read (the net change SQLAlchemy computes, `Written`); `BeginSelect` or `BeginResolve`,
`ReadSelected`, `ReadList`, `CommitActive`. `confirmed` is a history of the
readings somebody confirmed. `Noticed` widens, for the running requests, the
set of moments their answer may refer to.

`AgeGate` has a calendar of 28 and 29 February and 1 March of some years;
`Eligibility` is what `age_gate.py` computes from the date of birth, the
consents and the day. That eligibility is a function of the state, stored
nowhere, is why time alone may change it.

### DueState

`log` is a set of services with date, hours and order of entry; `Due` is the
derivation, one operator per idea: `Read` (the latest `Limit` rows of the
bike), `LastService`, `HoursLeft`, `DaysLeft`, `Scored`, `Combined`, `Softened`,
`Verdict`. `rule` is chosen in `DueInit` among all shapes over small intervals,
and stays. The actions are those of the routes: `LogService`, which may move the
meter, `EditService`, `DeleteService`, `ReadMeter`, and `DayPasses`.

### Recommendations

Operators over the due item: `Baseline`, `Hints` for the conditions the owner
names, `Conflicting` for a quoted interval, `Take` for one row of the model's
answer, `Advice` for the list. Of a row there is whether it is usable, whether
it urges, and the numbers it quotes. `Advice` is evaluated in every state for
all conditions and answers, as the route computes it anew on each call.

### MaintenancePlan

`rules` are the committed rows; a slot carries its uncommitted writes in
`request`: of a row it added, all columns; of a committed row, the columns it
changed, which is all that its UPDATE writes (`Over`). `BeginExtract` decides
whether to skip, `Answer` is the model's proposals, `StoreNext` adds a rule and
looks up its priors with what it sees (`View`), `Supersede` writes the priors,
waiting for rows another slot has locked (`LockedBy`), `Commit` publishes.
`BeginActivate` reads a rule and looks up its priors; `FindPriors` is that second
step on its own, taken when an open transaction has written the rule, as only then
it matters what is committed in between. The versions of the priors are kept as
they were read (`priors`): the new version is computed from them. `Abort` stands
for StaleDataError, deadlock victims and failures of the model. `SkipExtract` is a
delivery that finds nothing to do. `overlap` is a history: it becomes TRUE when two requests are in
progress at the same time, and lets one instance check both what holds always
and what holds one request at a time.

### RulePassages

`Ranked` orders the complete pages by how much they look like a schedule (`Before`),
`TakePassage` takes one after the other within the limits, `Passages` are those taken
in page order, and `Batches` deals them out to calls of the model. What the code
sorts is stated as the one arrangement that is in order (`InOrder`): both orders are
strict, so there is just one. `CompletePage` is the extraction of the manual, which
may still run.

### Conversations

One thread: threads share no rows. `log` holds all rows ever written, in the
order of `created_at`, and `kept` those that are committed, so the order in
which rows are stamped and the order in which they become visible can differ,
as they do in the code. A request loads the thread (`Load`), inserts
(`Post` a message, `Mark` a boundary), updates the thread (`Touch`), which
waits for the row, asks the model (`Reply`: tool rounds, an answer, or none),
and commits. `INSERT` holds FOR KEY SHARE on the row, so `Delete` waits for
inserters. Insertion and listing of the messages are one action: a commit
between the two has the effect of one before both. `overlap` is the history it is
in `MaintenancePlan`.

### AssistantTurn

The turn that `Conversations` has as one action, alone and opened up: `Begin`
with a question, `AskForTools` and one `RunCall` per call, `GoOn`, `Conclude`,
`Finish`. A call may be of a registered tool, of an unknown one, or have
arguments that are no object; a handler returns, maps its error, or is caught,
and after an error of the database the transaction is `broken`.
`RecentTurns` and `Prompt`, `Expand` and `ExpandBest` (the window around a
message or the best match) and `Sources` are the functions of
`compact_context.py`, `hierarchical_memory.py` and `reasoning_agent.py` with
`citations.py`, on messages of which there is a length and a score.

## 3. The runs

A passing run checks all properties of one component, or of a few that belong
together, in one instance; a run that expects a violation checks one property
alone (section 5).
Every property of a passing run has a mutant in `PROJECT.json`: a plausible
mistake in one mapped definition, under which TLC finds the property violated in
the same instance. `Inv` (in modules that are proved about together with others: `SearchInv`,
`PlanInv`, `TurnInv`, `AdviceInv`) is in each module the conjunction of the type invariant
and of the state invariants named beside it; properties with an
interest of their own are checked by themselves.

### Uploads

`uploads` asks whether two overlapping requests can lose or leak the files of an
account: two files of sizes 1 and 2 with a quota of 3, two requests, a bike and
a service record as link targets. Two requests are the least that can overbook;
two files fill the quota, and files reserved again have the other size; a grant
of two ticks can be younger than, as old as, and older than the row it
belongs to. `Inv` (`TypeOK`, `LinksAreToFiles`), `QuotaNeverExceeded`,
`DeletedStaysGone`, `YoungUploadHasObject`, and under fairness `CleanupFinishes`: a deletion that removed
the object and lost its transaction is finished.

### Durable jobs

- `processing`: one attachment, three attempts, two worker slots, a lease of two
  ticks: the least with which a worker is overtaken twice and a lease can be half
  run out. `Inv` (exclusive claims: `OneScannerPerAttempt`, `LiveClaimIsRunning`;
  the outcome: `OutcomeIsCurrent`), `NoEarlyTakeover`, `InfectionIsSticky`, the
  refinement `ImplementsFencedJob`, and
  `EventuallySettled`.
- `ingestion`: one manual of two pages, two attempts, two slots, the same lease.
  Two pages allow one to be complete and the other not. `Inv`
  (claims: `OneWorkerPerAttempt`, `TakeoverAfterSilence`; the outcome:
  `CompletedIsWhole`, `OutcomeIsCurrent`), `PagesAreStable` (complete pages are
  kept, and after the outcome none changes), `RulesSeeEveryPage`, the refinement,
  and `EventuallySettled`.
- `index`: two extractions whose texts may differ, two configurations that the
  API and the worker pick up at different times, two index attempts, two chunks
  in batches of one. `Inv` (`LabelsAreTrue`,
  `CompletedIndexIsWhole`, `SearchableIsSound`), `LateBuildersChangeNothing`, the
  refinement, and `IndexSettles`. There is one worker: a late builder arises all the same, as
  the owner queues a new attempt while the worker holds the old one. That two
  workers never build for one attempt rests on the same claim as in the other
  two jobs, where it is checked with two.

One attachment or document is enough in these runs: jobs of different subjects
share only the broker and the slots, and the guards never compare subjects.
The theorems about attachment checks hold for any number.

### Documents, searches and chunks

`editions`: three registrations of two files for two bikes, under symmetry, with
files whose bytes change and files that are flagged, and searches of a bike.
`SearchInv` has `Inv` (`PrimaryIsSound`: an active, confirmed manual, one per
bike, as the unique index demands; `EditionsAgree`, `SupersedesPrevious`),
`PassedDraftsStayArchived` and, for searches, `AnswerIsWhole` (not empty, within
both budgets, no text twice, no neighbour without its match). `PrimaryIsKept` is
about the documents; `ReadyIsCurrent` and `RefusalsAreTrue` are the two halves
of what revalidation is for: an answer is current when it is given, and is
refused only if something a search could find has changed. Three registrations
allow an edition to be confirmed between two drafts, or a second group beside
it; searches begin while at most two ids are used, with two chunks of different
length per document, of which the search may take three by length, and one
change of the documents or indexes during the search. Two documents and one
change show a candidate that changes after each statement.

In the same run, `ChunksAreExact` for every text of up to six characters (of a
word, of a heading, blanks a chunk may end at, other blanks), cut at four, and
every outline of up to two entries over two pages of up to two characters (`SmallManuals`): no character of a
word is lost or filed under a heading it does not follow. A text of six is cut
more than once, with a break in the first half, the second, or none.

Deadlock checking is off: ids are used once, and when all files are deleted
nothing is left to do.

### Owners and bikes

`garage`: two bikes, two requests, one reading, patches of every set of columns
(the form of a bike sends all of them, the other routes some), an owner
who has no row at first: `Inv` (`OneOwner`, `AnswersAreRideable`,
`NeverLeftWithout`), `OmittedColumnsStay`. The run has one bound in the module
(`Overlaps`): of several bikes none has a reading while two requests overlap. The
meter is read and written by patches of the bike it belongs to, and the choice of an
active bike does not look at it, so requests that meet in a meter need one bike, and
requests that meet in a choice need no meter; one request at a time has both. In the
same run the age gate, with the code's 13 and 18 and 24 years: who is born on 29
February comes of age in a year that has no such day: `AccessOnlyGrows`.
`garage_race` is a violation.

### Due state and recommendations

`due`: every rule shape over small intervals (hours, days, both, any-of and
all-of, with a first interval of its own), two services that may be corrected
and deleted: `UrgencyNeverFalls`, also for the priority and the hints made from
the due item, and `HistoryCounts`, which has two parts: a service logged now
clears the item (`ServiceClears`), one backdated behind the last leaves it alone
(`BackdatedIsNeutral`). `AdviceInv` has `HintsGrowWithTags` and `ModelOnlyAdds`, for
every answer of up to two rows. Two services are enough for last against other;
thresholds and what lies on both sides of them are within reach.

### Rules

`plan`: two transactions, two keys, answers of up to two proposals that may be
about the same key, three rules; what is posted names the one manual (`Sources`). Whatever overlaps, `ActiveMeansActive` (in
`PlanInv`) and `NoKeyIsLost` hold. `OneRulePerKey` and `VersionsGrow` (also in
`PlanInv`) are promises the code keeps only one request at a time, and say so:
they hold while the history variable `overlap` is FALSE (section 5 has what
happens otherwise). The third part of `PlanInv` is `PromptsFit`, for every
manual of four pages: the pages shown are the best, within the limits of three
passages and six characters, and the batches are the passages. A page can be
longer than its limit, and the rest of the budget shorter than is worth taking.

### Conversations

`thread`: two requests of any kind on one thread, five rows, two rounds of tools,
a summary of the two latest messages, the least of which one can be missing.
Whatever overlaps: `DeletedIsEmpty` and `SummaryIsKept` (in `Inv`),
`AnsweredSummaryIsCurrent`, `AnswerFitsBike`, and under fairness `RequestsEnd`.
While no two requests have overlapped: `SummaryIsCurrent` and
`BoundariesTellHistory` (`BoundariesChain`, `StampsFollowBoundaries`), in `Inv`. A
request starts only when it can finish within the bound of the log, so requests
are not cut short; a full log or a deleted thread stops the model, and deadlock
checking is off.

`turn`: every thread of up to five messages of three lengths (one within all
budgets, one that fills most of one, one longer than the budget of the turns)
and three scores: `PromptHoldsQuestion` (in `TurnInv`), `SpanHoldsMatch`, which says
what a window shows, and exactly when it lacks its own message. And, on an
empty thread, turns of two rounds of up to two calls each with every outcome,
searches that find up to two of three passages, two of which bear one label:
`EveryCallIsAnswered` (in `TurnInv`), `AnswerIsGrounded` (`SourcesNameAll`). Two
calls in two rounds can fail at the first or last of a round; two searches can find
the same passage. The thread before a turn does not enter it but through
`Prompt`, which is checked for all threads.

### Bounds

| Constant | Bounds | In the runs | Why it is enough |
|---|---|---|---|
| `MaxAttempts` | attempts per job | 3; 2 for pages and index | a slow worker and its successor; for checks, one after that |
| `Lease`, `GrantPeriod` | ticks; ages are capped at them | 2; index 1 | the code only asks whether they have passed |
| `PageCount`, `Chunks` | data of a document | 2 | some done, some not |
| `MaxSources` | extractions of a document | 2 | old and new text |
| `Docs`, `MaxRev` | registrations | 3 | a confirmed edition between two drafts |
| `SearchDocs`, `MaxChanges` | ids used when a search begins; changes during it | 2, 1 | one document that changes and one that does not |
| `CandidateLimit`, `RerankLimit`, `MaxMatches`, `MaxPassages`, `Capacity` | limits of a search (code: 50, 40, 8, 8, 8000) | 4, 3, 2, 2, 3 | each cuts something off |
| `MaxChars`, `MaxText`, `MaxShort` | chunk (code: 1200), texts | 4, 6, 2 | cut twice; sections across pages |
| `MaxRules`, `MaxProposals` | rules stored, proposals of one answer | 3, 2 | a rule, its successor, a rival; a repeated key |
| `MaxPassages`, `MaxPageChars`, `MaxChars`, `LeastRest`, `BatchChars`, `HeaderChars`, `MaxPages` (plan) | pages shown | 3, 3, 6, 2, 6, 1, 4 | more pages than fit, by number and by length |
| `MaxLog`, `MaxRounds`, `MaxToolRounds`, `Recent` | rows of a thread, tool rounds of a request and of a turn opened up (code: 6), summary (code: 20) | 5, 2, 2, 2 | two overlapping turns and a switch |
| `MaxThread`, `TurnLimit`, `CharBudget`, `SpanLimit`, `SpanBudget`, `Pad` | windows of a thread | 5, 3, 3, 4, 6, 1 | threads longer than each limit |
| `MaxCalls`, `MaxFound`, `MaxBefore` | calls of one answer, passages of one search, thread before a followed turn | 2, 2, 0 | see above |
| `MaxHours`, `MaxDay`, `MaxRecords`, `Limit` | meter, calendar, log, records read (code: 500) | 2, 2, 2, 2 | both sides of each threshold |
| `MaxRows` | rows of advice in one answer of the model | 2 | a second row about the item |
| `FirstYear`, `LastYear`, `MinAge`, `AdultAge`, `MaxConsents` | calendar, ages (13, 18 as in the code) | 2004, 2027, 13, 18, 2 | two births on 29 February come of age, in years without that day; a third turns 13 |

### Fairness

The runs that check liveness (`processing`, `uploads`, `ingestion`, `index`,
`thread`) use `FairSpec` for all their properties; the others use `Spec`. It
assumes:

- *jobs*: time passes; a web process that has not stopped publishes or records
  its failure; a message the broker holds is delivered; a worker that has not
  stopped takes its next step (all weak); and the user retries a job whose
  lease has run out. Recovery in this system is manual by design: nothing but
  a retry wakes a job whose message was lost. Faults, and for the index
  deployments, are finite: the last attempt of the bound is spared
  (`FewFaultsNext`), or no attempt would ever succeed. So the safety properties
  of these runs are checked under every fault of every attempt but the last.
- *deletion of files*: the owner repeats the request; requests are served in
  the order of the lock queue; S3 and the database do not fail every time
  (strong fairness of the three steps). No behaviour of `Spec` is cut off by it.
- *threads*: each request goes on (weak), which is justified for the model by
  the timeout of the chat adapter; a waiting `UPDATE` gets the row in its turn
  (strong), which Postgres's queue of waiters provides.

## 4. What is proved

All theorems hold for every set of attachments, workers, requests, documents,
bikes, sizes, targets and dates and every value of the bounds, under the
assumptions named in the modules, which TLC evaluates in the runs: positive lease
and grant period, positive intervals, at least one record that is read, positive sizes, at least one revision,
ages in order; a rest of a page that is worth taking fits into the total of the passages; chunks no
longer than the budget of an answer, as the code cuts them, and a limit of at least one character for them; finitely many
documents, chunks and requests where a sum or a count over them is taken; and
placeholders that are distinct from what they stand beside.

**`AttachmentProcessing_proofs`.** `TypeCorrect`, `Exclusion`, `LiveClaims`,
`Takeover`, `Fencing`, `Soundness` (`Inv`), `Finality`, `Stickiness`, `Refinement`.
The inductive invariant `IInv` is `TypeOK`, `OneScannerPerAttempt`,
`OutcomeIsCurrent` and, for each worker slot, `ClaimOK`: a claim is on an
attempt that was issued; if it is the current one the row is running and
exactly as old as the claim, and if it is not the claim's lease has run out.
`OneScannerPerAttempt` is not inductive alone: that a message delivered twice
is not claimed twice follows from the row being "running" as long as the first
claim lives; and `NoEarlyTakeover` needs the equality of the two ages, as a
retry looks at the age of the row. `Refinement` maps each attachment
to a subject of `FencedJob`: `AbstractStutter` and `AbstractStep` turn a
statement about one attachment into one about the functions, and
`EnqueueStep` and `FinishStep` cover the two operations that several actions
share. It needs only `TypeOK`. `Finality` and `Stickiness` are action
properties and follow from the description of one step in one row (`RowStep`).

**`Uploads_proofs`.** `TypeCorrect`, `OneAtATime`, `DeletedFilesStayGone`,
`YoungUploadsHaveObjects`, `LinkedFilesExist`, `RowsAreSound` (`Inv`), `QuotaHolds`
(`QuotaNeverExceeded`).
`IInv` adds to the properties:
`LockHeld` (the owner lock is held by exactly the request that is not idle),
`WorkOK` (what each stage has established about its file) and `GrantOK` (a
grant is at least as old as the row it belongs to, so a row that may be
deleted has no live grant). `DeletedStaysGone` needs `GrantOK`: the row is
stamped after the grant is signed, and the deletion waits for the row's age.
The proof has one lemma per kind of step: stages of a request, starts, aborts,
links, transfers, deleted records, the clock. `QuotaHolds` is about a sum over the
files that count: no step but a reservation adds a file to them, and that one
looked at the sum of the others while it held the lock. How a sum over a finite
set grows with one more member is a fact about bijections (`FiniteInduction`).

**`DocumentIngestion_proofs`.** `TypeCorrect`, `Invariance`, `Soundness` (`Inv`),
`PagesStable` (`PagesAreStable`), `RulesComplete` (`RulesSeeEveryPage`),
`Refinement` (`ImplementsFencedJob`). `IInv` has two parts for each worker slot.
`ClaimOK` is about the row, as for checks, but with the worker's silence in
the place of the claim's age: each commit of a page resets both. `WorkOK` is
about the pages: those the worker has left behind have been dealt with; of
those before it none is complete as long as its attempt is the row's own; and
while it goes through them the row has the count of the file. The first of
these holds for late workers too, because pages are never reset while the
document lives; the second only for the current one, as its successor completes
pages behind its back. It is why a commit never overwrites a complete page, and
the first is why an outcome, and the request for rules, are about all pages.
`QuietKeeps`, `RowKeeps`, `SettleKeeps` and `HeartbeatKeeps` are the four ways a
step can bear on rows and claims, and each action is one of them. `PageWrites` and
`RuleWrites` say which actions write pages and rules, so that the two action
properties come down to those.

**`Manuals_proofs`, the index.** `TypeCorrect`, `Invariance`, `Soundness` (`Inv`, with
`SearchableIsSound`), `LateBuilders` (`LateBuildersChangeNothing`), `Refinement`
(`ImplementsFencedJob`). What a search finds is decided by two jobs and a
deployment, none of which waits for the others, so `IInv` says what they leave each
other. `SourceOK`: a job is bound only to an extraction that has settled, and a
new extraction has a number above every job's, so as long as the numbers agree the
pages cannot change. `WorkOK`: while that holds and the attempt is the row's own,
the worker runs with the job's configuration, and once it has cut the chunks they
are of the stored text, with vectors of no other configuration. `IndexOK`: an
outcome with chunks promises the same, and "completed" that none is missing.
That two workers never build for one attempt is not needed: either could write only
what fits. `ExtractionKeeps` (the job of the document is unbound after the step),
`RowKeeps` (rows change state only) and `WriteKeeps` (chunks are rewritten, and fit)
are the ways a step can bear on this. `Refinement` needs of `IInv` that a claim which
raised can only report "failed", never "awaiting_configuration".

**`Manuals_proofs`, the plan.** `PlanHolds` (`RulesInv`: `PlanTypes`,
`ActiveMeansActive`, `VersionsGrow`, `OneRulePerKey`), `NothingLost`
(`NoKeyIsLost`). Transactions overlap here without a lock of their own, so
`PlanIInv` says what each may rely on whatever the others commit. `RequestOK`: the
rows a transaction has written whole are new, and the parts it has written are of
committed rows (`WritesOK`); what it has superseded has something active about the
same thing in its place (`Replaces`); what it knows of the rule it activates, and of
the priors it found, is still about the same thing (`KnownOK`, `PriorsOK`); and
without activation nothing it stored is active. `Apart`: no two transactions
have written one row, which is what the row locks give. `OneAtATime`, for requests
that overlap no other, is more: what the transaction would commit has one rule per
key and growing versions, and what it found is what is there (`OneOf`, `Growing`,
`Stands`). `Meanwhile` and `OthersKeep` show that a commit of one transaction leaves
the first kind intact for the others. `NothingLost` rests on `Replaces` alone, and so
needs no lock beyond that of the rows: a key loses its active rule only to a
transaction that puts another in its place.

**`Manuals_proofs`, the prompts.** `PromptsHold` (`PlanInv`, and with it `PromptsFit`).
The plan and the manual do not touch each other's state, and `BookOK`, that the pages
keep their types, is all that is inductive about the manual; the rest is about what a
selection computes from whatever is complete. `ArrangementExists` and `InOrderIs`: a
finite set with a strict order can be arranged, so `Ranked` and `Passages` are what
they are named. `Taking` is the invariant of the loop: after k pages those taken are
the first, each as a whole unless it is the last and fills the total, and as long as
no limit was met, all of them. That at least one is taken needs the assumption on the
rest. `TotalCounts` counts the characters of passages as a set of lines, so that
putting them into page order changes nothing about their total (`PassagesAre`).
`HoldsFirst` is the invariant of the batches: joined, they are the first k passages;
`FlattenIs` (of `FiniteInduction`) says that `FlattenSeq` joins them.

**`Retrieval_proofs`.** About the documents: `EditionsHold`, `ConstraintsHold`
(`Inv` and `PassedDraftsStayArchived`), `PrimaryKept` (`PrimaryIsKept`). `Inv` is
nearly inductive: what it lacks is `GroupsAreUsed`, that a group bears the name of
a document that was registered once, deleted or not. Without it a first edition
could open a group that exists, with a second revision 1 in it. `Confirm` and
`SelectPrimary` first clear the other primaries, then write their row, and for
`Confirm` then archive drafts, so each proof describes what they write
(`ConfirmWrites`, `SelectWrites`) before it takes the constraints one by one;
`FrameKeeps` says that the constraints on revisions survive any step that changes
neither group nor revision.

About searches: `SearchHolds`, `AnswersHold` (`SearchInv`), `AnswersAreCurrent`
(`ReadyIsCurrent`), `RefusalsHold` (`RefusalsAreTrue`). The inductive invariant `SInv`
says that whatever the search holds, at any stage, are copies of contents stored at
some time (`Stored`): a document never changes its bytes, so two copies of one document
agree on their hash, and which of two overlapping texts is kept does not depend on
when each was read. `NothingLost` ties the history variable to what is held: as
long as the search is not stale, all of it can still be found. From this
`RefusalsHold` follows, as a refusal counts passages that are missing; that it
counts no passage twice is a matter of the budget, whose result has no text
twice. The budget, the fusion and the sum of sizes are folds: `KeepAlong`,
`FuseAlong` and `CharsAlong` say what a fold has done after n items, `KeepStep` that
each item keeps `Within`: what was taken, what was `Blocked` and by what. An item
once blocked stays so (`StaysBlocked`), which is why a neighbour is never left
without its match although the match may have been dropped.

About the text: `ChunksHold` (`ChunksAreExact`). All that is inductive is that the
manual is a `Manual`; what is proved is what `build_chunks` computes from one, of any
length. A round of the loop over a stretch goes on, skips and trims blanks only, and
ends within the limit on a character of a word (`RoundCuts`, from `SkipIs`,
`StopIs` and `TrimIs`); as each round begins where the last stopped, `RangesWhole`
carries this down from the end of the stretch to its beginning. That a round goes on
does not follow from its limit: the break it ends at is a later one because it
begins with a character of a word. `StretchesCover` says that the stretches of a page are the page,
and `SectionsOfPage` that each is under the section a reader would say: the headings of
one page are in the order of their offsets unless the page is ambiguous
(`ClearAre`), so the last one at or before a character is the one whose stretch it is
in, and before the first it is the one that goes on from earlier pages. `PageIsCut` and
`ManualIsCut` join the pieces: stretches within a page, pages in their order.

**`Garage_proofs`.** `GarageHolds`, `AnswersHold` (`Inv`), `OmittedStay`
(`OmittedColumnsStay`). As no lock is held, the invariant says how
what a running request has read relates to what has become of it: `RequestsOK`,
for each request that a patch is of an owned bike and writes only columns it names
(`Patched`: what it leaves out is as it was read, so it is no change); that `during` and `throughout` enclose what is rideable
now; that a request which falls back to the list had read a bike that was not
rideable throughout (so skipping it is no loss); and that an answer is in `during`,
or there is none and `throughout` is empty. `NoticedGood` shows that any change of
the bikes keeps this for the requests that watch, and the other lemmas follow the
actions.

**`Garage_proofs`, the age gate.** `AgeInvHolds`, `AccessGrowsHolds` (`AccessOnlyGrows`).
`AgeInv` adds to the types that stored dates of birth are of the past and old
enough (`OldEnough`) and that stored consents are granted (`OnlyGranted`); that
days only pass makes it inductive. `YearsCountBirthdays` is the arithmetic: the
comparison the code makes reaches n exactly on the n-th birthday, which is 1 March
for 29 February in other years. For any two ages and any range of years of the
calendar of the model.

**`Garage_proofs`, what is due.** `DueHolds`, `UrgencyHolds` (`UrgencyNeverFalls`),
`HistoryHolds` (`HistoryCounts`), `AdviceHolds` (`AdviceInv`), `ModelAdds`. What is due is a
function of the state, so the inductive invariant is small (entries have times of
entry of their own, and are finitely many) and the work is about the function. Of
finitely many services one is the newest (`NewestExists`), so `LastService` is a service
or there is none. `VerdictIs` writes the verdict on two thresholds as a table;
`VerdictFalls` says that it falls in the order of urgency when either threshold
worsens, under any-of and all-of, estimated or not, and `StatusesWorsen` that riding on
and time do no more than that. For `HistoryHolds`, `AddedIs` is what a step that only adds
does, `NewestIsLast` that a service newer than all others is among the latest that are
read, however few those are, and `BackdatedChangesNothing` counts: an older entry can only
push out of what is read what is older than the last service, and brings none in.
`ModelAdds` is what `ModelOnlyAdds` says, in every state and for answers of any
length: `Added` holds after each row of the answer.

**`Conversations_proofs`.** `ThreadHolds`, `ThreadIsSound` (`Inv`),
`SummaryAfterAnswer` (`AnsweredSummaryIsCurrent`), `BikeOfAnswer` (`AnswerFitsBike`).
`IInv` has four parts beside the types. `Room`: the rows of the log and those the
requests in progress have yet to write stay within the bound, so a request that
has begun can end; it is a count of requests by stage, and every step moves one
request between two counts. `WorkOK`, for each request: what it has loaded and
written so far is in the log, its own rows are not committed yet, and a request that
holds the row is the only one to. `AloneOK` and `OneAtATime` are what holds in
addition while no two requests have overlapped: what the request has loaded is what
is there. `History` then says that the bikes of the messages are those the
boundaries before them tell, and that the summary is of the newest messages: it is
stated over all positions of the log and needs that only one request appends.

**`Conversations_proofs`, the turn.** `TurnHolds`, `TurnIsSound` (`TurnInv`), `SpansAreSound`
(`SpanHoldsMatch`), `AnswersAreGrounded` (`AnswerIsGrounded`). `TurnIInv` is about the transcript (`TranscriptOK`): the
results after an answer of the model are of its calls and in their order
(`InOrder`); while calls are left, the last answer is followed by results up to
exactly those that are left (`Pending`), so the next result is put where its
call asks for it (`ResultKeeps`); when none is left every call is answered
(`Complete`); and the bag holds exactly what the results hold (`GivenIn`). What is
proved about the functions does not depend on the turn. `LengthAlong` and
`TotalsExist` give the lengths of a thread up to each message, so that the length of
a part is a difference of two numbers: from it come that recent turns are within
both limits and are not clipped unless a single message is longer than all of them
(`RecentFits`), and, for windows, that a step of growing keeps `Holds` (within the
limits, and what was padded still inside, `WidenHolds`), which `GrownHolds` carries
over all steps and `ShownHolds` through the cut. A window over the budget is one that
never grew, so the message is cut off exactly when what is padded before it is over
the budget with it (`PartsAreShorter` for the other direction). `SourcesAlong` and
`AddNames` say what the sources of the first k passages are.

**`FiniteInduction`.** Induction needs an operator as a parameter, which is beyond the
provers here. The lemmas of this module have a set in its place, the set G of what is
"good": if the empty set is in G, and with a set every set of one more member, all finite
sets are (`SubsetsAreGood`); likewise for numbers (`NumbersAreGood`). The proof is by a
smallest counterexample, from the least-number principle of the integers that the SMT
solver does have; downwards from a number it is `DownwardAreGood`, which recursive
functions over the rest of a text need. `GreatestExists`, `MaxIs` and `MinIs` follow, and
for folds over sequences `FoldsExist`, `FoldIs` and `FoldRounds`: there is a function
that is the fold's value after each number of steps, so a claim about a fold is one
about numbers. With it `FlattenIs` says what `FlattenSeq` makes of a list of lists;
`FlattenHas` and `FlattenPairs` that the joined list has the members of all of them, and
that what holds of any two in order within one list, and of members of an earlier and a
later list (an order without overlap), holds of any two in order in the whole.

**Only model-checked.** Liveness: `EventuallySettled` of the two jobs, `CleanupFinishes`,
`IndexSettles` and `RequestsEnd` (fairness and ENABLED are beyond the prover). Every other
property of the passing runs is stated by a theorem.

## 5. Disagreements found

Two have a run with `expect: violation` and a finding in `PROJECT.json` that
quotes the line it contradicts.

| Run | What happens |
|---|---|
| `uploads_links` | deleting a maintenance record leaves its links, which can then not be removed either; the progress document asks that such deletions clean up |
| `garage_race` | of two overlapping patches one stores an estimate, the other the flag "confirmed" |

The models reach more states that a line of the repository speaks against, or
the code shows them while it is read; they are described here and have no run of
their own.

Maintenance:

- estimated hours past the interval and a calendar that is "due soon" give a
  definitive "overdue", against the comment at `due_state.py:194`: the code
  softens the verdict only where the calendar says nothing or "ok";
- an all-of rule is "overdue" when one threshold is overdue and the other only
  due soon, against the comment at `due_state.py:177`;
- clearing the hours of a bike whose reading is confirmed leaves it confirmed
  without a reading, against the comment at `bikes.py:204`;
- only the latest 500 records of a bike are read (`maintenance.py:311`), so an
  older service is taken for none;
- advice is to be rejected when it "asserts a different numeric interval than
  the baseline" (`recommendations.py:355`), but a number of hours passes for a
  rule that has only a calendar, and a number of days for one that has only
  hours: `ModelOnlyAdds` says what the code does keep;
- two overlapping extractions of a manual each find no rule of the other, and
  leave two active rules for one key: `OneRulePerKey` without its condition is
  violated. A delivery that overlaps the first is not skipped, against
  `docs/implementation-progress.md:1044`;
- an activation that read a rule as validated revives it after another request
  activated and superseded it;
- the progress document (`docs/implementation-progress.md:1044`) names a cap of 40
  pages for a rule extraction; the code takes 12 (`rule_extraction.py:15`), and
  `PromptsFit` is about the code's limit;
- a plan extracted from a partial extraction is not extended when the missing
  pages arrive, since the manual then has rules and is skipped. No line of the
  repository is about it.

Conversations:

- a turn that ends without an answer overwrites the summary with one that lacks
  the turn before it: `SummaryIsCurrent` without its condition;
- a switch during a turn is dated before the reply of that turn, which is about
  the old bike (`StampsFollowBoundaries`), and two overlapping switches leave
  boundaries that do not chain (`BoundariesChain`);
- a window "around the best query match" (`hierarchical_memory.py:161`) is filled
  from its start until the budget is used up, so it lacks that match when the
  messages padded before it are over the budget with it. `SpanHoldsMatch` states
  this as an equivalence: then, and in no other case;
- a tool that fails in the database is caught without a savepoint
  (`registry.py:67`), so every later statement of the turn fails and the request is
  rolled back with the question it had stored; likewise when the process stops;
- the bike of a reply is right (`AnswerFitsBike`) although the thread is read
  before its row is locked: `assistant_turn.py:40` drops that first instance, the
  identity map of the session holds it weakly, and so the later reads fetch the row
  again. A reference kept to it would bring the old bike back;
- two passages of documents with the same file name, section and page become
  one source, also when only one of them is a manufacturer's manual: hence
  `SourcesNameAll` is about labels.

The overlaps above need two requests within the time a language model
takes to answer. Two limits the code states are never reached with its own
defaults: twelve pages of 2500 characters stay below the total of a rule
extraction (36000), so a page is never clipped to the rest; and eligibility by
age is computed, and answered to the client, but no route refuses anything
because of it.

## 6. What is not modelled

- **The order of response and commit** in FastAPI differs between the versions
  the build admits. `Uploads` allows both; elsewhere the commit comes first.
- **Descriptive data**: names, texts, MIME types, error messages.
- **Extraction proper** (`pypdf`, rendering, OCR): a page has one of three
  outcomes. In `DocumentIndex` a text has a fixed set of chunks; how they
  are cut is `Chunking`, on its own. That a batch may reuse vectors of equal chunks is
  kept, across chunks of one document not.
- **Scores**: distances, ranks of keywords, scores of the reranker and the
  terms that make a page look like a schedule are choices, or numbers in a small range.
- **Rule validation and taxonomy**: a proposal is valid or not; the matching of
  a service with a rule is given. The taxonomy is lists of keys.
  `create_rule` accepts an interval of zero; `DueState` takes positive ones.
- **Per-row order of flushes**: the rows one activation supersedes are written
  in one step; a request that loses a deadlock is an `Abort`.
- **The manual behind a rule** may change while rules are extracted; only the
  check at the start is in the code, and the model does not follow it.
- **The selected bike** of a request is read once; a second read through the
  session's identity map returns the same object.
- **"inactive" bikes** are treated as active ones, as the code does when it
  decides what can be ridden.
- **The other slices of the compact context** (bike, records, due items, notes)
  and the ranking of summaries of other threads: they are read and formatted, and
  change no state. Their limits are constants of SQL statements.
- **The write policy of the assistant**: no registered tool mutates, so none of
  its confirmations can be asked for.
- **The decision on a claim** (`evaluate_claim_answer`, `decide_from_retrieval`,
  `evaluate_escalation` of `citations.py`): made for an agent to come
  (`citations.py:5`) and called by tests only. A reply is not checked against it, so
  nothing here says which claims a reply makes.
- **Tokens and signatures of webhooks**: a library verifies them; roles and
  entitlements, which are stored and which no route changes.
- **Powertrain columns** of a bike, on which a CHECK of the database and the
  schema of the request decide alike.
- **Wiring**: HTTP clients of AI providers (a call returns, fails, or is not
  configured), error responses, health checks, settings, the web
  application, migrations (their constraints are quoted where a property is
  about them), containers and evaluations.

## 7. What could follow

The modules were built in the order in which they matter: what loses or leaks an
owner's files first (the abstract job, checks, uploads), then what feeds search
(documents, extraction, index, chunks, searches), then what two requests can
break without a lock (bikes, sign-up, due state, rules, conversations), then
what reads only (turns, recommendations, the age gate).

What a next step would take up, in this order: `Dispatch`
under `AttachmentProcessing` and `DocumentIngestion` too, which still carry queues
of their own; searches inside a turn, that is `Retrieval` under `AssistantTurn`,
with the documents changing between the rounds of a turn.
