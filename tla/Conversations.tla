---------------------------- MODULE Conversations ----------------------------
(***************************************************************************)
(* One conversation thread of the assistant: messages, the rolling         *)
(* summary, switches of the bike the thread is about, the turn that asks   *)
(* the chat model for a reply, and deletion of the thread.                 *)
(*                                                                         *)
(* A request is one transaction, READ COMMITTED, and takes no lock of its  *)
(* own.  Inserting a message or a boundary keeps the thread's row from     *)
(* being deleted; updating the thread locks its row until commit.  A turn  *)
(* updates it when the question is stored and holds it while the model     *)
(* thinks, so that every other request waits at its own update, with what  *)
(* it has read and inserted before.                                        *)
(***************************************************************************)
EXTENDS Naturals, Sequences, FiniteSets, FiniteSetsExt

CONSTANTS
  Requests,   \* requests that may be in progress at the same time
  Bikes,      \* the rider's bikes
  Recent,     \* _SUMMARY_RECENT_TURNS
  MaxRounds,  \* MAX_TOOL_ROUNDS
  MaxLog,     \* bound: rows ever written to the thread
  Free,       \* the thread's row lock when nobody holds it
  Idle        \* the session of a request slot that is not in use

ASSUME Limits == Recent \in Nat \ {0} /\ MaxRounds \in Nat /\ MaxLog \in Nat
ASSUME NotARequest == Free \notin Requests /\ IsFiniteSet(Requests)
ASSUME NotAJob == "turn" \notin Bikes /\ "note" \notin Bikes

VARIABLES
  alive,    \* the thread exists
  bike,     \* its current_bike_id
  summary,  \* its rolling_summary: the messages it is made of
  log,      \* all rows written for it, by created_at: messages and boundaries
  kept,     \* the positions of the rows that are committed
  holder,   \* the request that holds the thread's row lock, or Free
  session,  \* what each request has read and written
  overlap   \* history: two requests were in progress at the same time

vars == <<alive, bike, summary, log, kept, holder, session, overlap>>
thread == <<alive, bike, summary>>

-----------------------------------------------------------------------------
Roles == {"user", "assistant", "note"}
Message == [kind: Roles, bike: Bikes]
Boundary == [kind: {"switch"}, from: Bikes, bike: Bikes, after: 0..MaxLog]
Positions == DOMAIN log

\* A user's message that is to be answered, a message stored as it is, or a
\* switch to a bike.
Jobs == {"turn", "note"} \union Bikes
Session == [stage: {"loaded", "inserted", "asking", "done"}, job: Jobs, bike: Bikes,
            rows: SUBSET (1..MaxLog), summary: SUBSET (1..MaxLog), rounds: 0..MaxRounds]

ASSUME NotASession == Idle \notin Session

Active(r) == session[r] # Idle
At(r, stage) == Active(r) /\ session[r].stage = stage
Switching(r) == session[r].job \in Bikes

TypeOK ==
  /\ alive \in BOOLEAN /\ bike \in Bikes
  /\ log \in Seq(Message \union Boundary) /\ Len(log) <= MaxLog
  /\ kept \subseteq Positions /\ summary \subseteq Positions
  /\ holder \in Requests \union {Free}
  /\ session \in [Requests -> Session \union {Idle}]
  /\ overlap \in BOOLEAN

Init ==
  /\ alive = TRUE /\ bike \in Bikes /\ summary = {}
  /\ log = <<>> /\ kept = {}
  /\ holder = Free
  /\ session = [r \in Requests |-> Idle]
  /\ overlap = FALSE

-----------------------------------------------------------------------------
Messages(rows) == {i \in rows : log[i].kind # "switch"}
LatestMessage == Max(Messages(kept) \union {0})

\* compress_rolling_summary: the newest turns.
Newest(rows) == {i \in rows : Cardinality({j \in rows : j > i}) < Recent}

\* Every row a running request may still write has a place in the log.
HasRoom == Len(log) + 2 * Cardinality({r \in Requests : Active(r)}) + 2 <= MaxLog

-----------------------------------------------------------------------------
(* The requests *)

\* _require: the thread as it is committed now.
Load(r, job) ==
  /\ ~Active(r) /\ alive /\ HasRoom
  /\ session' = [session EXCEPT ![r] =
                   [stage |-> "loaded", job |-> job, bike |-> bike,
                    rows |-> {}, summary |-> {}, rounds |-> 0]]
  /\ overlap' = (overlap \/ \E q \in Requests : Active(q))
  /\ UNCHANGED <<thread, log, kept, holder>>

\* Mutant: the summary counts rows that are not committed.
InsertDirty(r, row, next) ==
  /\ log' = Append(log, row)
  /\ LET new == Len(log) + 1 IN
       session' = [session EXCEPT
         ![r].stage = next, ![r].rows = @ \union {new},
         ![r].summary = Newest(Messages(Positions) \union {new})]

\* append_message: the row is inserted, then the summary is made of the messages
\* the transaction can see.
Insert(r, row, next) ==
  /\ log' = Append(log, row)
  /\ LET new == Len(log) + 1 IN
       session' = [session EXCEPT
         ![r].stage = next, ![r].rows = @ \union {new},
         ![r].summary = Newest(Messages(kept \union session[r].rows) \union {new})]

Post(r) ==
  /\ At(r, "loaded") /\ ~Switching(r) /\ alive
  /\ Insert(r, [kind |-> IF session[r].job = "turn" THEN "user" ELSE "note",
                bike |-> session[r].bike], "inserted")
  /\ UNCHANGED <<thread, kept, holder, overlap>>

\* switch_bike, to a bike the thread was not on when it was read.
Mark(r) ==
  /\ At(r, "loaded") /\ Switching(r) /\ alive
  /\ session[r].job # session[r].bike
  /\ log' = Append(log, [kind |-> "switch", from |-> session[r].bike,
                         bike |-> session[r].job, after |-> LatestMessage])
  /\ session' = [session EXCEPT ![r].stage = "inserted", ![r].rows = {Len(log) + 1}]
  /\ UNCHANGED <<thread, kept, holder, overlap>>

\* The insert fails because the thread was deleted, or there is nothing to switch.
GiveUp(r) ==
  /\ At(r, "loaded")
  /\ ~alive \/ session[r].job = session[r].bike
  /\ session' = [session EXCEPT ![r] = Idle]
  /\ UNCHANGED <<thread, log, kept, holder, overlap>>

\* Mutant: the turn goes on with the bike it has read first.
TouchStale(r) ==
  /\ At(r, "inserted")
  /\ holder = Free /\ holder' = r
  /\ session' = [session EXCEPT
       ![r].stage = IF session[r].job = "turn" THEN "asking" ELSE "done"]
  /\ UNCHANGED <<thread, log, kept, overlap>>

\* UPDATE conversations: waits for the row, and locks it.  A turn then reads the
\* thread again, for the context of the reply.
Touch(r) ==
  /\ At(r, "inserted")
  /\ holder = Free /\ holder' = r
  /\ session' = [session EXCEPT
       ![r].stage = IF session[r].job = "turn" THEN "asking" ELSE "done",
       ![r].bike = bike]
  /\ UNCHANGED <<thread, log, kept, overlap>>

-----------------------------------------------------------------------------
(* ReasoningAgent.run *)

\* Mutant: the count of the rounds starts over when it is used up.
UseToolsForEver(r) ==
  /\ At(r, "asking")
  /\ session' = [session EXCEPT ![r].rounds = (@ + 1) % MaxRounds]
  /\ UNCHANGED <<thread, log, kept, holder, overlap>>

\* The model asks for tools; their results go back to it.
UseTools(r) ==
  /\ At(r, "asking") /\ session[r].rounds < MaxRounds
  /\ session' = [session EXCEPT ![r].rounds = @ + 1]
  /\ UNCHANGED <<thread, log, kept, holder, overlap>>

\* Mutant: the summary is not refreshed for the reply.
AnswerOnly(r) ==
  /\ At(r, "asking") /\ session[r].rounds < MaxRounds
  /\ log' = Append(log, [kind |-> "assistant", bike |-> session[r].bike])
  /\ session' = [session EXCEPT ![r].stage = "done", ![r].rows = @ \union {Len(log) + 1}]
  /\ UNCHANGED <<thread, kept, holder, overlap>>

\* A final text: stored as the assistant's message.
Answer(r) ==
  /\ At(r, "asking") /\ session[r].rounds < MaxRounds
  /\ Insert(r, [kind |-> "assistant", bike |-> session[r].bike], "done")
  /\ UNCHANGED <<thread, kept, holder, overlap>>

\* No model, a failed or empty answer, too many rounds: the question stays.
NoAnswer(r) ==
  /\ At(r, "asking")
  /\ session' = [session EXCEPT ![r].stage = "done"]
  /\ UNCHANGED <<thread, log, kept, holder, overlap>>

Reply(r) == UseTools(r) \/ Answer(r) \/ NoAnswer(r)

-----------------------------------------------------------------------------
\* The update writes the columns that changed: the summary, or the bike.
Commit(r) ==
  /\ At(r, "done")
  /\ kept' = kept \union session[r].rows
  /\ bike' = IF Switching(r) THEN session[r].job ELSE bike
  /\ summary' = IF Switching(r) THEN summary ELSE session[r].summary
  /\ holder' = Free
  /\ session' = [session EXCEPT ![r] = Idle]
  /\ UNCHANGED <<alive, log, overlap>>

\* The request fails, its process stops, or the database breaks a deadlock.
Abort(r) ==
  /\ Active(r)
  /\ holder' = IF holder = r THEN Free ELSE holder
  /\ session' = [session EXCEPT ![r] = Idle]
  /\ UNCHANGED <<thread, log, kept, overlap>>

\* DELETE of the thread; messages and boundaries cascade.  It waits for all
\* requests that have inserted a row.
Delete ==
  /\ alive /\ \A r \in Requests : Active(r) => session[r].rows = {}
  /\ alive' = FALSE
  /\ kept' = {} /\ summary' = {}
  /\ UNCHANGED <<bike, log, holder, session, overlap>>

Step(r) == Post(r) \/ Mark(r) \/ GiveUp(r) \/ Commit(r)

Next ==
  \/ \E r \in Requests :
       \/ \E job \in Jobs : Load(r, job)
       \/ Step(r) \/ Touch(r) \/ Reply(r) \/ Abort(r)
  \/ Delete

Spec == Init /\ [][Next]_vars

\* Requests run on, calls of the model return or time out, and the database lets
\* requests that wait for a row have it in turn.
Fairness == \A r \in Requests : WF_vars(Step(r)) /\ WF_vars(Reply(r)) /\ SF_vars(Touch(r))

FairSpec == Spec /\ Fairness

-----------------------------------------------------------------------------
(* Properties *)

\* A deleted thread leaves no row behind, and none is added to it by requests
\* that began before the deletion.
DeletedIsEmpty == ~alive => kept = {}

\* The summary that other conversations search is made of committed messages
\* only: no message that was rolled back or deleted speaks from it.
SummaryIsKept == summary \subseteq Messages(kept)

Answers(r) == \E i \in session[r].rows : log[i].kind = "assistant"
CommitsAnswer(r) == Active(r) /\ Answers(r) /\ session'[r] = Idle /\ kept' # kept

\* A turn that was answered leaves the summary of all recent messages, whatever
\* was committed while it waited and while the model was thinking.
AnsweredSummaryIsCurrent ==
  [][\A r \in Requests : CommitsAnswer(r) => summary' = Newest(Messages(kept))']_vars

\* The reply is about the bike the thread is on when the reply is committed, also
\* when the bike was switched after the question was read.
AnswerFitsBike ==
  [][\A r \in Requests : CommitsAnswer(r) =>
       \A i \in session[r].rows : log[i].kind = "assistant" => log[i].bike = bike']_vars

\* Every request comes to an end: no turn asks the model for ever, and no two
\* requests wait for each other.
RequestsEnd == \A r \in Requests : Active(r) ~> ~Active(r)

\* While nothing is in progress, and nothing overlapped, the summary is the one of
\* the newest messages (compress_rolling_summary).
SummaryIsCurrent ==
  (~overlap /\ \A r \in Requests : ~Active(r)) => summary = Newest(Messages(kept))

Switches == {i \in kept : log[i].kind = "switch"}
NextSwitch(i, j) == i < j /\ j \in Switches /\ ~\E k \in Switches : i < k /\ k < j
LastSwitch(i, j) == i < j /\ i \in Switches /\ ~\E k \in Switches : i < k /\ k < j

\* One at a time, the boundaries tell the history of the thread: each starts at the
\* bike the one before led to, and the last one leads to the current bike.
BoundariesChain ==
  ~overlap =>
    /\ \A i, j \in Switches : NextSwitch(i, j) => log[j].from = log[i].bike
    /\ \A j \in Switches : log[j].from # log[j].bike
    /\ Switches # {} => bike = log[Max(Switches)].bike

\* One at a time, a message is stamped with the bike the thread was on: the one the
\* last boundary before it led to, or the first boundary after it leads away from.
StampsFollowBoundaries ==
  ~overlap => \A i \in Messages(kept) : \A j \in Switches :
    /\ LastSwitch(j, i) => log[i].bike = log[j].bike
    /\ NextSwitch(i, j) => log[i].bike = log[j].from

\* One at a time, the boundaries tell which bike the thread was on, whatever order
\* questions, replies and switches come in.
BoundariesTellHistory == BoundariesChain /\ StampsFollowBoundaries

\* What holds in every state: the types, nothing left of a deleted thread, and a
\* summary that is made of what is stored.
Inv ==
  /\ TypeOK
  /\ DeletedIsEmpty
  /\ SummaryIsKept
  /\ SummaryIsCurrent
  /\ BoundariesTellHistory
=============================================================================
