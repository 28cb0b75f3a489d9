------------------------------- MODULE Garage -------------------------------
(***************************************************************************)
(* The owner's bikes and the active one, under concurrent requests.        *)
(*                                                                         *)
(* Unlike uploads and documents, nothing here locks the users row.  A      *)
(* request reads a bike or the user, decides, and at the end writes the    *)
(* columns it changed with respect to what it read: the session's net      *)
(* change.  Another request may have committed in between.                 *)
(*                                                                         *)
(* The row of the owner is made by whichever request of a new owner comes  *)
(* first, or by the webhook of the identity provider, which is a slot like *)
(* the others: it signs in, and does nothing else.                         *)
(***************************************************************************)
EXTENDS Naturals, Sequences, FiniteSets

CONSTANTS
  Bikes,      \* identities of bikes, drawn when one is created
  Slots,      \* requests of this owner that run at the same time
  Readings,   \* meter readings
  Missing,    \* NULL, of a reading and of the active bike
  Idle        \* a slot without a request

ASSUME NoReading == Missing \notin Readings /\ Missing \notin Bikes

VARIABLES
  account,    \* the row of users is "absent" or "stored"
  bikes,      \* rows of bikes, by identity
  garage,     \* the identities in order of created_at
  active,     \* users.active_bike_id
  request,    \* what each slot has read and is about to write
  confirmed   \* history: the readings somebody confirmed, by bike

vars == <<account, bikes, garage, active, request, confirmed>>

-----------------------------------------------------------------------------
\* "inactive" is treated as "active" everywhere.
Statuses == {"active", "archive"}
Row == [hours: Readings \union {Missing}, estimated: BOOLEAN, status: Statuses]
Columns == {"hours", "estimated", "status"}

Owned == {garage[i] : i \in DOMAIN garage}
NotCreated == [hours |-> Missing, estimated |-> TRUE, status |-> "archive"]
Rideable == {b \in Owned : bikes[b].status # "archive"}

\* "columns" are those a request writes, "after" the row as it sees it.  The columns
\* its body names ("named"), and what was rideable at some moment ("during") and at
\* every moment ("throughout") since the request began, are history.
Requests ==
  LET Choices == Bikes \union {Missing}
      Sets == SUBSET Bikes IN
  [kind: {"sign_in", "sign_up"}]
    \union [kind: {"patch"}, bike: Bikes, named: SUBSET Columns, columns: SUBSET Columns, after: Row]
    \union [kind: {"resolve", "fall_back"}, read: Choices, during: Sets, throughout: Sets]
    \union [kind: {"persist"}, read: Choices, answer: Choices, during: Sets, throughout: Sets]

ASSUME NoRequest == Idle \notin Requests

TypeOK ==
  /\ account \in {"absent", "stored"}
  /\ bikes \in [Bikes -> Row]
  /\ garage \in Seq(Bikes) /\ \A i, j \in DOMAIN garage : garage[i] = garage[j] => i = j
  /\ \A b \in Bikes \ Owned : bikes[b] = NotCreated
  /\ active \in Owned \union {Missing}
  /\ request \in [Slots -> Requests \union {Idle}]
  /\ confirmed \in [Bikes -> SUBSET Readings]

Init ==
  /\ account = "absent"
  /\ bikes = [b \in Bikes |-> NotCreated]
  /\ garage = <<>>
  /\ active = Missing
  /\ request = [s \in Slots |-> Idle]
  /\ confirmed = [b \in Bikes |-> {}]

\* What this step makes rideable, or not, the requests for the active bike live through.
Noticed(rows, owned) ==
  LET rideable == {b \in owned : rows[b].status # "archive"} IN
  [s \in Slots |->
     IF request[s] # Idle /\ request[s].kind \in {"resolve", "fall_back", "persist"}
     THEN [request[s] EXCEPT !.during = @ \union rideable, !.throughout = @ \intersect rideable]
     ELSE request[s]]

-----------------------------------------------------------------------------
(* The owner: services/users.py *)

\* ensure() looks the identity up, and does not find it.
SignIn(s) ==
  /\ request[s] = Idle /\ account = "absent"
  /\ request' = [request EXCEPT ![s] = [kind |-> "sign_in"]]
  /\ UNCHANGED <<account, bikes, garage, active, confirmed>>

SigningUp == {s \in Slots : request[s] = [kind |-> "sign_up"]}

\* The INSERT, in a savepoint, waits for an uncommitted row with the same identity.  If
\* that row is committed, the savepoint is rolled back, the second lookup finds the
\* row, and the request goes on as any other (Idle: it begins).
SignUp(s) ==
  /\ request[s] = [kind |-> "sign_in"]
  /\ SigningUp = {}
  /\ request' = [request EXCEPT ![s] =
       IF account = "stored" THEN Idle ELSE [kind |-> "sign_up"]]
  /\ UNCHANGED <<account, bikes, garage, active, confirmed>>

\* The first request of an owner ends: with the transaction goes or stays the row.
Welcome(s) ==
  /\ s \in SigningUp
  /\ account' = "stored"
  /\ request' = [request EXCEPT ![s] = Idle]
  /\ UNCHANGED <<bikes, garage, active, confirmed>>

Rollback(s) ==
  /\ s \in SigningUp
  /\ request' = [request EXCEPT ![s] = Idle]
  /\ UNCHANGED <<account, bikes, garage, active, confirmed>>

-----------------------------------------------------------------------------
(* Bikes: services/bikes.py *)

\* POST /v1/bikes, one of an owner with a row or the first request of a new one: a
\* confirmed reading is a reading.
Create(b, hours, estimated, status) ==
  /\ b \notin Owned
  /\ hours = Missing => estimated
  /\ bikes' = [bikes EXCEPT ![b] = [hours |-> hours, estimated |-> estimated, status |-> status]]
  /\ garage' = Append(garage, b)
  /\ confirmed' = [confirmed EXCEPT ![b] = IF estimated THEN {} ELSE {hours}]
  /\ \/ account = "stored" /\ request' = Noticed(bikes', Owned \union {b})
     \/ \E s \in SigningUp : request' = [Noticed(bikes', Owned \union {b}) EXCEPT ![s] = Idle]
  /\ account' = "stored"
  /\ UNCHANGED active

\* Confirming needs a reading, in the patch or on the row.
Allowed(row, patch) ==
  LET after == [c \in Columns |-> IF c \in DOMAIN patch THEN patch[c] ELSE row[c]] IN
  ~("estimated" \in DOMAIN patch /\ ~after.estimated /\ after.hours = Missing)

\* Mutant: the whole row is written back.
WrittenRow(row, after) == Columns

\* The session writes what differs from the row it read.
Written(row, after) == {c \in Columns : row[c] # after[c]}

\* BikeService.update and _sync_bike_hours, up to the flush.
BeginPatch(s, b, patch) ==
  LET row == bikes[b]
      after == [c \in Columns |-> IF c \in DOMAIN patch THEN patch[c] ELSE row[c]] IN
  /\ request[s] = Idle /\ b \in Owned
  /\ Allowed(row, patch)
  /\ request' = [request EXCEPT ![s] =
       [kind |-> "patch", bike |-> b, named |-> DOMAIN patch,
        columns |-> Written(row, after), after |-> after]]
  /\ UNCHANGED <<account, bikes, garage, active, confirmed>>

\* The UPDATE waits for the other transaction's row lock, then sets its columns.
CommitPatch(s) ==
  /\ request[s] # Idle /\ request[s].kind = "patch"
  /\ LET r == request[s] IN
       /\ bikes' = [bikes EXCEPT ![r.bike] =
            [c \in Columns |-> IF c \in r.columns THEN r.after[c] ELSE @[c]]]
       /\ confirmed' = [confirmed EXCEPT ![r.bike] =
            IF r.after.estimated \/ r.after.hours = Missing THEN @ ELSE @ \union {r.after.hours}]
  /\ request' = [Noticed(bikes', Owned) EXCEPT ![s] = Idle]
  /\ UNCHANGED <<account, garage, active>>

-----------------------------------------------------------------------------
(* The active bike: services/active_bikes.py *)

\* PUT /v1/me/active-bike
BeginSelect(s, b) ==
  /\ request[s] = Idle /\ b \in Rideable
  /\ request' = [request EXCEPT ![s] =
       [kind |-> "persist", read |-> active, answer |-> b,
        during |-> Rideable, throughout |-> Rideable]]
  /\ UNCHANGED <<account, bikes, garage, active, confirmed>>

\* GET /v1/me/active-bike: the user has been read for the sign-in.
BeginResolve(s) ==
  /\ request[s] = Idle /\ account = "stored"
  /\ request' = [request EXCEPT ![s] = 
       [kind |-> "resolve", read |-> active, during |-> Rideable, throughout |-> Rideable]]
  /\ UNCHANGED <<account, bikes, garage, active, confirmed>>

Decided(r, bike) ==
  [kind |-> "persist", read |-> r.read, answer |-> bike,
   during |-> r.during, throughout |-> r.throughout]

\* Mutant: what is selected is not looked at again.
ReadSelectedAsIs(s) ==
  /\ request[s] # Idle /\ request[s].kind = "resolve"
  /\ LET r == request[s] IN
     request' = [request EXCEPT ![s] =
       IF r.read # Missing
       THEN Decided(r, r.read)
       ELSE [r EXCEPT !.kind = "fall_back"]]
  /\ UNCHANGED <<account, bikes, garage, active, confirmed>>

ReadSelected(s) ==
  /\ request[s] # Idle /\ request[s].kind = "resolve"
  /\ LET r == request[s] IN
     request' = [request EXCEPT ![s] =
       IF r.read \in Rideable
       THEN Decided(r, r.read)
       ELSE [r EXCEPT !.kind = "fall_back"]]
  /\ UNCHANGED <<account, bikes, garage, active, confirmed>>

\* The first bike of the list that is not archived.  The selected one was loaded
\* before and is not read again.
ReadList(s) ==
  /\ request[s] # Idle /\ request[s].kind = "fall_back"
  /\ LET r == request[s]
         rest == {i \in DOMAIN garage : garage[i] \in Rideable /\ garage[i] # r.read} IN
     \/ rest = {} /\ request' = [request EXCEPT ![s] = Decided(r, Missing)]
     \/ \E i \in rest :
          /\ \A j \in rest : i <= j
          /\ request' = [request EXCEPT ![s] = Decided(r, garage[i])]
  /\ UNCHANGED <<account, bikes, garage, active, confirmed>>

\* _persist writes unless the user read has it already.
CommitActive(s) ==
  /\ request[s] # Idle /\ request[s].kind = "persist"
  /\ active' = IF request[s].answer # request[s].read THEN request[s].answer ELSE active
  /\ request' = [request EXCEPT ![s] = Idle]
  /\ UNCHANGED <<account, bikes, garage, confirmed>>

-----------------------------------------------------------------------------
\* What the routes accept: PATCH /v1/bikes/{id} names any columns, the form of a bike
\* all of them; the meter routes and a service log name the reading and its flag.
Patches == {[c \in C |-> row[c]] : C \in SUBSET Columns, row \in Row}

Next ==
  \/ \E b \in Bikes, hours \in Readings \union {Missing}, e \in BOOLEAN, t \in Statuses :
       Create(b, hours, e, t)
  \/ \E s \in Slots :
       \/ SignIn(s) \/ SignUp(s) \/ Welcome(s) \/ Rollback(s)
       \/ \E b \in Bikes, patch \in Patches : BeginPatch(s, b, patch)
       \/ CommitPatch(s)
       \/ \E b \in Bikes : BeginSelect(s, b)
       \/ BeginResolve(s)
       \/ ReadSelected(s)
       \/ ReadList(s)
       \/ CommitActive(s)

Spec == Init /\ [][Next]_vars

-----------------------------------------------------------------------------
(* Properties *)

\* There is one row of the owner, however many requests come first, and whichever of
\* them fails: what a request finds, or makes, is what its bikes belong to.
OneOwner ==
  /\ \A s, t \in SigningUp : s = t
  /\ SigningUp # {} => account = "absent"
  /\ Owned # {} => account = "stored"

\* The bike a request answers with could be ridden at some moment while the
\* request ran: an archived bike is only answered when it was archived meanwhile.
AnswersAreRideable ==
  \A s \in Slots :
    (request[s] # Idle /\ request[s].kind = "persist" /\ request[s].answer # Missing) =>
      request[s].answer \in request[s].during

\* No bike is answered only when every bike was archived, or not there yet, at some
\* moment of the request: a rider with a rideable bike is never left without one.
NeverLeftWithout ==
  \A s \in Slots :
    (request[s] # Idle /\ request[s].kind = "persist" /\ request[s].answer = Missing) =>
      request[s].throughout = {}

\* A request never takes back what another one has committed to a column that its own
\* body leaves out: archiving a bike, from however old a page, keeps the reading that
\* was stored meanwhile, and a new reading keeps the status.
OmittedColumnsStay ==
  [][\A s \in Slots :
       (request[s] # Idle /\ request[s].kind = "patch" /\ request'[s] = Idle) =>
         \A b \in Bikes, c \in Columns \ request[s].named : bikes'[b][c] = bikes[b][c]]_vars

\* "Estimated and confirmed meter readings stay distinct": a reading that is
\* stored as confirmed is one that somebody confirmed.
ReadingsStayDistinct ==
  \A b \in Owned :
    (~bikes[b].estimated /\ bikes[b].hours # Missing) => bikes[b].hours \in confirmed[b]

\* What holds in every state: the types, one owner, and answers about the active bike
\* that were true at some moment of the request.
Inv ==
  /\ TypeOK
  /\ OneOwner
  /\ AnswersAreRideable
  /\ NeverLeftWithout
=============================================================================
