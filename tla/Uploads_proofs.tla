--------------------------- MODULE Uploads_proofs ---------------------------
(***************************************************************************)
(* Theorems of Uploads, for any set of files, requests and link targets,   *)
(* any file sizes and any life of a grant.                                 *)
(***************************************************************************)
EXTENDS Uploads, FiniteInduction, TLAPS

\* Whoever is at work holds the owner's lock, so no two are.
LockHeld == \A r \in Requests : stage[r] # "idle" => owner = r

\* What a request found when it started is still so: nobody else changes it.
WorkOK(r) ==
  /\ stage[r] \in {"reserved", "signed", "stamped"} => status[file[r]] = "none"
  /\ stage[r] = "stamped" => age[file[r]] <= grant[file[r]]
  /\ stage[r] = "verified" => status[file[r]] = "pending" /\ file[r] \in object
  /\ stage[r] \in {"removing", "removed"} =>
       status[file[r]] \in Stored /\ age[file[r]] = GrantPeriod
  /\ stage[r] = "removed" => file[r] \notin object

\* A grant is never younger than the row it was signed for, so that it is dead
\* when the row may be deleted.
GrantOK(a) ==
  /\ status[a] \in Stored => age[a] <= grant[a]
  /\ status[a] = "deleted" => grant[a] = GrantPeriod /\ a \notin object

IInv ==
  /\ TypeOK
  /\ LockHeld
  /\ \A r \in Requests : WorkOK(r)
  /\ \A a \in Attachments : GrantOK(a)
  /\ YoungUploadHasObject
  /\ LinksAreToFiles

-----------------------------------------------------------------------------
\* A capped age stays in range and never falls (Tick).
LEMMA OlderType ==
  ASSUME NEW n \in 0..GrantPeriod
  PROVE  Older(n) \in 0..GrantPeriod /\ Older(n) >= n
BY GrantLasts DEF Older

\* While one request is at work every other is idle (the row lock of the owner).
LEMMA OnlyOne ==
  ASSUME LockHeld, NEW r \in Requests, stage[r] # "idle", NEW q \in Requests, q # r
  PROVE  stage[q] = "idle"
BY DEF LockHeld

\* While nobody holds the lock every request is idle.
LEMMA FreeMeansIdle ==
  ASSUME LockHeld, owner = Free, NEW q \in Requests
  PROVE  stage[q] = "idle"
BY NotARequest DEF LockHeld

\* Every request that is not idle works on a file.
LEMMA WorksOnFile ==
  ASSUME TypeOK, NEW r \in Requests, stage[r] # "idle"
  PROVE  file[r] \in Attachments
BY DEF TypeOK

\* Starting takes the lock, for the starter alone.
LEMMA StartLock ==
  ASSUME TypeOK, LockHeld, NEW r \in Requests, NEW a \in Attachments,
         NEW first \in Stages \ {"idle"}, Start(r, a, first)
  PROVE  /\ LockHeld' /\ stage'[r] = first /\ file'[r] = a
         /\ \A q \in Requests : q # r => stage'[q] = "idle"
         /\ stage' \in [Requests -> Stages]
         /\ file' \in [Requests -> Attachments \union {NoFile}]
         /\ owner' \in Requests \union {Free}
         /\ \A q \in Requests : stage'[q] # "idle" => file'[q] \in Attachments
<1>1. \A q \in Requests : stage[q] = "idle"
  BY FreeMeansIdle DEF Start, LockOwner
<1>2. stage' = [stage EXCEPT ![r] = first] /\ file' = [file EXCEPT ![r] = a] /\ owner' = r
  BY DEF Start, LockOwner
<1>3. QED BY <1>1, <1>2 DEF TypeOK, LockHeld

\* Going on keeps it.
LEMMA GotoLock ==
  ASSUME TypeOK, LockHeld, NEW r \in Requests, NEW from \in Stages \ {"idle"},
         NEW to \in Stages \ {"idle"}, Goto(r, from, to)
  PROVE  /\ LockHeld' /\ stage[r] = from /\ stage'[r] = to
         /\ file[r] \in Attachments /\ file' = file
         /\ \A q \in Requests : q # r => stage'[q] = "idle"
         /\ stage' \in [Requests -> Stages]
         /\ owner' \in Requests \union {Free}
         /\ \A q \in Requests : stage'[q] # "idle" => file'[q] \in Attachments
<1>1. stage[r] = from /\ stage' = [stage EXCEPT ![r] = to] /\ UNCHANGED <<owner, file>>
  BY DEF Goto
<1>2. \A q \in Requests : q # r => stage[q] = "idle"
  BY <1>1, OnlyOne
<1>3. QED BY <1>1, <1>2 DEF TypeOK, LockHeld

\* Ending releases it, and then everybody is idle.
LEMMA EndLock ==
  ASSUME TypeOK, LockHeld, NEW r \in Requests, NEW last \in Stages \ {"idle"}, End(r, last)
  PROVE  /\ LockHeld' /\ stage[r] = last /\ file[r] \in Attachments
         /\ \A q \in Requests : stage'[q] = "idle"
         /\ stage' \in [Requests -> Stages]
         /\ file' \in [Requests -> Attachments \union {NoFile}]
         /\ owner' \in Requests \union {Free}
<1>1. stage[r] = last /\ stage' = [stage EXCEPT ![r] = "idle"]
        /\ file' = [file EXCEPT ![r] = NoFile] /\ owner' = Free
  BY DEF End
<1>2. \A q \in Requests : q # r => stage[q] = "idle"
  BY <1>1, OnlyOne
<1>3. QED BY <1>1, <1>2 DEF TypeOK, LockHeld, Stages

\* An idle request has nothing to be right about.
LEMMA IdleWork ==
  ASSUME NEW r \in Requests, stage[r] = "idle"
  PROVE  WorkOK(r)
BY DEF WorkOK

-----------------------------------------------------------------------------
LEMMA InitInv == Init => IInv
<1> SUFFICES ASSUME Init PROVE IInv
  OBVIOUS
<1>1. TypeOK
  BY GrantLasts DEF Init, TypeOK, Stages, Stored
<1>2. LockHeld /\ \A r \in Requests : WorkOK(r)
  BY DEF Init, LockHeld, WorkOK
<1>3. \A a \in Attachments : GrantOK(a)
  BY DEF Init, GrantOK, Stored
<1>4. YoungUploadHasObject /\ LinksAreToFiles
  BY DEF Init, YoungUploadHasObject, LinksAreToFiles
<1>5. QED BY <1>1, <1>2, <1>3, <1>4 DEF IInv

\* The requests' own steps.
LEMMA StepInv ==
  ASSUME IInv, NEW r \in Requests, Step(r)
  PROVE  IInv'
<1> USE GrantLasts
<1> DEFINE a == file[r]
<1>0. TypeOK /\ LockHeld /\ WorkOK(r)
  BY DEF IInv
<1>1. CASE SignGrant(r)
  <2>1. Goto(r, "reserved", "signed") /\ grant' = [grant EXCEPT ![a] = 0]
          /\ UNCHANGED <<rows, age, object, links, records>>
    BY <1>1 DEF SignGrant
  <2>2. /\ LockHeld' /\ stage[r] = "reserved" /\ stage'[r] = "signed"
        /\ a \in Attachments /\ file' = file
        /\ \A q \in Requests : q # r => stage'[q] = "idle"
        /\ stage' \in [Requests -> Stages]
        /\ owner' \in Requests \union {Free}
        /\ \A q \in Requests : stage'[q] # "idle" => file'[q] \in Attachments
    BY <1>0, <2>1, GotoLock DEF Stages
  <2>3. status[a] = "none"
    BY <1>0, <2>2 DEF WorkOK
  <2>4. TypeOK'
    BY <1>0, <2>1, <2>2 DEF TypeOK, rows
  <2>5. \A q \in Requests : WorkOK(q)'
    BY <2>1, <2>2, <2>3 DEF WorkOK, rows
  <2>6. \A b \in Attachments : GrantOK(b)'
    BY <1>0, <2>1, <2>2, <2>3 DEF IInv, GrantOK, rows, TypeOK, Stored
  <2>7. QED BY <2>1, <2>2, <2>4, <2>5, <2>6
            DEF IInv, YoungUploadHasObject, LinksAreToFiles, rows
<1>2. CASE StampRow(r)
  <2>1. Goto(r, "signed", "stamped") /\ age' = [age EXCEPT ![a] = 0]
          /\ UNCHANGED <<rows, grant, object, links, records>>
    BY <1>2 DEF StampRow
  <2>2. /\ LockHeld' /\ stage[r] = "signed" /\ stage'[r] = "stamped"
        /\ a \in Attachments /\ file' = file
        /\ \A q \in Requests : q # r => stage'[q] = "idle"
        /\ stage' \in [Requests -> Stages]
        /\ owner' \in Requests \union {Free}
        /\ \A q \in Requests : stage'[q] # "idle" => file'[q] \in Attachments
    BY <1>0, <2>1, GotoLock DEF Stages
  <2>3. status[a] = "none" /\ grant[a] \in 0..GrantPeriod /\ age'[a] = 0
    BY <1>0, <2>1, <2>2 DEF WorkOK, TypeOK
  <2>4. TypeOK'
    BY <1>0, <2>1, <2>2 DEF TypeOK, rows
  <2>5. \A q \in Requests : WorkOK(q)'
    BY <2>1, <2>2, <2>3 DEF WorkOK, rows
  <2>6. \A b \in Attachments : b # a => age'[b] = age[b]
    BY <1>0, <2>1, <2>2 DEF TypeOK
  <2>7. \A b \in Attachments : GrantOK(b)'
    BY <2>1, <2>3, <2>6 DEF IInv, GrantOK, rows, Stored
  <2>8. YoungUploadHasObject'
    BY <2>1, <2>3, <2>6 DEF IInv, YoungUploadHasObject, rows
  <2>9. QED BY <2>1, <2>2, <2>4, <2>5, <2>7, <2>8 DEF IInv, LinksAreToFiles, rows
<1>3. CASE CommitRow(r)
  <2>1. End(r, "stamped") /\ status' = [status EXCEPT ![a] = "pending"]
          /\ UNCHANGED <<size, ages, object, links, records>>
    BY <1>3 DEF CommitRow
  <2>2. /\ LockHeld' /\ stage[r] = "stamped" /\ a \in Attachments
        /\ \A q \in Requests : stage'[q] = "idle"
        /\ stage' \in [Requests -> Stages]
        /\ file' \in [Requests -> Attachments \union {NoFile}]
        /\ owner' \in Requests \union {Free}
    BY <1>0, <2>1, EndLock DEF Stages
  <2>3. status[a] = "none" /\ age[a] <= grant[a] /\ status'[a] = "pending"
          /\ \A b \in Attachments : b # a => status'[b] = status[b]
    BY <1>0, <2>1, <2>2 DEF WorkOK, TypeOK
  <2>4. TypeOK'
    BY <1>0, <2>1, <2>2 DEF TypeOK, ages, Stored
  <2>5. \A q \in Requests : WorkOK(q)'
    BY <2>2 DEF WorkOK
  <2>6. \A b \in Attachments : GrantOK(b)'
    BY <2>1, <2>3 DEF IInv, GrantOK, ages
  <2>7. YoungUploadHasObject'
    BY <2>1, <2>3 DEF IInv, YoungUploadHasObject, ages
  <2>8. LinksAreToFiles'
    BY <1>0, <2>1, <2>3 DEF IInv, LinksAreToFiles, TypeOK
  <2>9. QED BY <2>2, <2>4, <2>5, <2>6, <2>7, <2>8 DEF IInv
<1>4. CASE CommitUploaded(r)
  <2>1. End(r, "verified") /\ status' = [status EXCEPT ![a] = "uploaded"]
          /\ UNCHANGED <<size, ages, object, links, records>>
    BY <1>4 DEF CommitUploaded
  <2>2. /\ LockHeld' /\ stage[r] = "verified" /\ a \in Attachments
        /\ \A q \in Requests : stage'[q] = "idle"
        /\ stage' \in [Requests -> Stages]
        /\ file' \in [Requests -> Attachments \union {NoFile}]
        /\ owner' \in Requests \union {Free}
    BY <1>0, <2>1, EndLock DEF Stages
  <2>3. status[a] = "pending" /\ a \in object /\ status'[a] = "uploaded"
          /\ \A b \in Attachments : b # a => status'[b] = status[b]
    BY <1>0, <2>1, <2>2 DEF WorkOK, TypeOK
  <2>4. TypeOK'
    BY <1>0, <2>1, <2>2 DEF TypeOK, ages, Stored
  <2>5. \A q \in Requests : WorkOK(q)'
    BY <2>2 DEF WorkOK
  <2>6. \A b \in Attachments : GrantOK(b)'
    BY <2>1, <2>3 DEF IInv, GrantOK, ages, Stored
  <2>7. YoungUploadHasObject'
    BY <2>1, <2>3 DEF IInv, YoungUploadHasObject, ages
  <2>8. LinksAreToFiles'
    BY <1>0, <2>1, <2>3 DEF IInv, LinksAreToFiles, TypeOK
  <2>9. QED BY <2>2, <2>4, <2>5, <2>6, <2>7, <2>8 DEF IInv
<1>5. CASE RemoveObject(r)
  <2>1. Goto(r, "removing", "removed") /\ object' = object \ {a}
          /\ UNCHANGED <<rows, ages, links, records>>
    BY <1>5 DEF RemoveObject
  <2>2. /\ LockHeld' /\ stage[r] = "removing" /\ stage'[r] = "removed"
        /\ a \in Attachments /\ file' = file
        /\ \A q \in Requests : q # r => stage'[q] = "idle"
        /\ stage' \in [Requests -> Stages]
        /\ owner' \in Requests \union {Free}
        /\ \A q \in Requests : stage'[q] # "idle" => file'[q] \in Attachments
    BY <1>0, <2>1, GotoLock DEF Stages
  <2>3. status[a] \in Stored /\ age[a] = GrantPeriod
    BY <1>0, <2>2 DEF WorkOK
  <2>4. TypeOK'
    BY <1>0, <2>1, <2>2 DEF TypeOK, rows, ages
  <2>5. \A q \in Requests : WorkOK(q)'
    BY <2>1, <2>2, <2>3 DEF WorkOK, rows, ages
  <2>6. \A b \in Attachments : GrantOK(b)'
    BY <2>1 DEF IInv, GrantOK, rows, ages
  <2>7. YoungUploadHasObject'
    BY <2>1, <2>3 DEF IInv, YoungUploadHasObject, rows, ages
  <2>8. QED BY <2>1, <2>2, <2>4, <2>5, <2>6, <2>7 DEF IInv, LinksAreToFiles, rows
<1>6. CASE CommitDelete(r)
  <2>1. End(r, "removed") /\ status' = [status EXCEPT ![a] = "deleted"]
          /\ links' = {l \in links : l[1] # a}
          /\ UNCHANGED <<size, ages, object, records>>
    BY <1>6 DEF CommitDelete
  <2>2. /\ LockHeld' /\ stage[r] = "removed" /\ a \in Attachments
        /\ \A q \in Requests : stage'[q] = "idle"
        /\ stage' \in [Requests -> Stages]
        /\ file' \in [Requests -> Attachments \union {NoFile}]
        /\ owner' \in Requests \union {Free}
    BY <1>0, <2>1, EndLock DEF Stages
  <2>3. status[a] \in Stored /\ age[a] = GrantPeriod /\ a \notin object
          /\ status'[a] = "deleted"
          /\ \A b \in Attachments : b # a => status'[b] = status[b]
    BY <1>0, <2>1, <2>2 DEF WorkOK, TypeOK
  <2>4. grant[a] = GrantPeriod
    <3>1. age[a] <= grant[a] /\ grant[a] \in 0..GrantPeriod
      BY <1>0, <2>2, <2>3 DEF IInv, GrantOK, TypeOK
    <3>2. QED BY <2>3, <3>1
  <2>5. TypeOK'
    BY <1>0, <2>1, <2>2 DEF TypeOK, ages, Stored
  <2>6. \A q \in Requests : WorkOK(q)'
    BY <2>2 DEF WorkOK
  <2>7. \A b \in Attachments : GrantOK(b)'
    BY <2>1, <2>3, <2>4 DEF IInv, GrantOK, ages, Stored
  <2>8. YoungUploadHasObject'
    BY <2>1, <2>3 DEF IInv, YoungUploadHasObject, ages
  <2>9. LinksAreToFiles'
    <3> SUFFICES ASSUME NEW l \in links' PROVE status'[l[1]] = "uploaded"
      BY DEF LinksAreToFiles
    <3>1. l \in links /\ l[1] # a /\ l[1] \in Attachments
      BY <1>0, <2>1 DEF TypeOK
    <3>2. QED BY <2>3, <3>1 DEF IInv, LinksAreToFiles
  <2>10. QED BY <2>2, <2>5, <2>6, <2>7, <2>8, <2>9 DEF IInv
<1>7. QED BY <1>1, <1>2, <1>3, <1>4, <1>5, <1>6 DEF Step

\* The requests' first steps: nothing but the lock and the new file is touched,
\* but for the size of an upload that has no row yet.
LEMMA StartInv ==
  ASSUME IInv, NEW r \in Requests, NEW a \in Attachments,
         \/ \E n \in Bytes : Reserve(r, a, n)
         \/ Verify(r, a)
         \/ BeginDelete(r, a)
  PROVE  IInv'
<1>0. TypeOK /\ LockHeld
  BY DEF IInv
<1>1. CASE \E n \in Bytes : Reserve(r, a, n)
  <2>1. PICK n \in Bytes : Reserve(r, a, n)
    BY <1>1
  <2>2. status[a] = "none" /\ Start(r, a, "reserved") /\ size' = [size EXCEPT ![a] = n]
          /\ UNCHANGED <<status, ages, object, links, records>>
    BY <2>1 DEF Reserve
  <2>3. /\ LockHeld' /\ stage'[r] = "reserved" /\ file'[r] = a
        /\ \A q \in Requests : q # r => stage'[q] = "idle"
        /\ stage' \in [Requests -> Stages]
        /\ file' \in [Requests -> Attachments \union {NoFile}]
        /\ owner' \in Requests \union {Free}
        /\ \A q \in Requests : stage'[q] # "idle" => file'[q] \in Attachments
    BY <1>0, <2>2, StartLock DEF Stages
  <2>4. TypeOK'
    BY <1>0, <2>2, <2>3 DEF TypeOK, ages
  <2>5. \A q \in Requests : WorkOK(q)'
    BY <2>2, <2>3 DEF WorkOK
  <2>6. QED BY <2>2, <2>3, <2>4, <2>5
            DEF IInv, GrantOK, YoungUploadHasObject, LinksAreToFiles, ages
<1>2. CASE Verify(r, a)
  <2>1. status[a] = "pending" /\ a \in object /\ Start(r, a, "verified")
          /\ UNCHANGED <<rows, ages, object, links, records>>
    BY <1>2 DEF Verify
  <2>2. /\ LockHeld' /\ stage'[r] = "verified" /\ file'[r] = a
        /\ \A q \in Requests : q # r => stage'[q] = "idle"
        /\ stage' \in [Requests -> Stages]
        /\ file' \in [Requests -> Attachments \union {NoFile}]
        /\ owner' \in Requests \union {Free}
        /\ \A q \in Requests : stage'[q] # "idle" => file'[q] \in Attachments
    BY <1>0, <2>1, StartLock DEF Stages
  <2>3. TypeOK'
    BY <1>0, <2>1, <2>2 DEF TypeOK, rows, ages
  <2>4. \A q \in Requests : WorkOK(q)'
    BY <2>1, <2>2 DEF WorkOK, rows
  <2>5. QED BY <2>1, <2>2, <2>3, <2>4
            DEF IInv, GrantOK, YoungUploadHasObject, LinksAreToFiles, rows, ages
<1>3. CASE BeginDelete(r, a)
  <2>1. status[a] \in Stored /\ age[a] = GrantPeriod /\ Start(r, a, "removing")
          /\ UNCHANGED <<rows, ages, object, links, records>>
    BY <1>3 DEF BeginDelete, Removable
  <2>2. /\ LockHeld' /\ stage'[r] = "removing" /\ file'[r] = a
        /\ \A q \in Requests : q # r => stage'[q] = "idle"
        /\ stage' \in [Requests -> Stages]
        /\ file' \in [Requests -> Attachments \union {NoFile}]
        /\ owner' \in Requests \union {Free}
        /\ \A q \in Requests : stage'[q] # "idle" => file'[q] \in Attachments
    BY <1>0, <2>1, StartLock DEF Stages
  <2>3. TypeOK'
    BY <1>0, <2>1, <2>2 DEF TypeOK, rows, ages
  <2>4. \A q \in Requests : WorkOK(q)'
    BY <2>1, <2>2 DEF WorkOK, rows, ages, Stored
  <2>5. QED BY <2>1, <2>2, <2>3, <2>4
            DEF IInv, GrantOK, YoungUploadHasObject, LinksAreToFiles, rows, ages
<1>4. QED BY <1>1, <1>2, <1>3

\* A request that stops half-way: an upload that was never committed leaves an
\* id that no row will ever have, a deletion leaves the row it would have deleted.
LEMMA AbortInv ==
  ASSUME IInv, NEW r \in Requests, Abort(r)
  PROVE  IInv'
<1> DEFINE a == file[r]
<1>1. End(r, stage[r]) /\ stage[r] # "idle" /\ UNCHANGED <<size, ages, object, links, records>>
  BY DEF Abort
<1>2. TypeOK /\ LockHeld /\ WorkOK(r) /\ stage[r] \in Stages \ {"idle"}
  BY <1>1 DEF IInv, TypeOK
<1>3. /\ LockHeld' /\ a \in Attachments
      /\ \A q \in Requests : stage'[q] = "idle"
      /\ stage' \in [Requests -> Stages]
      /\ file' \in [Requests -> Attachments \union {NoFile}]
      /\ owner' \in Requests \union {Free}
  BY <1>1, <1>2, EndLock
<1>4. \A b \in Attachments :
        status'[b] = status[b] \/ (status[b] = "none" /\ status'[b] = "void")
  BY <1>2, <1>3 DEF Abort, WorkOK, TypeOK
<1>5. TypeOK'
  BY <1>1, <1>2, <1>3 DEF Abort, TypeOK, ages
<1>6. \A q \in Requests : WorkOK(q)'
  BY <1>3 DEF WorkOK
<1>7. (\A b \in Attachments : GrantOK(b)') /\ YoungUploadHasObject'
  BY <1>1, <1>4 DEF IInv, GrantOK, YoungUploadHasObject, Stored, ages
<1>8. LinksAreToFiles'
  <2> SUFFICES ASSUME NEW l \in links PROVE status'[l[1]] = "uploaded"
    BY <1>1 DEF LinksAreToFiles
  <2>1. l[1] \in Attachments /\ status[l[1]] = "uploaded"
    BY <1>2 DEF IInv, LinksAreToFiles, TypeOK
  <2>2. QED BY <1>4, <2>1
<1>9. QED BY <1>3, <1>5, <1>6, <1>7, <1>8 DEF IInv

\* Linking and unlinking change the links only, and link uploaded files only.
LEMMA LinkInv ==
  ASSUME IInv, NEW r \in Requests, NEW a \in Attachments, NEW t \in Targets,
         Link(r, a, t) \/ Unlink(r, a, t)
  PROVE  IInv'
<1>1. UNCHANGED <<status, size, age, grant, object, records, owner, stage, file>>
  BY DEF Link, Unlink, rows, ages
<1>2. links' \subseteq Attachments \X Targets
  BY DEF IInv, TypeOK, Link, Unlink
<1>3. TypeOK' /\ LockHeld' /\ \A q \in Requests : WorkOK(q)'
  BY <1>1, <1>2 DEF IInv, TypeOK, LockHeld, WorkOK
<1>4. (\A b \in Attachments : GrantOK(b)') /\ YoungUploadHasObject'
  BY <1>1 DEF IInv, GrantOK, YoungUploadHasObject
<1>5. LinksAreToFiles'
  BY <1>1 DEF IInv, LinksAreToFiles, Link, Unlink
<1>6. QED BY <1>3, <1>4, <1>5 DEF IInv

\* A client's transfer: its grant lives, so its file is neither deleted nor
\* being deleted.
LEMMA TransferInv ==
  ASSUME IInv, NEW a \in Attachments, Transfer(a)
  PROVE  IInv'
<1>1. grant[a] < GrantPeriod /\ object' = object \union {a}
        /\ UNCHANGED <<status, size, age, grant, links, records, owner, stage, file>>
  BY DEF Transfer, rows, ages
<1>2. TypeOK
  BY DEF IInv
<1>3. status[a] # "deleted" /\ (status[a] \in Stored => age[a] # GrantPeriod)
  <2>1. age[a] \in 0..GrantPeriod /\ grant[a] \in 0..GrantPeriod /\ GrantOK(a)
    BY <1>2 DEF TypeOK, IInv
  <2>2. QED BY <1>1, <2>1, GrantLasts DEF GrantOK
<1>4. TypeOK' /\ LockHeld'
  BY <1>1 DEF IInv, TypeOK, LockHeld
<1>5. \A q \in Requests : WorkOK(q)'
  BY <1>1, <1>3 DEF IInv, WorkOK
<1>6. (\A b \in Attachments : GrantOK(b)') /\ YoungUploadHasObject' /\ LinksAreToFiles'
  BY <1>1, <1>3 DEF IInv, GrantOK, YoungUploadHasObject, LinksAreToFiles
<1>7. QED BY <1>4, <1>5, <1>6 DEF IInv

\* Deleting a service record touches no file and no link.
LEMMA DeleteRecordInv ==
  ASSUME IInv, NEW t \in Records, DeleteRecord(t)
  PROVE  IInv'
<1>1. records' \subseteq Records
        /\ UNCHANGED <<status, size, age, grant, object, links, owner, stage, file>>
  BY DEF IInv, TypeOK, DeleteRecord, rows, ages
<1>2. QED BY <1>1
          DEF IInv, TypeOK, LockHeld, WorkOK, GrantOK, YoungUploadHasObject, LinksAreToFiles

\* Time passes for a row and its grant alike.
LEMMA TickInv ==
  ASSUME IInv, Tick
  PROVE  IInv'
<1> USE GrantLasts
<1>1. /\ \A a \in Attachments : age'[a] = Older(age[a]) /\ grant'[a] = Older(grant[a])
      /\ UNCHANGED <<status, size, object, links, records, owner, stage, file>>
  BY DEF Tick, rows
<1>2. TypeOK
  BY DEF IInv
<1>3. \A a \in Attachments : age[a] \in 0..GrantPeriod /\ grant[a] \in 0..GrantPeriod
  BY <1>2 DEF TypeOK
<1>4. TypeOK'
  <2>1. age' \in [Attachments -> 0..GrantPeriod] /\ grant' \in [Attachments -> 0..GrantPeriod]
    BY <1>3, OlderType DEF Tick
  <2>2. QED BY <1>1, <1>2, <2>1 DEF TypeOK
<1>5. \A a \in Attachments :
        /\ age[a] <= grant[a] => age'[a] <= grant'[a]
        /\ age[a] = GrantPeriod => age'[a] = GrantPeriod
        /\ grant[a] = GrantPeriod => grant'[a] = GrantPeriod
        /\ age'[a] < GrantPeriod => age[a] < GrantPeriod
  BY <1>1, <1>3 DEF Older
<1>6. LockHeld' /\ LinksAreToFiles'
  BY <1>1 DEF IInv, LockHeld, LinksAreToFiles
<1>7. \A q \in Requests : WorkOK(q)'
  <2> SUFFICES ASSUME NEW q \in Requests, stage[q] # "idle" PROVE WorkOK(q)'
    BY <1>1 DEF WorkOK
  <2>1. file[q] \in Attachments /\ WorkOK(q)
    BY <1>2, WorksOnFile DEF IInv
  <2>2. QED BY <1>1, <1>5, <2>1 DEF WorkOK
<1>8. (\A a \in Attachments : GrantOK(a)') /\ YoungUploadHasObject'
  BY <1>1, <1>5 DEF IInv, GrantOK, YoungUploadHasObject
<1>9. QED BY <1>4, <1>6, <1>7, <1>8 DEF IInv

-----------------------------------------------------------------------------
LEMMA NextInv == IInv /\ [Next]_vars => IInv'
<1> SUFFICES ASSUME IInv, [Next]_vars PROVE IInv'
  OBVIOUS
<1>1. CASE \E r \in Requests : Step(r)
  BY <1>1, StepInv
<1>2. CASE \E r \in Requests : Abort(r)
  BY <1>2, AbortInv
<1>3. CASE \E r \in Requests, a \in Attachments :
             (\E n \in Bytes : Reserve(r, a, n)) \/ Verify(r, a) \/ BeginDelete(r, a)
  BY <1>3, StartInv
<1>4. CASE \E r \in Requests, a \in Attachments, t \in Targets : Link(r, a, t) \/ Unlink(r, a, t)
  BY <1>4, LinkInv
<1>5. CASE \E a \in Attachments : Transfer(a)
  BY <1>5, TransferInv
<1>6. CASE \E t \in Records : DeleteRecord(t)
  BY <1>6, DeleteRecordInv
<1>7. CASE Tick
  BY <1>7, TickInv
<1>8. CASE UNCHANGED vars
  BY <1>8 DEF IInv, TypeOK, LockHeld, WorkOK, GrantOK, YoungUploadHasObject,
              LinksAreToFiles, vars
<1>9. QED BY <1>1, <1>2, <1>3, <1>4, <1>5, <1>6, <1>7, <1>8 DEF Next

\* The inductive invariant holds in every reachable state.
THEOREM Invariant == Spec => []IInv
BY InitInv, NextInv, PTL DEF Spec

\* Rows, ages, grants, objects, links and requests keep their types, and a
\* request at work always knows its file.
THEOREM TypeCorrect == Spec => []TypeOK
<1>1. IInv => TypeOK
  BY DEF IInv
<1>2. QED BY Invariant, <1>1, PTL

\* Requests that lock the owner's row (AttachmentRepository.lock_owner) do exclude
\* each other: no two are between their start and their commit.
THEOREM OneAtATime ==
  Spec => [](\A q, r \in Requests : stage[q] # "idle" /\ stage[r] # "idle" => q = r)
<1>1. IInv => \A q, r \in Requests : stage[q] # "idle" /\ stage[r] # "idle" => q = r
  BY DEF IInv, LockHeld
<1>2. QED BY Invariant, <1>1, PTL

\* Because deletion waits until the newest possible grant is dead
\* (deletable_after), no transfer recreates the object of a deleted file.
THEOREM DeletedFilesStayGone == Spec => []DeletedStaysGone
<1>1. IInv => DeletedStaysGone
  BY DEF IInv, GrantOK, DeletedStaysGone
<1>2. QED BY Invariant, <1>1, PTL

\* A verified file keeps its object for as long as its deletion is refused.
THEOREM YoungUploadsHaveObjects == Spec => []YoungUploadHasObject
<1>1. IInv => YoungUploadHasObject
  BY DEF IInv
<1>2. QED BY Invariant, <1>1, PTL

\* The links cascade with the attachment row, so none outlives its file.
THEOREM LinkedFilesExist == Spec => []LinksAreToFiles
<1>1. IInv => LinksAreToFiles
  BY DEF IInv
<1>2. QED BY Invariant, <1>1, PTL

\* What the run checks as one invariant: the types, and links to files that exist.
THEOREM RowsAreSound == Spec => []Inv
<1>1. TypeOK /\ LinksAreToFiles => Inv
  BY DEF Inv
<1>2. QED BY <1>1, TypeCorrect, LinkedFilesExist, PTL

-----------------------------------------------------------------------------
(* Sums over finite sets *)

\* The sum of f over a finite set, as the quota's query computes it (storage_bytes):
\* an element is taken out and the rest is summed.
Pick(s) == CHOOSE x \in s : TRUE
Total(f, S) == MapThenSumSet(LAMBDA x : f[x], S)
Sums(f, S, h) ==
  h = [s \in SUBSET S |-> IF s = {} THEN 0 ELSE f[Pick(s)] + h[s \ {Pick(s)}]]
Summing(f, S) == CHOOSE h : Sums(f, S, h)

\* The library's sum is the value of that recursive function at the whole set.
LEMMA TotalIs ==
  ASSUME NEW f, NEW S
  PROVE  Total(f, S) = Summing(f, S)[S]
BY DEF Total, MapThenSumSet, MapThenFoldSet, Summing, Sums, Pick

\* Two such functions agree wherever both are defined, whatever sets they are made for.
LEMMA SumsAgree ==
  ASSUME NEW f, NEW S, NEW T, NEW g, NEW h, Sums(f, S, g), Sums(f, T, h),
         NEW V, IsFiniteSet(V), V \subseteq S, V \subseteq T
  PROVE  g[V] = h[V]
<1> DEFINE G == {W \in SUBSET V : g[W] = h[W]}
<1>1. ASSUME NEW W \in SUBSET V, \A U \in SUBSET W : U # W => U \in G
      PROVE  W \in G
  <2>1. CASE W = {}
    BY <2>1 DEF Sums
  <2>2. CASE W # {}
    <3>1. Pick(W) \in W
      BY <2>2 DEF Pick
    <3>2. W \ {Pick(W)} \in G
      BY <1>1, <3>1
    <3>3. g[W] = f[Pick(W)] + g[W \ {Pick(W)}] /\ h[W] = f[Pick(W)] + h[W \ {Pick(W)}]
      <4>1. W \in SUBSET S /\ W \in SUBSET T
        OBVIOUS
      <4>2. QED BY <2>2, <4>1 DEF Sums
    <3>4. QED BY <3>2, <3>3
  <2>3. QED BY <2>1, <2>2
<1>2. V \in G
  <2> HIDE DEF G
  <2> QED BY <1>1, SubsetsAreGood
<1>3. QED BY <1>2

\* There is such a function for every finite set.
LEMMA SumsExist ==
  ASSUME NEW f, NEW S, IsFiniteSet(S)
  PROVE  Sums(f, S, Summing(f, S))
<1> DEFINE G == {W \in SUBSET S : Sums(f, W, Summing(f, W))}
<1>1. ASSUME NEW W \in SUBSET S, \A U \in SUBSET W : U # W => U \in G
      PROVE  W \in G
  <2> DEFINE rest(s) == s \ {Pick(s)}
             h == [s \in SUBSET W |-> IF s = {} THEN 0
                                      ELSE f[Pick(s)] + Summing(f, rest(s))[rest(s)]]
  <2>1. \A s \in SUBSET W : s # {} => Pick(s) \in s /\ rest(s) \in SUBSET W /\ rest(s) # W
                                     /\ IsFiniteSet(rest(s))
    <3> SUFFICES ASSUME NEW s \in SUBSET W, s # {}
                 PROVE  Pick(s) \in s /\ rest(s) \in SUBSET W /\ rest(s) # W
                          /\ IsFiniteSet(rest(s))
      OBVIOUS
    <3>1. Pick(s) \in s
      BY DEF Pick
    <3>2. rest(s) \in SUBSET S
      OBVIOUS
    <3>3. QED BY <3>1, <3>2, FS_Subset
  <2>2. \A t \in SUBSET W : t # W => h[t] = Summing(f, t)[t]
    <3> SUFFICES ASSUME NEW t \in SUBSET W, t # W PROVE h[t] = Summing(f, t)[t]
      OBVIOUS
    <3>1. Sums(f, t, Summing(f, t))
      BY <1>1
    <3>2. CASE t = {}
      BY <3>1, <3>2 DEF Sums
    <3>3. CASE t # {}
      <4>1. Summing(f, t)[t] = f[Pick(t)] + Summing(f, t)[rest(t)]
        BY <3>1, <3>3 DEF Sums
      <4>2. rest(t) \in G /\ IsFiniteSet(rest(t)) /\ rest(t) \subseteq t
        BY <1>1, <2>1, <3>3
      <4>3. Sums(f, rest(t), Summing(f, rest(t)))
        BY <4>2
      <4>4. Summing(f, t)[rest(t)] = Summing(f, rest(t))[rest(t)]
        <5> HIDE DEF rest, G
        <5> QED BY <3>1, <4>2, <4>3, SumsAgree
      <4>5. h[t] = f[Pick(t)] + Summing(f, rest(t))[rest(t)]
        BY <3>3
      <4> QED BY <4>1, <4>4, <4>5
    <3> QED BY <3>2, <3>3
  <2>3. Sums(f, W, h)
    <3>1. \A s \in SUBSET W : s # {} => h[rest(s)] = Summing(f, rest(s))[rest(s)]
      BY <2>1, <2>2
    <3>2. h = [s \in SUBSET W |-> IF s = {} THEN 0 ELSE f[Pick(s)] + h[s \ {Pick(s)}]]
      BY <3>1
    <3> QED BY <3>2 DEF Sums
  <2>4. Sums(f, W, Summing(f, W))
    <3> HIDE DEF h
    <3> QED BY <2>3 DEF Summing
  <2> QED BY <2>4
<1>2. S \in G
  <2> HIDE DEF G
  <2> QED BY <1>1, SubsetsAreGood
<1>3. QED BY <1>2

\* So the sum is what the recursion says.
LEMMA TotalRule ==
  ASSUME NEW f, NEW S, IsFiniteSet(S)
  PROVE  /\ S = {} => Total(f, S) = 0
         /\ S # {} => /\ Pick(S) \in S
                      /\ Total(f, S) = f[Pick(S)] + Total(f, S \ {Pick(S)})
<1> DEFINE R == S \ {Pick(S)}
<1>1. Sums(f, S, Summing(f, S))
  BY SumsExist
<1>2. IsFiniteSet(R) /\ R \subseteq S
  BY FS_Subset
<1>3. Sums(f, R, Summing(f, R))
  <2> HIDE DEF R
  <2> QED BY <1>2, SumsExist
<1>4. Summing(f, S)[R] = Summing(f, R)[R]
  <2> HIDE DEF R
  <2> QED BY <1>1, <1>2, <1>3, SumsAgree
<1>5. S = {} => Summing(f, S)[S] = 0
  BY <1>1 DEF Sums
<1>6. S # {} => Summing(f, S)[S] = f[Pick(S)] + Summing(f, S)[R]
  BY <1>1 DEF Sums
<1>7. S # {} => Pick(S) \in S
  BY DEF Pick
<1> QED BY <1>4, <1>5, <1>6, <1>7, TotalIs

\* Sums of naturals are naturals.
LEMMA TotalType ==
  ASSUME NEW S, IsFiniteSet(S), NEW f, \A x \in S : f[x] \in Nat
  PROVE  Total(f, S) \in Nat
<1> DEFINE G == {W \in SUBSET S : Total(f, W) \in Nat}
<1>1. ASSUME NEW W \in SUBSET S, \A U \in SUBSET W : U # W => U \in G
      PROVE  W \in G
  <2>1. IsFiniteSet(W)
    BY FS_Subset
  <2>2. CASE W = {}
    <3>1. Total(f, W) = 0
      BY <2>1, <2>2, TotalRule
    <3> QED BY <3>1
  <2>3. CASE W # {}
    <3>1. Pick(W) \in W /\ Total(f, W) = f[Pick(W)] + Total(f, W \ {Pick(W)})
      BY <2>1, <2>3, TotalRule
    <3>2. Total(f, W \ {Pick(W)}) \in Nat /\ f[Pick(W)] \in Nat
      BY <1>1, <3>1
    <3> QED BY <3>1, <3>2
  <2> QED BY <2>2, <2>3
<1>2. S \in G
  <2> HIDE DEF G
  <2> QED BY <1>1, SubsetsAreGood
<1> QED BY <1>2

\* The sum depends on the values over the set only.
LEMMA TotalSame ==
  ASSUME NEW S, IsFiniteSet(S), NEW f, NEW g, \A x \in S : f[x] = g[x]
  PROVE  Total(f, S) = Total(g, S)
<1> DEFINE G == {W \in SUBSET S : Total(f, W) = Total(g, W)}
<1>1. ASSUME NEW W \in SUBSET S, \A U \in SUBSET W : U # W => U \in G
      PROVE  W \in G
  <2>1. IsFiniteSet(W)
    BY FS_Subset
  <2>2. CASE W = {}
    BY <2>1, <2>2, TotalRule
  <2>3. CASE W # {}
    <3>1. /\ Pick(W) \in W
          /\ Total(f, W) = f[Pick(W)] + Total(f, W \ {Pick(W)})
          /\ Total(g, W) = g[Pick(W)] + Total(g, W \ {Pick(W)})
      BY <2>1, <2>3, TotalRule
    <3>2. Total(f, W \ {Pick(W)}) = Total(g, W \ {Pick(W)}) /\ f[Pick(W)] = g[Pick(W)]
      BY <1>1, <3>1
    <3> QED BY <3>1, <3>2
  <2> QED BY <2>2, <2>3
<1>2. S \in G
  <2> HIDE DEF G
  <2> QED BY <1>1, SubsetsAreGood
<1> QED BY <1>2

\* Any element may be taken out first: sizes are added in no particular order.
LEMMA TotalWithout ==
  ASSUME NEW S, IsFiniteSet(S), NEW f, \A x \in S : f[x] \in Nat
  PROVE  \A x \in S : Total(f, S) = f[x] + Total(f, S \ {x})
<1> DEFINE G == {W \in SUBSET S : \A x \in W : Total(f, W) = f[x] + Total(f, W \ {x})}
<1>1. ASSUME NEW W \in SUBSET S, \A U \in SUBSET W : U # W => U \in G
      PROVE  W \in G
  <2> SUFFICES ASSUME NEW x \in W PROVE Total(f, W) = f[x] + Total(f, W \ {x})
    OBVIOUS
  <2>1. IsFiniteSet(W) /\ IsFiniteSet(W \ {x})
    BY FS_Subset
  <2>2. PICK c : c = Pick(W)
    OBVIOUS
  <2>3. c \in W /\ Total(f, W) = f[c] + Total(f, W \ {c})
    BY <2>1, <2>2, TotalRule
  <2>4. CASE x = c
    BY <2>3, <2>4
  <2>5. CASE x # c
    <3>1. Total(f, W \ {c}) = f[x] + Total(f, (W \ {c}) \ {x})
      <4>1. W \ {c} \in G /\ x \in W \ {c}
        BY <1>1, <2>3, <2>5
      <4> QED BY <4>1
    <3>2. Total(f, W \ {x}) = f[c] + Total(f, (W \ {x}) \ {c})
      <4>1. W \ {x} \in G /\ c \in W \ {x}
        BY <1>1, <2>3, <2>5
      <4> QED BY <4>1
    <3>3. PICK R : R = (W \ {c}) \ {x}
      OBVIOUS
    <3>4. (W \ {x}) \ {c} = R /\ IsFiniteSet(R) /\ \A y \in R : f[y] \in Nat
      BY <2>1, <3>3, FS_Subset
    <3>5. Total(f, R) \in Nat /\ f[x] \in Nat /\ f[c] \in Nat
      BY <2>3, <3>4, TotalType
    <3>6. Total(f, W) = f[c] + (f[x] + Total(f, R))
      BY <2>3, <3>1, <3>3
    <3>7. Total(f, W \ {x}) = f[c] + Total(f, R)
      BY <3>2, <3>4
    <3>8. \A i, j, k \in Nat : i + (j + k) = j + (i + k)
      OBVIOUS
    <3> QED BY <3>5, <3>6, <3>7, <3>8
  <2> QED BY <2>4, <2>5
<1>2. S \in G
  <2> HIDE DEF G
  <2> QED BY <1>1, SubsetsAreGood
<1> QED BY <1>2

-----------------------------------------------------------------------------
(* The quota *)

\* The rows that count: pending and uploaded ones.
Counted == {a \in Attachments : status[a] \in Stored}
Uncommitted == {"reserved", "signed", "stamped"}

\* Reserving is not enough: what was reserved must still fit when its row is
\* committed, steps later, so the invariant counts the reservation of the request
\* that holds the lock as well.
QuotaOK ==
  /\ IsFiniteSet(Counted)
  /\ Used <= Limit
  /\ \A r \in Requests : stage[r] \in Uncommitted => Used + size[file[r]] <= Limit

LEMMA UsedIs == Used = Total(size, Counted)
BY DEF Used, Total, Counted

LEMMA UsedIsAfter == (Used = Total(size, Counted))'
BY UsedIs, PTL

\* Sizes are natural numbers, and so is what is used.
LEMMA UsedType ==
  ASSUME TypeOK, QuotaOK
  PROVE  /\ \A a \in Attachments : size[a] \in Nat
         /\ Used \in Nat
<1>1. \A a \in Attachments : size[a] \in Nat
  <2>1. size \in [Attachments -> Bytes \union {0}] /\ Bytes \union {0} \subseteq Nat
    BY Sizes DEF TypeOK
  <2> QED BY <2>1
<1>2. Total(size, Counted) \in Nat
  <2>1. \A a \in Counted : size[a] \in Nat
    BY <1>1 DEF Counted
  <2> QED BY <2>1, TotalType DEF QuotaOK
<1> QED BY <1>1, <1>2, UsedIs

\* A step that leaves the counted rows and their sizes alone, and lets no new
\* reservation appear, keeps the quota.
LEMMA QuotaKept ==
  ASSUME QuotaOK, Counted' = Counted, \A a \in Counted : size'[a] = size[a],
         \A r \in Requests : stage'[r] \in Uncommitted =>
           /\ stage[r] \in Uncommitted
           /\ file'[r] = file[r] /\ size'[file[r]] = size[file[r]]
  PROVE  QuotaOK'
<1>1. Total(size', Counted') = Total(size, Counted)
  BY TotalSame DEF QuotaOK
<1>2. Used' = Used
  BY <1>1, UsedIs, UsedIsAfter
<1> QED BY <1>2 DEF QuotaOK

LEMMA QuotaStep ==
  ASSUME IInv, IInv', QuotaOK, [Next]_vars
  PROVE  QuotaOK'
<1>0. TypeOK /\ TypeOK' /\ LockHeld
  BY DEF IInv
<1>1. ASSUME NEW r \in Requests, SignGrant(r) \/ StampRow(r)
      PROVE  QuotaOK'
  <2>1. /\ UNCHANGED <<status, size, file>>
        /\ stage[r] \in Uncommitted
        /\ \A q \in Requests : q # r => stage'[q] = stage[q]
    BY <1>0, <1>1 DEF SignGrant, StampRow, Goto, rows, Uncommitted, TypeOK
  <2>2. Counted' = Counted
    BY <2>1 DEF Counted
  <2> QED BY <2>1, <2>2, QuotaKept
<1>2. ASSUME NEW r \in Requests, CommitRow(r)
      PROVE  QuotaOK'
  <2>1. PICK a : a = file[r]
    OBVIOUS
  <2>2. /\ stage[r] = "stamped" /\ a \in Attachments
        /\ \A q \in Requests : stage'[q] = "idle"
    BY <1>0, <1>2, <2>1, EndLock DEF CommitRow, Stages
  <2>3. /\ status[a] = "none" /\ size' = size
        /\ status' = [status EXCEPT ![a] = "pending"]
    BY <1>2, <2>1, <2>2 DEF IInv, WorkOK, CommitRow
  <2>4. a \notin Counted /\ Counted' = Counted \union {a}
    BY <1>0, <2>2, <2>3 DEF Counted, Stored, TypeOK
  <2>5. IsFiniteSet(Counted')
    BY <2>4, FS_AddElement DEF QuotaOK
  <2>6. \A b \in Counted' : size[b] \in Nat
    BY <1>0, UsedType DEF Counted
  <2>7. a \in Counted' /\ Counted' \ {a} = Counted
    BY <2>4
  <2>8. Total(size, Counted') = size[a] + Total(size, Counted)
    BY <2>5, <2>6, <2>7, TotalWithout
  <2>9. Used' = size[a] + Used
    BY <2>3, <2>8, UsedIs, UsedIsAfter
  <2>10. Used + size[a] <= Limit /\ Used \in Nat /\ size[a] \in Nat
    BY <1>0, <2>1, <2>2, UsedType DEF QuotaOK, Uncommitted
  <2>11. Used' <= Limit
    BY <2>9, <2>10
  <2> QED BY <2>2, <2>5, <2>11 DEF QuotaOK, Uncommitted
<1>3. ASSUME NEW r \in Requests, CommitUploaded(r)
      PROVE  QuotaOK'
  <2>1. PICK a : a = file[r]
    OBVIOUS
  <2>2. /\ stage[r] = "verified" /\ a \in Attachments
        /\ \A q \in Requests : stage'[q] = "idle"
    BY <1>0, <1>3, <2>1, EndLock DEF CommitUploaded, Stages
  <2>3. /\ status[a] = "pending" /\ size' = size
        /\ status' = [status EXCEPT ![a] = "uploaded"]
    BY <1>3, <2>1, <2>2 DEF IInv, WorkOK, CommitUploaded
  <2>4. Counted' = Counted
    BY <1>0, <2>2, <2>3 DEF Counted, Stored, TypeOK
  <2> QED BY <2>2, <2>3, <2>4, QuotaKept DEF Uncommitted
<1>4. ASSUME NEW r \in Requests, RemoveObject(r)
      PROVE  QuotaOK'
  <2>1. /\ UNCHANGED <<status, size, file>>
        /\ stage'[r] = "removed"
        /\ \A q \in Requests : q # r => stage'[q] = stage[q]
    BY <1>0, <1>4 DEF RemoveObject, Goto, rows, TypeOK
  <2>2. Counted' = Counted
    BY <2>1 DEF Counted
  <2> QED BY <2>1, <2>2, QuotaKept DEF Uncommitted
<1>5. ASSUME NEW r \in Requests, CommitDelete(r)
      PROVE  QuotaOK'
  <2>1. PICK a : a = file[r]
    OBVIOUS
  <2>2. /\ stage[r] = "removed" /\ a \in Attachments
        /\ \A q \in Requests : stage'[q] = "idle"
    BY <1>0, <1>5, <2>1, EndLock DEF CommitDelete, Stages
  <2>3. /\ status[a] \in Stored /\ size' = size
        /\ status' = [status EXCEPT ![a] = "deleted"]
    BY <1>5, <2>1, <2>2 DEF IInv, WorkOK, CommitDelete
  <2>4. a \in Counted /\ Counted' = Counted \ {a}
    BY <1>0, <2>2, <2>3 DEF Counted, Stored, TypeOK
  <2>5. IsFiniteSet(Counted')
    BY <2>4, FS_RemoveElement DEF QuotaOK
  <2>6. \A b \in Counted : size[b] \in Nat
    BY <1>0, UsedType DEF Counted
  <2>7. Total(size, Counted) = size[a] + Total(size, Counted')
    BY <2>4, <2>6, TotalWithout DEF QuotaOK
  <2>8. Total(size, Counted') \in Nat
    BY <2>4, <2>5, <2>6, TotalType
  <2>9. Used = size[a] + Used' /\ Used' \in Nat /\ size[a] \in Nat
    BY <2>3, <2>4, <2>6, <2>7, <2>8, UsedIs, UsedIsAfter
  <2>10. Used' <= Limit
    BY <2>9, Sizes DEF QuotaOK
  <2> QED BY <2>2, <2>5, <2>10 DEF QuotaOK, Uncommitted
<1>6. ASSUME NEW r \in Requests, Abort(r)
      PROVE  QuotaOK'
  <2>1. stage[r] \in Stages \ {"idle"} /\ End(r, stage[r]) /\ size' = size
    BY <1>0, <1>6 DEF Abort, TypeOK
  <2>2. file[r] \in Attachments /\ \A q \in Requests : stage'[q] = "idle"
    BY <1>0, <2>1, EndLock
  <2>3. status' = status
          \/ (status[file[r]] = "none" /\ status' = [status EXCEPT ![file[r]] = "void"])
    BY <1>6 DEF IInv, WorkOK, Abort
  <2>4. Counted' = Counted
    BY <1>0, <2>2, <2>3 DEF Counted, Stored, TypeOK
  <2> QED BY <2>1, <2>2, <2>4, QuotaKept DEF Uncommitted
<1>7. ASSUME NEW r \in Requests, NEW a \in Attachments, NEW n \in Bytes, Reserve(r, a, n)
      PROVE  QuotaOK'
  <2>1. /\ status[a] = "none" /\ status' = status /\ Used + n <= Limit
        /\ size' = [size EXCEPT ![a] = n] /\ Start(r, a, "reserved")
    BY <1>7 DEF Reserve, Fits
  <2>2. file'[r] = a /\ \A q \in Requests : q # r => stage'[q] = "idle"
    BY <1>0, <2>1, StartLock DEF Stages
  <2>3. Counted' = Counted /\ a \notin Counted
    BY <2>1 DEF Counted, Stored
  <2>4. \A b \in Counted : size'[b] = size[b]
    BY <1>0, <2>1, <2>3 DEF Counted, TypeOK
  <2>5. Total(size', Counted) = Total(size, Counted)
    BY <2>4, TotalSame DEF QuotaOK
  <2>6. Used' = Used /\ size'[a] = n
    BY <1>0, <2>1, <2>3, <2>5, UsedIs, UsedIsAfter DEF TypeOK
  <2> QED BY <2>1, <2>2, <2>3, <2>6 DEF QuotaOK, Uncommitted
<1>8. ASSUME NEW r \in Requests, NEW a \in Attachments, Verify(r, a) \/ BeginDelete(r, a)
      PROVE  QuotaOK'
  <2>1. /\ status' = status /\ size' = size
        /\ Start(r, a, "verified") \/ Start(r, a, "removing")
    BY <1>8 DEF Verify, BeginDelete, rows
  <2>2. \A q \in Requests : stage'[q] \notin Uncommitted
    BY <1>0, <2>1, StartLock DEF Stages, Uncommitted
  <2>3. Counted' = Counted
    BY <2>1 DEF Counted
  <2> QED BY <2>1, <2>2, <2>3, QuotaKept
<1>9. ASSUME UNCHANGED <<status, size, stage, file>>
      PROVE  QuotaOK'
  BY <1>9, QuotaKept DEF Counted
<1>10. (\E r \in Requests, a \in Attachments, t \in Targets : Link(r, a, t) \/ Unlink(r, a, t))
         => UNCHANGED <<status, size, stage, file>>
  BY DEF Link, Unlink, rows
<1>11. (\/ \E a \in Attachments : Transfer(a)
        \/ \E t \in Records : DeleteRecord(t)
        \/ Tick \/ UNCHANGED vars) => UNCHANGED <<status, size, stage, file>>
  BY DEF Transfer, DeleteRecord, Tick, rows, vars
<1> QED BY <1>1, <1>2, <1>3, <1>4, <1>5, <1>6, <1>7, <1>8, <1>9, <1>10, <1>11 DEF Next, Step

LEMMA InitQuota == Init => QuotaOK
<1> SUFFICES ASSUME Init PROVE QuotaOK
  OBVIOUS
<1>1. Counted = {}
  BY DEF Init, Counted, Stored
<1>2. IsFiniteSet(Counted) /\ Total(size, Counted) = 0
  BY <1>1, FS_EmptySet, TotalRule
<1> QED BY <1>2, UsedIs, Sizes DEF QuotaOK, Init, Uncommitted

\* No interleaving of uploads, failures and deletions brings an account over its limit
\* (StorageQuotaService.reserve): the owner's lock makes the sum that was checked the
\* sum that is there when the row is committed.
THEOREM QuotaHolds == Spec => []QuotaNeverExceeded
<1>1. IInv /\ IInv' /\ QuotaOK /\ [Next]_vars => QuotaOK'
  BY QuotaStep
<1>2. QuotaOK => QuotaNeverExceeded
  BY DEF QuotaOK, QuotaNeverExceeded
<1>3. QED BY Invariant, InitQuota, <1>1, <1>2, PTL DEF Spec
=============================================================================
