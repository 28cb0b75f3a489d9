------------------------------- MODULE Uploads -------------------------------
(***************************************************************************)
(* The files of one account: the upload grant, the pending row that        *)
(* reserves quota, the direct transfer to S3, verification, links to bikes *)
(* and service records, and deletion, which removes the S3 object before   *)
(* it removes the row.                                                     *)
(*                                                                         *)
(* Each request runs in one transaction.  All but the deletion of a        *)
(* service record first lock the owner's row and hold it until commit, so  *)
(* the requests below carry a lock; calls to S3 inside a transaction are   *)
(* steps of their own, and a request may abort between any two steps,      *)
(* which rolls the database back and S3 not.                               *)
(***************************************************************************)
EXTENDS Naturals, FiniteSets, FiniteSetsExt

CONSTANTS
  Attachments,   \* attachment ids, each of them issued at most once
  Bytes,         \* file sizes
  Limit,         \* ACCOUNT_STORAGE_LIMIT_BYTES
  GrantPeriod,   \* _PRESIGN_EXPIRES_SECONDS, in ticks
  Requests,      \* requests that may be in progress at the same time
  Bikes,         \* link targets that are never deleted
  Records,       \* maintenance records: link targets their owner may delete
  Free,          \* the owner lock when nobody holds it
  NoFile         \* the file of an idle request

ASSUME Sizes == Bytes \subseteq Nat \ {0} /\ Limit \in Nat
ASSUME GrantLasts == GrantPeriod \in Nat \ {0}
ASSUME NotARequest == Free \notin Requests
ASSUME NotAFile == NoFile \notin Attachments

VARIABLES
  status,    \* attachment row: "none" before it is inserted
  size,      \* its file_size
  age,       \* ticks since its created_at, capped at GrantPeriod
  grant,     \* ticks since its grant was signed, capped: at GrantPeriod it is dead
  object,    \* the attachments whose key holds an object in S3
  links,     \* attachment_links rows: <<attachment, target>>
  records,   \* the maintenance records that exist
  owner,     \* the request that holds the owner's row lock, or Free
  stage,     \* what each request has done
  file       \* the attachment each request works on

vars == <<status, size, age, grant, object, links, records, owner, stage, file>>
rows == <<status, size>>
ages == <<age, grant>>

-----------------------------------------------------------------------------
Targets == Bikes \union Records
Stored == {"pending", "uploaded"}       \* the statuses of rows that exist
Stages == {"idle", "reserved", "signed", "stamped", "verified", "removing", "removed"}

TypeOK ==
  /\ status \in [Attachments -> {"none", "void", "deleted"} \union Stored]
  /\ size \in [Attachments -> Bytes \union {0}]
  /\ age \in [Attachments -> 0..GrantPeriod]
  /\ grant \in [Attachments -> 0..GrantPeriod]
  /\ object \subseteq Attachments
  /\ links \subseteq Attachments \X Targets
  /\ records \subseteq Records
  /\ owner \in Requests \union {Free}
  /\ stage \in [Requests -> Stages]
  /\ file \in [Requests -> Attachments \union {NoFile}]
  /\ \A r \in Requests : stage[r] # "idle" => file[r] \in Attachments

Init ==
  /\ status = [a \in Attachments |-> "none"]
  /\ size = [a \in Attachments |-> 0]
  /\ age = [a \in Attachments |-> 0]
  /\ grant = [a \in Attachments |-> GrantPeriod]
  /\ object = {} /\ links = {}
  /\ records = Records
  /\ owner = Free
  /\ stage = [r \in Requests |-> "idle"]
  /\ file = [r \in Requests |-> NoFile]

-----------------------------------------------------------------------------
(* Transactions *)

\* Mutant: the owner's row is read without FOR UPDATE.
NoLock(r) == owner' = r

\* lock_owner: SELECT ... FOR UPDATE.
LockOwner(r) == owner = Free /\ owner' = r

Start(r, a, first) ==
  /\ stage[r] = "idle"
  /\ LockOwner(r)
  /\ stage' = [stage EXCEPT ![r] = first]
  /\ file' = [file EXCEPT ![r] = a]

Goto(r, from, to) ==
  /\ stage[r] = from
  /\ stage' = [stage EXCEPT ![r] = to]
  /\ UNCHANGED <<owner, file>>

\* Commit or rollback: the lock is released with the transaction.
End(r, last) ==
  /\ stage[r] = last
  /\ stage' = [stage EXCEPT ![r] = "idle"]
  /\ file' = [file EXCEPT ![r] = NoFile]
  /\ owner' = Free

\* A request that fails, or whose process stops.  The id of a begun upload is
\* lost with it, but not the grant: the client may have it already.
Abort(r) ==
  /\ End(r, stage[r]) /\ stage[r] # "idle"
  /\ status' = IF stage[r] \in {"reserved", "signed", "stamped"}
               THEN [status EXCEPT ![file[r]] = "void"] ELSE status
  /\ UNCHANGED <<size, ages, object, links, records>>

-----------------------------------------------------------------------------
(* POST /v1/uploads/presign *)

\* AttachmentRepository.storage_bytes: pending rows count too.
Used == MapThenSumSet(LAMBDA a : size[a], {a \in Attachments : status[a] \in Stored})

Fits(n) == Used + n <= Limit

Reserve(r, a, n) ==
  /\ status[a] = "none" /\ \A q \in Requests : file[q] # a
  /\ Start(r, a, "reserved")
  /\ Fits(n)
  /\ size' = [size EXCEPT ![a] = n]
  /\ UNCHANGED <<status, ages, object, links, records>>

SignGrant(r) ==
  /\ Goto(r, "reserved", "signed")
  /\ grant' = [grant EXCEPT ![file[r]] = 0]
  /\ UNCHANGED <<rows, age, object, links, records>>

\* created_at is read after the grant was signed, and before the commit.
StampRow(r) ==
  /\ Goto(r, "signed", "stamped")
  /\ age' = [age EXCEPT ![file[r]] = 0]
  /\ UNCHANGED <<rows, grant, object, links, records>>

CommitRow(r) ==
  /\ End(r, "stamped")
  /\ status' = [status EXCEPT ![file[r]] = "pending"]
  /\ UNCHANGED <<size, ages, object, links, records>>

\* The client posts the file to S3, as often as it likes while the grant lives.
\* The signed policy fixes its size, type and attachment id.
Transfer(a) ==
  /\ grant[a] < GrantPeriod
  /\ object' = object \union {a}
  /\ UNCHANGED <<rows, ages, links, records, owner, stage, file>>

-----------------------------------------------------------------------------
(* POST /v1/uploads/{id}/complete *)

\* Mutant: the object is not looked for.
VerifyUnseen(r, a) ==
  /\ status[a] = "pending"
  /\ Start(r, a, "verified")
  /\ UNCHANGED <<rows, ages, object, links, records>>

\* The HEAD request found the object.  A row that is already uploaded is left
\* alone, and so is one whose object is missing.
Verify(r, a) ==
  /\ status[a] = "pending" /\ a \in object
  /\ Start(r, a, "verified")
  /\ UNCHANGED <<rows, ages, object, links, records>>

CommitUploaded(r) ==
  /\ End(r, "verified")
  /\ status' = [status EXCEPT ![file[r]] = "uploaded"]
  /\ UNCHANGED <<size, ages, object, links, records>>

-----------------------------------------------------------------------------
(* DELETE /v1/attachments/{id} *)

\* Mutants: no wait for the grant; only an object that is still there is
\* deleted.
RemovableAtOnce(a) == status[a] \in Stored
RemovableOnce(a) == status[a] \in Stored /\ age[a] = GrantPeriod /\ a \in object

\* deletable_after: created_at plus the life of a grant.
Removable(a) == status[a] \in Stored /\ age[a] = GrantPeriod

BeginDelete(r, a) ==
  /\ Removable(a)
  /\ Start(r, a, "removing")
  /\ UNCHANGED <<rows, ages, object, links, records>>

\* delete_object succeeds also for a key that holds nothing.
RemoveObject(r) ==
  /\ Goto(r, "removing", "removed")
  /\ object' = object \ {file[r]}
  /\ UNCHANGED <<rows, ages, links, records>>

\* Mutant: the rows that point to the attachment stay.
CommitDeleteOnly(r) ==
  /\ End(r, "removed")
  /\ status' = [status EXCEPT ![file[r]] = "deleted"]
  /\ UNCHANGED <<size, ages, object, links, records>>

\* The links cascade with the row.
CommitDelete(r) ==
  /\ End(r, "removed")
  /\ status' = [status EXCEPT ![file[r]] = "deleted"]
  /\ links' = {l \in links : l[1] # file[r]}
  /\ UNCHANGED <<size, ages, object, records>>

-----------------------------------------------------------------------------
(* Links *)

TargetExists(t) == t \in Bikes \union records

\* One transaction under the owner's lock; linking twice does nothing.  (The
\* deletion of the target between the check and the insert leaves what its
\* deletion just after the commit leaves, so one action is enough.)
Link(r, a, t) ==
  /\ stage[r] = "idle" /\ owner = Free
  /\ TargetExists(t) /\ status[a] = "uploaded"
  /\ links' = links \union {<<a, t>>}
  /\ UNCHANGED <<rows, ages, object, records, owner, stage, file>>

\* Unlinking requires a target that exists, as linking does.
Unlink(r, a, t) ==
  /\ stage[r] = "idle" /\ owner = Free
  /\ <<a, t>> \in links /\ TargetExists(t)
  /\ links' = links \ {<<a, t>>}
  /\ UNCHANGED <<rows, ages, object, records, owner, stage, file>>

\* MaintenanceService.delete takes no lock and leaves attachment_links alone.
DeleteRecord(t) ==
  /\ t \in records
  /\ records' = records \ {t}
  /\ UNCHANGED <<rows, ages, object, links, owner, stage, file>>

-----------------------------------------------------------------------------
Older(n) == IF n < GrantPeriod THEN n + 1 ELSE n

Tick ==
  /\ age' = [a \in Attachments |-> Older(age[a])]
  /\ grant' = [a \in Attachments |-> Older(grant[a])]
  /\ UNCHANGED <<rows, object, links, records, owner, stage, file>>

Step(r) ==
  \/ SignGrant(r) \/ StampRow(r) \/ CommitRow(r)
  \/ CommitUploaded(r)
  \/ RemoveObject(r) \/ CommitDelete(r)

Next ==
  \/ \E r \in Requests :
       \/ Step(r) \/ Abort(r)
       \/ \E a \in Attachments :
            \/ \E n \in Bytes : Reserve(r, a, n)
            \/ Verify(r, a) \/ BeginDelete(r, a)
            \/ \E t \in Targets : Link(r, a, t) \/ Unlink(r, a, t)
  \/ \E a \in Attachments : Transfer(a)
  \/ \E t \in Records : DeleteRecord(t)
  \/ Tick

Spec == Init /\ [][Next]_vars

(* Deletion is finished by its owner, who repeats the request until it     *)
(* succeeds.  Requests wait in line for the row lock, and S3 and the       *)
(* database do not fail every time: each step that recurs is taken.        *)
Fairness ==
  /\ WF_vars(Tick)
  /\ \A r \in Requests : /\ WF_vars(Step(r)) /\ SF_vars(CommitDelete(r))
                         /\ SF_vars(RemoveObject(r))
  /\ \A a \in Attachments : SF_vars(\E r \in Requests : BeginDelete(r, a))

FairSpec == Spec /\ Fairness

-----------------------------------------------------------------------------
(* Properties *)

\* The files of an account never exceed its limit, counting the uploads that
\* are still pending, whatever requests overlap (StorageQuotaService.reserve).
QuotaNeverExceeded == Used <= Limit

\* A deleted file stays gone: no grant that is still alive can put its object
\* back ("a live upload grant could otherwise recreate the object").
DeletedStaysGone ==
  \A a \in Attachments : status[a] = "deleted" => a \notin object

\* A file reported as uploaded can be read: its object is missing only once its
\* owner has asked for its deletion, which no grant lets happen earlier.
YoungUploadHasObject ==
  \A a \in Attachments :
    (status[a] = "uploaded" /\ age[a] < GrantPeriod) => a \in object

\* Only files whose upload was verified, and that still exist, are linked.
LinksAreToFiles == \A l \in links : status[l[1]] = "uploaded"

\* A deletion that stopped half-way, the object gone and the row still there,
\* is finished by retrying it ("the same request safely finishes cleanup").
HalfDeleted(a) == status[a] = "uploaded" /\ a \notin object
CleanupFinishes == \A a \in Attachments : HalfDeleted(a) ~> status[a] = "deleted"

\* What the notes of the attachment links require of permanent deletion: it
\* cleans up the links of its target in the same transaction.
LinksHaveTargets == \A l \in links : TargetExists(l[2])

\* What holds in every state of the rows themselves: the types, and links that point
\* to files that are there.
Inv ==
  /\ TypeOK
  /\ LinksAreToFiles
=============================================================================
