-------------------------- MODULE DocumentEditions --------------------------
(***************************************************************************)
(* The document records of one account: registration of an uploaded PDF    *)
(* for a bike, editions of a document, confirmation, and the choice of the *)
(* bike's primary manufacturer manual.                                     *)
(*                                                                         *)
(* Every operation runs under the owner's row lock and is one action.  The *)
(* database constraints on documents are no guards here: that the          *)
(* operations never run into them is what the invariants state.            *)
(***************************************************************************)
EXTENDS Naturals

CONSTANTS
  Docs,      \* document ids, each of them used at most once
  Files,     \* attachments: verified uploads of PDFs
  Bikes,
  Contents,  \* what the bytes of a file may be
  MaxRev,    \* bound: revisions of a document
  NoDoc,     \* supersedes_document_id when it is NULL
  Unused,    \* the row of an id that is not registered yet
  Gone       \* the row of a document whose file was deleted

ASSUME Revisions == MaxRev \in Nat \ {0}
ASSUME NotADocument == NoDoc \notin Docs

VARIABLES
  doc,       \* document rows
  file,      \* the attachments that exist
  bytes,     \* the content stored for each attachment
  infected   \* the attachments known to be infected

vars == <<doc, file, bytes, infected>>

-----------------------------------------------------------------------------
Types == {"manufacturer_manual", "supporting_document"}

\* A version group is named after its first document.
Document == [status: {"awaiting_confirmation", "active", "archived"},
             type: Types, bike: Bikes, file: Files, hash: Contents,
             group: Docs, rev: 1..MaxRev, prev: Docs \union {NoDoc},
             confirmed: BOOLEAN, primary: BOOLEAN]

ASSUME NoRow == Unused \notin Document /\ Gone \notin Document /\ Unused # Gone

Rows == {d \in Docs : doc[d] \notin {Unused, Gone}}
SameGroup(d, e) == doc[d].group = doc[e].group

TypeOK ==
  /\ DOMAIN doc = Docs /\ \A d \in Rows : doc[d] \in Document
  /\ file \subseteq Files
  /\ bytes \in [Files -> Contents]
  /\ infected \subseteq Files

Init ==
  /\ doc = [d \in Docs |-> Unused]
  /\ file = Files
  /\ bytes \in [Files -> Contents]
  /\ infected = {}

-----------------------------------------------------------------------------
(* The files *)

\* A grant that is still alive lets the client replace the bytes.
Rewrite(f) ==
  /\ f \in file
  /\ \E c \in Contents : bytes' = [bytes EXCEPT ![f] = c]
  /\ UNCHANGED <<doc, file, infected>>

Scanned(f) ==
  /\ f \in file
  /\ infected' \in {infected \union {f}, infected \ {f}}
  /\ UNCHANGED <<doc, file, bytes>>

\* Deleting a file deletes its documents; editions that supersede them keep
\* their group and revision and lose the reference.
DeleteFile(f) ==
  LET gone == {d \in Rows : doc[d].file = f} IN
  /\ f \in file
  /\ file' = file \ {f}
  /\ doc' = [d \in Docs |->
               IF d \in gone THEN Gone
               ELSE IF d \in Rows /\ doc[d].prev \in gone THEN [doc[d] EXCEPT !.prev = NoDoc]
               ELSE doc[d]]
  /\ UNCHANGED <<bytes, infected>>

-----------------------------------------------------------------------------
(* POST /v1/documents *)

Latest(p) == \A e \in Rows : SameGroup(e, p) => doc[e].rev <= doc[p].rev

Draft(d, b, f, t, group, rev, prev) ==
  doc' = [doc EXCEPT ![d] =
            [status |-> "awaiting_confirmation", type |-> t, bike |-> b, file |-> f,
             hash |-> bytes[f], group |-> group, rev |-> rev, prev |-> prev,
             confirmed |-> FALSE, primary |-> FALSE]]

\* A first edition, or the next one of the latest edition it supersedes.
Register(d, b, f, t) ==
  /\ doc[d] = Unused
  /\ f \in file /\ f \notin infected
  /\ \A e \in Rows : doc[e].bike = b => doc[e].file # f
  /\ \/ Draft(d, b, f, t, d, 1, NoDoc)
     \/ \E p \in Rows :
          /\ Latest(p) /\ doc[p].bike = b /\ doc[p].type = t
          /\ doc[p].rev < MaxRev
          /\ Draft(d, b, f, t, doc[p].group, doc[p].rev + 1, p)
  /\ UNCHANGED <<file, bytes, infected>>

-----------------------------------------------------------------------------
(* POST /v1/documents/{id}/confirm and PUT /v1/documents/{id}/primary *)

\* The file is the one that was registered, as far as is known.
Sound(d) == doc[d].file \notin infected /\ bytes[doc[d].file] = doc[d].hash

Older(e, d) == SameGroup(e, d) /\ doc[e].rev < doc[d].rev

\* Mutant: a supporting document too clears the primary.
ClearsAlways(d, e, t) == doc[e].bike = doc[d].bike

\* The type may be corrected while the document has no other edition.
MayBe(d, t) == t = doc[d].type \/ \A e \in Rows : SameGroup(e, d) => e = d

NewerConfirmed(d) == \E e \in Rows : Older(d, e) /\ doc[e].confirmed

\* clear_primary: only a manufacturer manual takes the place of the primary.
Clears(d, e, t) == t = "manufacturer_manual" /\ doc[e].bike = doc[d].bike

\* Mutant: only confirmed editions are archived.
ConfirmLeavesDrafts(d, t) ==
  /\ d \in Rows /\ ~doc[d].confirmed
  /\ MayBe(d, t) /\ Sound(d) /\ ~NewerConfirmed(d)
  /\ doc' = [e \in Docs |->
               IF e = d
               THEN [doc[e] EXCEPT !.status = "active", !.type = t, !.confirmed = TRUE]
               ELSE IF e \in Rows /\ Older(e, d) /\ doc[e].confirmed
               THEN [doc[e] EXCEPT !.status = "archived", !.primary = FALSE]
               ELSE doc[e]]
  /\ UNCHANGED <<file, bytes, infected>>

\* Older editions, drafts too, are archived.  Confirming twice changes nothing.
Confirm(d, t) ==
  /\ d \in Rows /\ ~doc[d].confirmed
  /\ MayBe(d, t) /\ Sound(d) /\ ~NewerConfirmed(d)
  /\ doc' = [e \in Docs |->
               IF e \notin Rows THEN doc[e]
               ELSE IF e = d
               THEN [doc[e] EXCEPT !.status = "active", !.type = t, !.confirmed = TRUE,
                                   !.primary = (t = "manufacturer_manual")]
               ELSE IF Older(e, d) THEN [doc[e] EXCEPT !.status = "archived", !.primary = FALSE]
               ELSE IF Clears(d, e, t) THEN [doc[e] EXCEPT !.primary = FALSE]
               ELSE doc[e]]
  /\ UNCHANGED <<file, bytes, infected>>

Selectable(d) ==
  /\ d \in Rows /\ doc[d].type = "manufacturer_manual" /\ doc[d].confirmed
  /\ Sound(d)

\* An older edition is active again; the newer one stays active.
SelectPrimary(d) ==
  /\ Selectable(d)
  /\ doc' = [e \in Docs |->
               IF e \notin Rows \/ doc[e].bike # doc[d].bike THEN doc[e]
               ELSE IF e = d THEN [doc[e] EXCEPT !.status = "active", !.primary = TRUE]
               ELSE [doc[e] EXCEPT !.primary = FALSE]]
  /\ UNCHANGED <<file, bytes, infected>>

Next ==
  \/ \E f \in Files : Rewrite(f) \/ Scanned(f) \/ DeleteFile(f)
  \/ \E d \in Docs :
       \/ \E b \in Bikes, f \in Files, t \in Types : Register(d, b, f, t)
       \/ \E t \in Types : Confirm(d, t)
       \/ SelectPrimary(d)

Spec == Init /\ [][Next]_vars

-----------------------------------------------------------------------------
(* Properties *)

\* No operation runs into ck_documents_primary or ix_documents_primary_bike: a
\* bike has one primary document, and it is an active, confirmed manual.
PrimaryIsSound ==
  /\ \A d \in Rows : doc[d].primary =>
       doc[d].type = "manufacturer_manual" /\ doc[d].status = "active" /\ doc[d].confirmed
  /\ \A d, e \in Rows :
       (doc[d].primary /\ doc[e].primary /\ doc[d].bike = doc[e].bike) => d = e

\* Editions of one document belong to one bike, have one type and different
\* revisions (uq_documents_version_revision), whatever is deleted and registered.
EditionsAgree ==
  \A d, e \in Rows :
    SameGroup(d, e) => /\ doc[d].bike = doc[e].bike /\ doc[d].type = doc[e].type
                       /\ doc[d].rev = doc[e].rev => d = e

\* An edition follows the one it supersedes: same group, next revision.
SupersedesPrevious ==
  \A d \in Rows :
    doc[d].prev # NoDoc =>
      /\ doc[d].prev \in Rows /\ SameGroup(d, doc[d].prev)
      /\ doc[d].rev = doc[doc[d].prev].rev + 1

\* A draft that a newer confirmed edition has passed stays archived: "older
\* unconfirmed drafts cannot replace an already-confirmed newer edition".
PassedDraftsStayArchived ==
  \A d, e \in Rows :
    (Older(d, e) /\ doc[e].confirmed /\ ~doc[d].confirmed) => doc[d].status = "archived"

HasPrimary(b) == \E d \in Rows : doc[d].bike = b /\ doc[d].primary

\* A bike that has a primary manual keeps one until a file is deleted: no
\* confirmation, new edition or change of the primary leaves it without.
PrimaryIsKept ==
  [][\A b \in Bikes : (HasPrimary(b) /\ file' = file) => HasPrimary(b)']_vars

\* What holds in every state: the types, one sound primary per bike, and groups of
\* editions that agree and follow each other.
Inv ==
  /\ TypeOK
  /\ PrimaryIsSound
  /\ EditionsAgree
  /\ SupersedesPrevious
=============================================================================
