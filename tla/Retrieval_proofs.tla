---------------------------- MODULE Retrieval_proofs ----------------------------
(***************************************************************************)
(* The document records, and the searches in them, for any number of       *)
(* documents, files, bikes, revisions, chunks and changes, and any limits. *)
(* The records: no operation runs into a constraint of the database,       *)
(* version groups stay coherent, and a bike keeps its primary manual.      *)
(* The searches: an answer is whole, is current when it is given, and is   *)
(* refused only for a change of what could be found.                       *)
(* The chunks that are searched: no text of a manual is lost or filed      *)
(* under a heading it does not follow, for any text, outline and limit.    *)
(***************************************************************************)
EXTENDS Retrieval, Chunking, FiniteInduction, TLAPS

\* A group is named after a document that was registered once, so the group of a
\* first edition is a new one.
GroupsAreUsed == \A e \in Rows : doc[doc[e].group] # Unused

IInv == Inv /\ PassedDraftsStayArchived /\ GroupsAreUsed

\* The fields of a row that the deletion of a file leaves as they are.
Kept(r, s) ==
  /\ s.status = r.status /\ s.type = r.type /\ s.bike = r.bike /\ s.file = r.file
  /\ s.hash = r.hash /\ s.group = r.group /\ s.rev = r.rev
  /\ s.confirmed = r.confirmed /\ s.primary = r.primary

LEMMA OnlyPrev ==
  ASSUME NEW r \in Document
  PROVE  Kept(r, [r EXCEPT !.prev = NoDoc]) /\ [r EXCEPT !.prev = NoDoc] \in Document
         /\ [r EXCEPT !.prev = NoDoc].prev = NoDoc
BY DEF Document, Kept

-----------------------------------------------------------------------------
LEMMA IInvInit == Init => IInv
BY DEF Init, IInv, Inv, TypeOK, PrimaryIsSound, EditionsAgree, SupersedesPrevious,
       PassedDraftsStayArchived, GroupsAreUsed, Rows

\* What the invariant says is about the rows alone: files come and go.
LEMMA RowsUnchanged ==
  ASSUME IInv, UNCHANGED doc, TypeOK'
  PROVE  IInv'
BY DEF IInv, Inv, PrimaryIsSound, EditionsAgree, SupersedesPrevious,
       PassedDraftsStayArchived, GroupsAreUsed, Rows, SameGroup, Older

LEMMA RewriteKeeps ==
  ASSUME IInv, NEW f \in Files, Rewrite(f) \/ Scanned(f)
  PROVE  IInv'
<1>1. TypeOK'
  BY DEF IInv, Inv, TypeOK, Rewrite, Scanned, Rows
<1>2. QED
  BY <1>1, RowsUnchanged DEF Rewrite, Scanned

\* The documents of the file go; the others lose at most a reference.
LEMMA DeleteKeeps ==
  ASSUME IInv, NEW f \in Files, DeleteFile(f)
  PROVE  IInv'
<1> DEFINE gone == {d \in Rows : doc[d].file = f}
<1>1. /\ DOMAIN doc = Docs /\ DOMAIN doc' = Docs
      /\ \A d \in Docs : doc'[d] = IF d \in gone THEN Gone
               ELSE IF d \in Rows /\ doc[d].prev \in gone THEN [doc[d] EXCEPT !.prev = NoDoc]
               ELSE doc[d]
      /\ \A d \in Rows : doc[d] \in Document
  BY DEF IInv, Inv, TypeOK, DeleteFile
<1>2. ASSUME NEW d \in Rows'
      PROVE  /\ d \in Rows \ gone
             /\ doc'[d] = IF doc[d].prev \in gone THEN [doc[d] EXCEPT !.prev = NoDoc] ELSE doc[d]
  BY <1>1, <1>2, NoRow DEF Rows
<1>3. ASSUME NEW d \in Rows'
      PROVE  /\ doc'[d] \in Document /\ Kept(doc[d], doc'[d]) /\ d \in Rows
             /\ doc'[d].prev \in {doc[d].prev, NoDoc} \ gone
  <2>1. doc[d] \in Document /\ d \in Rows /\ NoDoc \notin gone
    BY <1>1, <1>2, NotADocument DEF Rows
  <2>2. CASE doc[d].prev \in gone
    BY <1>2, <2>1, <2>2, OnlyPrev
  <2>3. CASE doc[d].prev \notin gone
    BY <1>2, <2>1, <2>3 DEF Kept
  <2>4. QED BY <2>2, <2>3
<1>4. Rows \ gone \subseteq Rows'
  <2> SUFFICES ASSUME NEW d \in Rows \ gone PROVE d \in Rows'
    OBVIOUS
  <2>1. d \in Docs /\ doc[d] \in Document
    BY <1>1 DEF Rows
  <2>2. doc'[d] \in Document
    BY <1>1, <2>1, OnlyPrev
  <2>3. QED BY <2>1, <2>2, NoRow DEF Rows
<1>5. TypeOK'
  BY <1>1, <1>3 DEF IInv, Inv, TypeOK, DeleteFile
<1>6. ASSUME NEW d \in Rows'
      PROVE  /\ doc'[d].group = doc[d].group /\ doc'[d].rev = doc[d].rev
             /\ doc'[d].status = doc[d].status /\ doc'[d].type = doc[d].type
             /\ doc'[d].confirmed = doc[d].confirmed /\ doc'[d].primary = doc[d].primary
             /\ doc'[d].bike = doc[d].bike /\ d \in Rows
  BY <1>3 DEF Kept
<1>7. PrimaryIsSound'
  BY <1>6 DEF IInv, Inv, PrimaryIsSound
<1>8. EditionsAgree'
  BY <1>6 DEF IInv, Inv, EditionsAgree, SameGroup
<1>9. SupersedesPrevious'
  <2> SUFFICES ASSUME NEW d \in Rows', doc'[d].prev # NoDoc
               PROVE  /\ doc'[d].prev \in Rows' /\ SameGroup(d, doc[d].prev)'
                      /\ doc'[d].rev = doc'[doc'[d].prev].rev + 1
    BY DEF SupersedesPrevious
  <2>1. doc'[d].prev = doc[d].prev /\ doc[d].prev \in Rows \ gone
    BY <1>3, <1>6 DEF IInv, Inv, SupersedesPrevious
  <2>2. doc'[d].prev \in Rows'
    BY <2>1, <1>4
  <2>3. QED
    BY <2>1, <2>2, <1>6 DEF IInv, Inv, SupersedesPrevious, SameGroup
<1>10. PassedDraftsStayArchived'
  BY <1>6 DEF IInv, PassedDraftsStayArchived, Older, SameGroup
<1>11. GroupsAreUsed'
  <2> SUFFICES ASSUME NEW e \in Rows' PROVE doc'[doc'[e].group] # Unused
    BY DEF GroupsAreUsed
  <2>1. doc'[e].group = doc[e].group /\ e \in Rows /\ doc[e].group \in Docs
    BY <1>1, <1>6 DEF Document
  <2>2. doc[doc[e].group] # Unused
    BY <2>1 DEF IInv, GroupsAreUsed
  <2>3. CASE doc[e].group \in Rows'
    BY <2>1, <2>3 DEF Rows
  <2>4. CASE doc[e].group \notin Rows'
    BY <2>1, <2>2, <2>4, <1>1, <1>4, NoRow DEF Rows
  <2>5. QED BY <2>3, <2>4
<1>12. QED
  BY <1>5, <1>7, <1>8, <1>9, <1>10, <1>11 DEF IInv, Inv

\* The new row is the last of its group: no other edition has its number, and no
\* newer one has been confirmed.
LEMMA RegisterKeeps ==
  ASSUME IInv, NEW d \in Docs, NEW b \in Bikes, NEW f \in Files, NEW t \in Types,
         Register(d, b, f, t)
  PROVE  IInv'
<1>1. PICK group \in Docs, rev \in 1..MaxRev, prev \in Docs \union {NoDoc} :
        /\ Draft(d, b, f, t, group, rev, prev)
        /\ \/ group = d /\ prev = NoDoc
           \/ /\ prev \in Rows /\ Latest(prev) /\ doc[prev].bike = b /\ doc[prev].type = t
              /\ group = doc[prev].group /\ rev = doc[prev].rev + 1
  <2>1. CASE Draft(d, b, f, t, d, 1, NoDoc)
    BY <2>1, Revisions
  <2>2. ASSUME NEW p \in Rows, Latest(p), doc[p].bike = b, doc[p].type = t, doc[p].rev < MaxRev,
               Draft(d, b, f, t, doc[p].group, doc[p].rev + 1, p)
        PROVE  \E group \in Docs, rev \in 1..MaxRev, prev \in Docs \union {NoDoc} :
                 /\ Draft(d, b, f, t, group, rev, prev)
                 /\ prev \in Rows /\ Latest(prev) /\ doc[prev].bike = b /\ doc[prev].type = t
                 /\ group = doc[prev].group /\ rev = doc[prev].rev + 1
    <3>1. doc[p] \in Document /\ p \in Docs
      BY DEF IInv, Inv, TypeOK, Rows
    <3>2. doc[p].group \in Docs /\ doc[p].rev + 1 \in 1..MaxRev
      BY <2>2, <3>1, Revisions DEF Document
    <3>3. QED BY <2>2, <3>1, <3>2
  <2>3. QED BY <2>1, <2>2 DEF Register
<1> DEFINE row == [status |-> "awaiting_confirmation", type |-> t, bike |-> b, file |-> f,
                   hash |-> bytes[f], group |-> group, rev |-> rev, prev |-> prev,
                   confirmed |-> FALSE, primary |-> FALSE]
<1>2. /\ DOMAIN doc = Docs /\ DOMAIN doc' = Docs /\ doc[d] = Unused
      /\ \A e \in Docs : doc'[e] = IF e = d THEN row ELSE doc[e]
      /\ \A e \in Rows : doc[e] \in Document
  BY <1>1 DEF IInv, Inv, TypeOK, Register, Draft
<1>3. row \in Document
  BY DEF Document, IInv, Inv, TypeOK
<1>4. d \notin Rows /\ Rows' = Rows \union {d}
  <2>1. d \notin Rows
    BY <1>2 DEF Rows
  <2>2. d \in Rows'
    BY <1>2, <1>3, NoRow DEF Rows
  <2>3. \A e \in Docs \ {d} : e \in Rows' <=> e \in Rows
    BY <1>2 DEF Rows
  <2>4. QED BY <2>1, <2>2, <2>3 DEF Rows
<1>5. /\ doc'[d].group = group /\ doc'[d].rev = rev /\ doc'[d].prev = prev
      /\ doc'[d].bike = b /\ doc'[d].type = t /\ doc'[d].status = "awaiting_confirmation"
      /\ ~doc'[d].confirmed /\ ~doc'[d].primary
  BY <1>2
<1>6. \A e \in Rows : e # d /\ doc'[e] = doc[e]
  BY <1>2, <1>4 DEF Rows
<1> HIDE DEF row
<1>7. TypeOK'
  BY <1>2, <1>3, <1>4, <1>6 DEF IInv, Inv, TypeOK, Register
<1>8. PrimaryIsSound'
  BY <1>4, <1>5, <1>6 DEF IInv, Inv, PrimaryIsSound
\* A new group has no other document, and in an old one the new number is the highest.
<1>9. ASSUME NEW e \in Rows, doc[e].group = group
      PROVE  doc[e].bike = b /\ doc[e].type = t /\ doc[e].rev < rev
  <2>1. CASE group = d /\ prev = NoDoc
    BY <1>2, <1>9, <2>1 DEF IInv, GroupsAreUsed
  <2>2. CASE /\ prev \in Rows /\ Latest(prev) /\ doc[prev].bike = b /\ doc[prev].type = t
             /\ group = doc[prev].group /\ rev = doc[prev].rev + 1
    <3>1. doc[e].rev <= doc[prev].rev /\ SameGroup(e, prev)
      BY <1>9, <2>2 DEF Latest, SameGroup
    <3>2. doc[e].bike = b /\ doc[e].type = t
      BY <2>2, <3>1 DEF IInv, Inv, EditionsAgree
    <3>3. doc[e].rev \in Nat /\ doc[prev].rev \in Nat
      BY <1>2, <2>2, Revisions DEF Document
    <3>4. QED BY <2>2, <3>1, <3>2, <3>3
  <2>3. QED BY <1>1, <2>1, <2>2
<1>10. \A e \in Rows : doc[e].rev \in Nat /\ rev \in Nat
  BY <1>2, Revisions DEF Document
<1>11. EditionsAgree'
  <2> SUFFICES ASSUME NEW e \in Rows', NEW g \in Rows', doc'[e].group = doc'[g].group
               PROVE  /\ doc'[e].bike = doc'[g].bike /\ doc'[e].type = doc'[g].type
                      /\ doc'[e].rev = doc'[g].rev => e = g
    BY DEF EditionsAgree, SameGroup
  <2>1. CASE e \in Rows /\ g \in Rows
    BY <1>6, <2>1 DEF IInv, Inv, EditionsAgree, SameGroup
  <2>2. CASE e = d /\ g \in Rows
    BY <1>5, <1>6, <1>9, <1>10, <2>2
  <2>3. CASE e \in Rows /\ g = d
    BY <1>5, <1>6, <1>9, <1>10, <2>3
  <2>4. QED BY <1>4, <2>1, <2>2, <2>3
<1>12. SupersedesPrevious'
  <2> SUFFICES ASSUME NEW e \in Rows', doc'[e].prev # NoDoc
               PROVE  /\ doc'[e].prev \in Rows' /\ doc'[e].group = doc'[doc'[e].prev].group
                      /\ doc'[e].rev = doc'[doc'[e].prev].rev + 1
    BY DEF SupersedesPrevious, SameGroup
  <2>1. CASE e \in Rows
    BY <1>4, <1>6, <2>1 DEF IInv, Inv, SupersedesPrevious, SameGroup
  <2>2. CASE e = d
    BY <1>1, <1>4, <1>5, <1>6, <2>2
  <2>3. QED BY <1>4, <2>1, <2>2
<1>13. PassedDraftsStayArchived'
  <2> SUFFICES ASSUME NEW e \in Rows', NEW g \in Rows', doc'[e].group = doc'[g].group,
                      doc'[e].rev < doc'[g].rev, doc'[g].confirmed, ~doc'[e].confirmed
               PROVE  doc'[e].status = "archived"
    BY DEF PassedDraftsStayArchived, Older, SameGroup
  <2>1. g \in Rows
    BY <1>4, <1>5
  <2>2. CASE e \in Rows
    BY <1>6, <2>1, <2>2 DEF IInv, PassedDraftsStayArchived, Older, SameGroup
  <2>3. CASE e = d
    BY <1>5, <1>6, <1>9, <1>10, <2>1, <2>3
  <2>4. QED BY <1>4, <2>2, <2>3
<1>14. GroupsAreUsed'
  <2> SUFFICES ASSUME NEW e \in Rows' PROVE doc'[doc'[e].group] # Unused
    BY DEF GroupsAreUsed
  <2>1. doc'[d] # Unused
    BY <1>2, <1>3, NoRow
  <2>2. \A g \in Docs : doc[g] # Unused => doc'[g] # Unused
    BY <1>2, <2>1
  <2>3. CASE e \in Rows
    BY <1>2, <1>6, <2>2, <2>3 DEF IInv, GroupsAreUsed, Document
  <2>4. CASE e = d
    <3>1. CASE group = d
      BY <1>5, <2>1, <2>4, <3>1
    <3>2. CASE prev \in Rows /\ group = doc[prev].group
      BY <1>2, <1>5, <2>2, <2>4, <3>2 DEF IInv, GroupsAreUsed
    <3>3. QED BY <1>1, <3>1, <3>2
  <2>5. QED BY <1>4, <2>3, <2>4
<1>15. QED
  BY <1>7, <1>8, <1>11, <1>12, <1>13, <1>14 DEF IInv, Inv

\* What the invariant says of a row that is only confirmed, chosen or archived.
Frame(r, s) ==
  /\ s \in Document
  /\ s.bike = r.bike /\ s.group = r.group /\ s.rev = r.rev /\ s.prev = r.prev
  /\ s.hash = r.hash

LEMMA Archiving ==
  ASSUME NEW r \in Document, NEW s, s = [r EXCEPT !.status = "archived", !.primary = FALSE]
  PROVE  /\ Frame(r, s) /\ s.status = "archived" /\ s.type = r.type
         /\ s.confirmed = r.confirmed /\ ~s.primary
BY DEF Frame, Document

LEMMA Choosing ==
  ASSUME NEW r \in Document, NEW s, s = [r EXCEPT !.status = "active", !.primary = TRUE]
  PROVE  /\ Frame(r, s) /\ s.status = "active" /\ s.type = r.type
         /\ s.confirmed = r.confirmed /\ s.primary
BY DEF Frame, Document

LEMMA Clearing ==
  ASSUME NEW r \in Document, NEW s, s = [r EXCEPT !.primary = FALSE]
  PROVE  /\ Frame(r, s) /\ s.status = r.status /\ s.type = r.type
         /\ s.confirmed = r.confirmed /\ ~s.primary
BY DEF Frame, Document

\* No row comes or goes, and groups, revisions and bikes stay.
LEMMA FrameKeeps ==
  ASSUME IInv, DOMAIN doc' = Docs, UNCHANGED <<file, bytes, infected>>,
         \A e \in Rows : Frame(doc[e], doc'[e]), \A e \in Docs \ Rows : doc'[e] = doc[e]
  PROVE  TypeOK' /\ Rows' = Rows /\ SupersedesPrevious' /\ GroupsAreUsed'
<1>1. \A e \in Rows : e \in Docs /\ doc[e] \in Document
  BY DEF IInv, Inv, TypeOK, Rows
<1>2. Rows' = Rows
  <2>1. \A e \in Rows : e \in Rows'
    BY <1>1, NoRow DEF Rows, Frame
  <2>2. \A e \in Rows' : e \in Rows
    BY DEF Rows
  <2>3. QED BY <2>1, <2>2
<1>3. TypeOK'
  BY <1>2 DEF IInv, Inv, TypeOK, Frame
<1>4. SupersedesPrevious'
  BY <1>2 DEF IInv, Inv, SupersedesPrevious, SameGroup, Frame
<1>5. GroupsAreUsed'
  <2> SUFFICES ASSUME NEW e \in Rows PROVE doc'[doc'[e].group] # Unused
    BY <1>2 DEF GroupsAreUsed
  <2>1. doc'[e].group = doc[e].group /\ doc[e].group \in Docs /\ doc[doc[e].group] # Unused
    BY <1>1 DEF Frame, Document, IInv, GroupsAreUsed
  <2>2. CASE doc[e].group \in Rows
    BY <2>1, <2>2, NoRow DEF Frame
  <2>3. CASE doc[e].group \notin Rows
    BY <2>1, <2>3
  <2>4. QED BY <2>2, <2>3
<1>6. QED BY <1>2, <1>3, <1>4, <1>5

\* What a confirmation writes.
LEMMA ConfirmWrites ==
  ASSUME IInv, NEW d \in Docs, NEW t \in Types, Confirm(d, t)
  PROVE  /\ d \in Rows /\ ~doc[d].confirmed /\ DOMAIN doc' = Docs
         /\ \A e \in Docs \ Rows : doc'[e] = doc[e]
         /\ \A e \in Rows : Frame(doc[e], doc'[e])
         /\ doc'[d].status = "active" /\ doc'[d].type = t /\ doc'[d].confirmed
         /\ doc'[d].primary <=> t = "manufacturer_manual"
         /\ \A e \in Rows \ {d} :
              /\ doc'[e].type = doc[e].type /\ doc'[e].confirmed = doc[e].confirmed
              /\ doc'[e].status = IF Older(e, d) THEN "archived" ELSE doc[e].status
              /\ doc'[e].primary <=> doc[e].primary /\ ~Older(e, d) /\ ~Clears(d, e, t)
<1>1. \A e \in Rows : e \in Docs /\ doc[e] \in Document
  BY DEF IInv, Inv, TypeOK, Rows
<1> DEFINE row(e) ==
      IF e \notin Rows THEN doc[e]
      ELSE IF e = d
      THEN [doc[e] EXCEPT !.status = "active", !.type = t, !.confirmed = TRUE,
                          !.primary = (t = "manufacturer_manual")]
      ELSE IF Older(e, d) THEN [doc[e] EXCEPT !.status = "archived", !.primary = FALSE]
      ELSE IF Clears(d, e, t) THEN [doc[e] EXCEPT !.primary = FALSE]
      ELSE doc[e]
<1>2. DOMAIN doc' = Docs /\ \A e \in Docs : doc'[e] = row(e)
  BY DEF Confirm
<1>3. d \in Rows /\ ~doc[d].confirmed
  BY DEF Confirm
<1>4. \A e \in Docs \ Rows : doc'[e] = doc[e]
  BY <1>2
<1>5. /\ Frame(doc[d], doc'[d]) /\ doc'[d].status = "active" /\ doc'[d].type = t
      /\ doc'[d].confirmed /\ (doc'[d].primary <=> t = "manufacturer_manual")
  <2>1. doc'[d] = [doc[d] EXCEPT !.status = "active", !.type = t, !.confirmed = TRUE,
                                 !.primary = (t = "manufacturer_manual")]
    BY <1>2, <1>3
  <2>2. PICK p \in BOOLEAN : p = (t = "manufacturer_manual")
    OBVIOUS
  <2>3. doc'[d] = [doc[d] EXCEPT !.status = "active", !.type = t, !.confirmed = TRUE, !.primary = p]
    BY <2>1, <2>2
  <2>4. doc[d] \in Document
    BY <1>1, <1>3
  <2>5. /\ Frame(doc[d], doc'[d]) /\ doc'[d].status = "active" /\ doc'[d].type = t
        /\ doc'[d].confirmed /\ doc'[d].primary = p
    BY <2>3, <2>4 DEF Frame, Document
  <2>6. QED BY <2>2, <2>5
<1>6. ASSUME NEW e \in Rows \ {d}
      PROVE  /\ Frame(doc[e], doc'[e])
             /\ doc'[e].type = doc[e].type /\ doc'[e].confirmed = doc[e].confirmed
             /\ doc'[e].status = IF Older(e, d) THEN "archived" ELSE doc[e].status
             /\ doc'[e].primary <=> doc[e].primary /\ ~Older(e, d) /\ ~Clears(d, e, t)
  <2>1. doc[e] \in Document /\ doc'[e] = row(e)
    BY <1>1, <1>2
  <2>2. CASE Older(e, d)
    BY <2>1, <2>2, Archiving
  <2>3. CASE ~Older(e, d) /\ Clears(d, e, t)
    BY <2>1, <2>3, Clearing
  <2>4. CASE ~Older(e, d) /\ ~Clears(d, e, t)
    BY <2>1, <2>4 DEF Frame
  <2>5. QED BY <2>2, <2>3, <2>4
<1>7. QED BY <1>2, <1>3, <1>4, <1>5, <1>6

\* Editions before it are archived, drafts among them, and the primary of the bike
\* gives way to a manual.
LEMMA ConfirmKeeps ==
  ASSUME IInv, NEW d \in Docs, NEW t \in Types, Confirm(d, t)
  PROVE  IInv'
<1>1. /\ d \in Rows /\ ~doc[d].confirmed /\ DOMAIN doc' = Docs
      /\ \A e \in Docs \ Rows : doc'[e] = doc[e]
      /\ \A e \in Rows : Frame(doc[e], doc'[e])
      /\ doc'[d].status = "active" /\ doc'[d].type = t /\ doc'[d].confirmed
      /\ doc'[d].primary <=> t = "manufacturer_manual"
  BY ConfirmWrites
<1>2. ASSUME NEW e \in Rows \ {d}
      PROVE  /\ doc'[e].type = doc[e].type /\ doc'[e].confirmed = doc[e].confirmed
             /\ doc'[e].status = IF Older(e, d) THEN "archived" ELSE doc[e].status
             /\ doc'[e].primary <=> doc[e].primary /\ ~Older(e, d) /\ ~Clears(d, e, t)
  BY ConfirmWrites
<1>3. TypeOK' /\ Rows' = Rows /\ SupersedesPrevious' /\ GroupsAreUsed'
  BY <1>1, FrameKeeps DEF Confirm
<1>4. \A e, g \in Rows : SameGroup(e, g)' <=> SameGroup(e, g)
  BY <1>1 DEF SameGroup, Frame
<1>5. PrimaryIsSound'
  BY <1>1, <1>2, <1>3 DEF IInv, Inv, PrimaryIsSound, Clears, Frame
<1>6. EditionsAgree'
  <2> SUFFICES ASSUME NEW e \in Rows, NEW g \in Rows, SameGroup(e, g)
               PROVE  /\ doc'[e].bike = doc'[g].bike /\ doc'[e].type = doc'[g].type
                      /\ doc'[e].rev = doc'[g].rev => e = g
    BY <1>3, <1>4 DEF EditionsAgree
  <2>1. /\ doc[e].bike = doc[g].bike /\ doc[e].type = doc[g].type
        /\ doc[e].rev = doc[g].rev => e = g
    BY DEF IInv, Inv, EditionsAgree
  <2>2. MayBe(d, t)
    BY DEF Confirm
  <2>3. doc'[e].type = doc'[g].type
    <3>1. CASE t = doc[d].type
      BY <1>1, <1>2, <2>1, <3>1
    <3>2. CASE \A h \in Rows : SameGroup(h, d) => h = d
      <4>1. CASE e # d /\ g # d
        BY <1>2, <2>1, <4>1
      <4>2. CASE e = d \/ g = d
        BY <3>2, <4>2 DEF SameGroup
      <4>3. QED BY <4>1, <4>2
    <3>3. QED BY <2>2, <3>1, <3>2 DEF MayBe
  <2>4. QED BY <1>1, <2>1, <2>3 DEF Frame
<1>7. PassedDraftsStayArchived'
  <2> SUFFICES ASSUME NEW e \in Rows, NEW g \in Rows, SameGroup(e, g), doc[e].rev < doc[g].rev,
                      doc'[g].confirmed, ~doc'[e].confirmed
               PROVE  doc'[e].status = "archived"
    BY <1>1, <1>3, <1>4 DEF PassedDraftsStayArchived, Older, Frame
  <2>1. e # d
    BY <1>1
  <2>2. CASE g = d
    BY <1>2, <2>1, <2>2 DEF Older
  <2>3. CASE g # d
    BY <1>2, <2>1, <2>3 DEF IInv, PassedDraftsStayArchived, Older
  <2>4. QED BY <2>2, <2>3
<1>8. QED BY <1>3, <1>5, <1>6, <1>7 DEF IInv, Inv

\* What the choice of a primary writes.
LEMMA SelectWrites ==
  ASSUME IInv, NEW d \in Docs, SelectPrimary(d)
  PROVE  /\ d \in Rows /\ doc[d].type = "manufacturer_manual" /\ doc[d].confirmed
         /\ DOMAIN doc' = Docs
         /\ \A e \in Docs \ Rows : doc'[e] = doc[e]
         /\ \A e \in Rows : /\ Frame(doc[e], doc'[e]) /\ doc'[e].type = doc[e].type
                            /\ doc'[e].confirmed = doc[e].confirmed
         /\ doc'[d].status = "active" /\ doc'[d].primary
         /\ \A e \in Rows \ {d} :
              /\ doc'[e].status = doc[e].status
              /\ doc'[e].primary <=> doc[e].primary /\ doc[e].bike # doc[d].bike
<1>1. \A e \in Rows : e \in Docs /\ doc[e] \in Document
  BY DEF IInv, Inv, TypeOK, Rows
<1>2. /\ d \in Rows /\ doc[d].type = "manufacturer_manual" /\ doc[d].confirmed
      /\ DOMAIN doc' = Docs
  BY DEF SelectPrimary, Selectable
<1>3. \A e \in Docs \ Rows : doc'[e] = doc[e]
  BY DEF SelectPrimary
<1>4. doc'[d] = [doc[d] EXCEPT !.status = "active", !.primary = TRUE]
  BY <1>2 DEF SelectPrimary
<1>5. /\ Frame(doc[d], doc'[d]) /\ doc'[d].status = "active" /\ doc'[d].primary
      /\ doc'[d].type = doc[d].type /\ doc'[d].confirmed = doc[d].confirmed
  BY <1>1, <1>2, <1>4, Choosing, ZenonT(60)
<1>6. ASSUME NEW e \in Rows \ {d}
      PROVE  /\ Frame(doc[e], doc'[e]) /\ doc'[e].status = doc[e].status
             /\ doc'[e].type = doc[e].type /\ doc'[e].confirmed = doc[e].confirmed
             /\ doc'[e].primary <=> doc[e].primary /\ doc[e].bike # doc[d].bike
  <2>1. doc[e] \in Document /\ e \in Docs
    BY <1>1
  <2>2. CASE doc[e].bike = doc[d].bike
    <3>1. doc'[e] = [doc[e] EXCEPT !.primary = FALSE]
      BY <2>1, <2>2 DEF SelectPrimary
    <3>2. QED BY <2>1, <2>2, <3>1, Clearing
  <2>3. CASE doc[e].bike # doc[d].bike
    <3>1. doc'[e] = doc[e]
      BY <2>1, <2>3 DEF SelectPrimary
    <3>2. QED BY <2>1, <2>3, <3>1 DEF Frame
  <2>4. QED BY <2>2, <2>3
<1>7. QED BY <1>2, <1>3, <1>5, <1>6

LEMMA SelectKeeps ==
  ASSUME IInv, NEW d \in Docs, SelectPrimary(d)
  PROVE  IInv'
<1>1. /\ d \in Rows /\ doc[d].type = "manufacturer_manual" /\ doc[d].confirmed
      /\ DOMAIN doc' = Docs
      /\ \A e \in Docs \ Rows : doc'[e] = doc[e]
      /\ \A e \in Rows : /\ Frame(doc[e], doc'[e]) /\ doc'[e].type = doc[e].type
                         /\ doc'[e].confirmed = doc[e].confirmed
      /\ doc'[d].status = "active" /\ doc'[d].primary
      /\ \A e \in Rows \ {d} :
           /\ doc'[e].status = doc[e].status
           /\ doc'[e].primary <=> doc[e].primary /\ doc[e].bike # doc[d].bike
  BY SelectWrites
<1>2. TypeOK' /\ Rows' = Rows /\ SupersedesPrevious' /\ GroupsAreUsed'
  BY <1>1, FrameKeeps DEF SelectPrimary
<1>3. \A e, g \in Rows : SameGroup(e, g)' <=> SameGroup(e, g)
  BY <1>1 DEF SameGroup, Frame
<1>4. PrimaryIsSound'
  BY <1>1, <1>2 DEF IInv, Inv, PrimaryIsSound, Frame
<1>5. EditionsAgree'
  BY <1>1, <1>2, <1>3 DEF IInv, Inv, EditionsAgree, Frame
<1>6. PassedDraftsStayArchived'
  BY <1>1, <1>2, <1>3 DEF IInv, PassedDraftsStayArchived, Older, Frame
<1>7. QED BY <1>2, <1>4, <1>5, <1>6 DEF IInv, Inv

-----------------------------------------------------------------------------
LEMMA IInvKept ==
  ASSUME IInv, [Next]_vars
  PROVE  IInv'
<1>1. ASSUME NEW f \in Files, Rewrite(f) \/ Scanned(f) \/ DeleteFile(f) PROVE IInv'
  BY <1>1, RewriteKeeps, DeleteKeeps
<1>2. ASSUME NEW d \in Docs, NEW b \in Bikes, NEW f \in Files, NEW t \in Types, Register(d, b, f, t)
      PROVE  IInv'
  BY <1>2, RegisterKeeps
<1>3. ASSUME NEW d \in Docs, NEW t \in Types, Confirm(d, t) PROVE IInv'
  BY <1>3, ConfirmKeeps
<1>4. ASSUME NEW d \in Docs, SelectPrimary(d) PROVE IInv'
  BY <1>4, SelectKeeps
<1>5. CASE UNCHANGED vars
  <2>1. TypeOK'
    BY <1>5 DEF vars, IInv, Inv, TypeOK, Rows
  <2>2. QED BY <1>5, <2>1, RowsUnchanged DEF vars
<1>6. QED BY <1>1, <1>2, <1>3, <1>4, <1>5 DEF Next

\* Groups of editions are coherent, and passed drafts archived, in every state.
THEOREM EditionsHold == Spec => []IInv
<1>1. Init => IInv
  BY IInvInit
<1>2. IInv /\ [Next]_vars => IInv'
  BY IInvKept
<1>3. QED BY <1>1, <1>2, PTL DEF Spec

\* No operation on the records of services/documents.py runs into ck_documents_primary,
\* ix_documents_primary_bike or uq_documents_version_revision.
THEOREM ConstraintsHold == Spec => [](Inv /\ PassedDraftsStayArchived)
<1>1. IInv => Inv /\ PassedDraftsStayArchived
  BY DEF IInv
<1>2. QED BY <1>1, EditionsHold, PTL

\* A primary that is cleared is replaced in the same step, by a manual of its bike.
LEMMA PrimaryStep ==
  ASSUME IInv, IInv', [Next]_vars, NEW b \in Bikes, HasPrimary(b), file' = file
  PROVE  HasPrimary(b)'
<1>1. PICK e \in Rows : doc[e].bike = b /\ doc[e].primary
  BY DEF HasPrimary
<1>2. CASE doc' = doc
  BY <1>2 DEF HasPrimary, Rows
<1>3. ASSUME NEW f \in Files, DeleteFile(f) PROVE FALSE
  BY <1>3 DEF DeleteFile
<1>4. ASSUME NEW d \in Docs, NEW f \in Files, NEW t \in Types, NEW c \in Bikes, Register(d, c, f, t)
      PROVE  HasPrimary(b)'
  <2>1. d # e /\ e \in Docs /\ DOMAIN doc = Docs
    BY <1>4 DEF Register, Rows, IInv, Inv, TypeOK
  <2>2. doc'[e] = doc[e]
    BY <1>4, <2>1 DEF Register, Draft
  <2>3. QED BY <1>1, <2>1, <2>2 DEF HasPrimary, Rows
<1>5. ASSUME NEW d \in Docs, NEW t \in Types, Confirm(d, t) PROVE HasPrimary(b)'
  <2>1. /\ d \in Rows /\ ~doc[d].confirmed
        /\ \A g \in Rows : Frame(doc[g], doc'[g])
        /\ doc'[d].primary <=> t = "manufacturer_manual"
    BY <1>5, ConfirmWrites
  <2>2. Rows' = Rows
    BY <1>5, ConfirmWrites, FrameKeeps DEF Confirm
  <2>3. e # d /\ doc[e].type = "manufacturer_manual"
    BY <1>1, <2>1 DEF IInv, Inv, PrimaryIsSound
  <2>4. doc'[e].primary <=> doc[e].primary /\ ~Older(e, d) /\ ~Clears(d, e, t)
    BY <1>5, <2>3, ConfirmWrites
  <2>5. CASE doc'[e].primary
    BY <1>1, <2>1, <2>2, <2>5 DEF HasPrimary, Frame
  <2>6. CASE Clears(d, e, t)
    BY <1>1, <2>1, <2>2, <2>6 DEF HasPrimary, Frame, Clears
  <2>7. CASE Older(e, d)
    <3>1. SameGroup(e, d) /\ doc[d].bike = b /\ doc[d].type = "manufacturer_manual"
      BY <1>1, <2>1, <2>3, <2>7 DEF Older, IInv, Inv, EditionsAgree
    <3>2. t = "manufacturer_manual"
      BY <1>5, <2>3, <3>1 DEF Confirm, MayBe
    <3>3. QED BY <2>1, <2>2, <3>1, <3>2 DEF HasPrimary, Frame
  <2>8. QED BY <1>1, <2>4, <2>5, <2>6, <2>7
<1>6. ASSUME NEW d \in Docs, SelectPrimary(d) PROVE HasPrimary(b)'
  <2>1. /\ d \in Rows /\ \A g \in Rows : Frame(doc[g], doc'[g])
        /\ doc'[d].primary
        /\ \A g \in Rows \ {d} : doc'[g].primary <=> doc[g].primary /\ doc[g].bike # doc[d].bike
    BY <1>6, SelectWrites
  <2>2. Rows' = Rows
    BY <1>6, SelectWrites, FrameKeeps DEF SelectPrimary
  <2>3. CASE doc[d].bike = b
    BY <2>1, <2>2, <2>3 DEF HasPrimary, Frame
  <2>4. CASE doc[d].bike # b
    BY <1>1, <2>1, <2>2, <2>4 DEF HasPrimary, Frame
  <2>5. QED BY <2>3, <2>4
<1>7. QED
  BY <1>2, <1>3, <1>4, <1>5, <1>6 DEF Next, vars, Rewrite, Scanned

\* A bike keeps a primary manual until a file is deleted, however many editions are
\* registered, confirmed and chosen.
THEOREM PrimaryKept == Spec => PrimaryIsKept
<1> DEFINE A == \A b \in Bikes : (HasPrimary(b) /\ file' = file) => HasPrimary(b)'
<1>1. IInv /\ IInv' /\ [Next]_vars => [A]_vars
  BY PrimaryStep
<1>2. QED BY <1>1, EditionsHold, PTL DEF Spec, PrimaryIsKept

-----------------------------------------------------------------------------
(* What is searched for *)

\* A passage that a statement can return.
PassageSet ==
  [doc: Docs, chunk: Chunks, attempt: Nat, hash: Contents, type: Types, rev: 1..MaxRev,
   primary: BOOLEAN, status: {"active", "archived"}]

Item == [passage: PassageSet, of: PassageSet]

-----------------------------------------------------------------------------
(* Folds *)

\* Every text has a length, and fits an empty budget.
LEMMA ItemSize ==
  \A y \in Item : y.passage.chunk \in Chunks /\ Size[y.passage.chunk] \in 1..Capacity
                  /\ Size[y.passage.chunk] \in Nat
<1> SUFFICES ASSUME NEW y \in Item
             PROVE  /\ y.passage.chunk \in Chunks /\ Size[y.passage.chunk] \in 1..Capacity
                    /\ Size[y.passage.chunk] \in Nat
  OBVIOUS
<1>1. y.passage.chunk \in Chunks
  BY DEF Item, PassageSet
<1>2. Size \in [Chunks -> 1..Capacity] /\ Capacity \in Nat
  BY ChunkSizes, SearchLimits
<1> QED BY <1>1, <1>2

\* The sum of the lengths, item after item.
LEMMA CharsAlong ==
  ASSUME NEW q \in Seq(Item)
  PROVE  \E v \in [0..Len(q) -> Nat] :
           /\ v[0] = 0 /\ Chars(q) = v[Len(q)]
           /\ \A i \in 1..Len(q) : v[i] = v[i - 1] + Size[q[i].passage.chunk]
<1> DEFINE n == Len(q)
           g == [x \in Nat \X Item |-> x[1] + Size[x[2].passage.chunk]]
           c == CHOOSE c : c = [s \in SUBSET (1..n) |->
                  IF s = {} THEN 0 ELSE c[s \ {Max(s)}] + Size[q[Max(s)].passage.chunk]]
<1>1. n \in Nat /\ q \in [1..n -> Item]
  OBVIOUS
<1>2. \A y \in Item : Size[y.passage.chunk] \in Nat
  BY ItemSize
<1>3. g \in [Nat \X Item -> Nat] /\ 0 \in Nat
  BY <1>2
<1>4. \A x \in Nat, y \in Item : g[<<x, y>>] = x + Size[y.passage.chunk]
  OBVIOUS
<1>5. Chars(q) = c[1..n]
  BY <1>1 DEF Chars, FoldLeft, MapThenFoldSet
<1> HIDE DEF g, n
<1>6. c = [s \in SUBSET (1..n) |->
             IF s = {} THEN 0 ELSE c[s \ {Max(s)}] + Size[q[Max(s)].passage.chunk]]
  <2>1. PICK h, v : /\ FoldsTo(h, 1..n, 0, g, q) /\ Typed(h, 1..n, Nat, Item, q)
                    /\ Values(v, n, Nat, Item, 0, g, q)
    BY <1>1, <1>3, FoldAlong
  <2>2. h = [s \in SUBSET (1..n) |->
             IF s = {} THEN 0 ELSE h[s \ {Max(s)}] + Size[q[Max(s)].passage.chunk]]
    BY <1>4, <2>1 DEF FoldsTo, Typed
  <2> QED BY <2>2
<1> HIDE DEF c
<1>7. FoldsLike(c, 1..n, Nat, Item, 0, g, q)
  BY <1>4, <1>6, ZenonT(60) DEF FoldsLike
<1>8. PICK v : Values(v, n, Nat, Item, 0, g, q) /\ Ends(v, n, c)
  BY <1>1, <1>3, <1>7, FoldRounds
<1>9. \A i \in 1..n : v[i] = v[i - 1] + Size[q[i].passage.chunk]
  BY <1>4, <1>8 DEF Values
<1> QED BY <1>5, <1>8, <1>9 DEF n, Values, Ends

\* The items that are kept, item after item.
LEMMA KeepAlong ==
  ASSUME NEW q \in Seq(Item)
  PROVE  \E v \in [0..Len(q) -> Seq(Item)] :
           /\ v[0] = <<>> /\ WithinBudget(q) = v[Len(q)]
           /\ \A i \in 1..Len(q) : v[i] = Keep(v[i - 1], q[i])
<1> DEFINE n == Len(q)
           g == [x \in Seq(Item) \X Item |-> Keep(x[1], x[2])]
           c == CHOOSE c : c = [s \in SUBSET (1..n) |->
                  IF s = {} THEN <<>> ELSE Keep(c[s \ {Max(s)}], q[Max(s)])]
<1>1. n \in Nat /\ q \in [1..n -> Item]
  OBVIOUS
<1>2. \A x \in Seq(Item), y \in Item : Keep(x, y) \in Seq(Item)
  BY DEF Keep
<1>3. g \in [Seq(Item) \X Item -> Seq(Item)] /\ <<>> \in Seq(Item)
  BY <1>2
<1>4. \A x \in Seq(Item), y \in Item : g[<<x, y>>] = Keep(x, y)
  OBVIOUS
<1>5. WithinBudget(q) = c[1..n]
  BY <1>1 DEF WithinBudget, FoldLeft, MapThenFoldSet
<1> HIDE DEF g, n
<1>6. c = [s \in SUBSET (1..n) |->
             IF s = {} THEN <<>> ELSE Keep(c[s \ {Max(s)}], q[Max(s)])]
  <2>1. PICK h, v : /\ FoldsTo(h, 1..n, <<>>, g, q) /\ Typed(h, 1..n, Seq(Item), Item, q)
                    /\ Values(v, n, Seq(Item), Item, <<>>, g, q)
    BY <1>1, <1>3, FoldAlong
  <2>2. h = [s \in SUBSET (1..n) |->
             IF s = {} THEN <<>> ELSE Keep(h[s \ {Max(s)}], q[Max(s)])]
    BY <1>4, <2>1 DEF FoldsTo, Typed
  <2> QED BY <2>2
<1> HIDE DEF c
<1>7. FoldsLike(c, 1..n, Seq(Item), Item, <<>>, g, q)
  BY <1>4, <1>6 DEF FoldsLike
<1>8. PICK v : Values(v, n, Seq(Item), Item, <<>>, g, q) /\ Ends(v, n, c)
  BY <1>1, <1>3, <1>7, FoldRounds
<1>9. \A i \in 1..n : v[i] = Keep(v[i - 1], q[i])
  BY <1>4, <1>8 DEF Values
<1> QED BY <1>5, <1>8, <1>9 DEF n, Values, Ends

\* A passage that is fused is added, put in the place of another, or left out.
LEMMA FuseIs ==
  ASSUME NEW kept \in Seq(PassageSet), NEW p \in PassageSet
  PROVE  /\ Fuse(kept, p) \in Seq(PassageSet)
         /\ ToSet(Fuse(kept, p)) \subseteq ToSet(kept) \union {p}
         /\ Fuse(kept, p) # <<>>
<1> DEFINE same == {i \in DOMAIN kept : Overlaps(kept[i], p)}
<1>1. CASE same = {}
  <2>1. Fuse(kept, p) = Append(kept, p)
    BY <1>1 DEF Fuse
  <2>2. ToSet(Append(kept, p)) \subseteq ToSet(kept) \union {p}
    BY DEF ToSet
  <2> QED BY <2>1, <2>2
<1>2. CASE same # {}
  <2>1. Min(same) \in same
    <3>1. same \in SUBSET Nat
      OBVIOUS
    <3> HIDE DEF same
    <3> QED BY <1>2, <3>1, MinIs
  <2>2. PICK i \in DOMAIN kept : i = Min(same)
    BY <2>1
  <2>3. Fuse(kept, p) = kept \/ Fuse(kept, p) = [kept EXCEPT ![i] = p]
    BY <1>2, <2>2 DEF Fuse
  <2>4. ToSet([kept EXCEPT ![i] = p]) \subseteq ToSet(kept) \union {p}
    BY DEF ToSet
  <2>5. [kept EXCEPT ![i] = p] \in Seq(PassageSet) /\ [kept EXCEPT ![i] = p] # <<>> /\ kept # <<>>
    BY <2>2
  <2> QED BY <2>3, <2>4, <2>5
<1> QED BY <1>1, <1>2

\* The passages that are fused, one after the other.
LEMMA FuseAlong ==
  ASSUME NEW q \in Seq(PassageSet)
  PROVE  \E v \in [0..Len(q) -> Seq(PassageSet)] :
           /\ v[0] = <<>> /\ FoldLeft(Fuse, <<>>, q) = v[Len(q)]
           /\ \A i \in 1..Len(q) : v[i] = Fuse(v[i - 1], q[i])
<1> DEFINE n == Len(q)
           g == [x \in Seq(PassageSet) \X PassageSet |-> Fuse(x[1], x[2])]
           c == CHOOSE c : c = [s \in SUBSET (1..n) |->
                  IF s = {} THEN <<>> ELSE Fuse(c[s \ {Max(s)}], q[Max(s)])]
<1>1. n \in Nat /\ q \in [1..n -> PassageSet]
  OBVIOUS
<1>2. \A x \in Seq(PassageSet), y \in PassageSet : Fuse(x, y) \in Seq(PassageSet)
  BY FuseIs
<1>3. g \in [Seq(PassageSet) \X PassageSet -> Seq(PassageSet)] /\ <<>> \in Seq(PassageSet)
  BY <1>2
<1>4. \A x \in Seq(PassageSet), y \in PassageSet : g[<<x, y>>] = Fuse(x, y)
  OBVIOUS
<1>5. FoldLeft(Fuse, <<>>, q) = c[1..n]
  BY <1>1 DEF FoldLeft, MapThenFoldSet
<1> HIDE DEF g, n
<1>6. c = [s \in SUBSET (1..n) |->
             IF s = {} THEN <<>> ELSE Fuse(c[s \ {Max(s)}], q[Max(s)])]
  <2>1. PICK h, v : /\ FoldsTo(h, 1..n, <<>>, g, q)
                    /\ Typed(h, 1..n, Seq(PassageSet), PassageSet, q)
                    /\ Values(v, n, Seq(PassageSet), PassageSet, <<>>, g, q)
    BY <1>1, <1>3, FoldAlong
  <2>2. h = [s \in SUBSET (1..n) |->
             IF s = {} THEN <<>> ELSE Fuse(h[s \ {Max(s)}], q[Max(s)])]
    BY <1>4, <2>1 DEF FoldsTo, Typed
  <2> QED BY <2>2
<1> HIDE DEF c
<1>7. FoldsLike(c, 1..n, Seq(PassageSet), PassageSet, <<>>, g, q)
  BY <1>4, <1>6 DEF FoldsLike
<1>8. PICK v : Values(v, n, Seq(PassageSet), PassageSet, <<>>, g, q) /\ Ends(v, n, c)
  BY <1>1, <1>3, <1>7, FoldRounds
<1>9. \A i \in 1..n : v[i] = Fuse(v[i - 1], q[i])
  BY <1>4, <1>8 DEF Values
<1> QED BY <1>5, <1>8, <1>9 DEF n, Values, Ends

\* The length of an answer grows by the length of what is added.
LEMMA CharsAppend ==
  ASSUME NEW r \in Seq(Item), NEW x \in Item
  PROVE  /\ Chars(r) \in Nat
         /\ Chars(Append(r, x)) = Chars(r) + Size[x.passage.chunk]
<1>1. PICK v \in [0..Len(r) -> Nat] :
        /\ v[0] = 0 /\ Chars(r) = v[Len(r)]
        /\ \A i \in 1..Len(r) : v[i] = v[i - 1] + Size[r[i].passage.chunk]
  BY CharsAlong
<1>2. PICK q : q = Append(r, x)
  OBVIOUS
<1>3. /\ q \in Seq(Item) /\ Len(q) = Len(r) + 1 /\ q[Len(q)] = x
      /\ \A i \in 1..Len(r) : q[i] = r[i]
  BY <1>2
<1>4. PICK w \in [0..Len(q) -> Nat] :
        /\ w[0] = 0 /\ Chars(q) = w[Len(q)]
        /\ \A i \in 1..Len(q) : w[i] = w[i - 1] + Size[q[i].passage.chunk]
  BY <1>3, CharsAlong
<1> DEFINE G == {i \in 0..Len(r) : v[i] = w[i]}
<1>5. Len(r) \in Nat /\ 0 \in G
  BY <1>1, <1>4
<1>6. \A i \in 1..Len(r) : i - 1 \in G => i \in G
  BY <1>1, <1>3, <1>4
<1>7. Len(r) \in G
  <2> HIDE DEF G
  <2>1. \A i \in 0..Len(r) : i \in G
    BY <1>5, <1>6, NumbersAreGood
  <2> QED BY <1>5, <2>1
<1>8. w[Len(q)] = w[Len(r)] + Size[x.passage.chunk]
  BY <1>3, <1>4
<1> QED BY <1>1, <1>2, <1>4, <1>5, <1>7, <1>8

LEMMA CharsEmpty == Chars(<<>>) = 0
<1>1. <<>> \in Seq(Item) /\ Len(<<>>) = 0
  OBVIOUS
<1>2. PICK v \in [0..Len(<<>>) -> Nat] : v[0] = 0 /\ Chars(<<>>) = v[Len(<<>>)]
  BY <1>1, CharsAlong
<1> QED BY <1>1, <1>2

-----------------------------------------------------------------------------
(* The budget *)

\* What is read for an answer: n matches, and neighbours of theirs.  A row is one match,
\* and two copies of a chunk have the same text.
Matches(items, n) == {items[i].passage : i \in 1..n}

OneText(passages) == \A p, q \in passages : p.doc = q.doc => p.hash = q.hash
UniqueRows(passages) == \A p, q \in passages : SameRow(p, q) => p = q

Read(items, n) ==
  /\ items \in Seq(Item) /\ n \in 1..Len(items)
  /\ \A i \in 1..n : items[i].of = items[i].passage
  /\ \A i \in (n + 1)..Len(items) : items[i].of \in Matches(items, n)
  /\ UniqueRows(Matches(items, n))
  /\ OneText({items[i].passage : i \in DOMAIN items})

\* There is no place in the answer for a passage, and never will be again.
Blocked(p, r) ==
  \/ Len(r) >= MaxPassages
  \/ Chars(r) + Size[p.chunk] > Capacity
  \/ \E other \in ToSet(r) : Overlaps(other.passage, p)

\* The answer after i items.
Within(r, items, n, i) ==
  /\ r \in Seq(Item) /\ ToSet(r) \subseteq ToSet(items) /\ (i > 0 => r # <<>>)
  /\ Len(r) <= MaxPassages /\ Chars(r) <= Capacity
  /\ \A j, k \in DOMAIN r : j # k => ~Overlaps(r[j].passage, r[k].passage)
  /\ \A item \in ToSet(r) : \E other \in ToSet(r) : other.passage = item.of
  /\ \A k \in 1..n : k <= i => Blocked(items[k].passage, r)
  /\ \A item \in ToSet(r) : /\ item.passage.chunk \in Chunks
                            /\ \/ item.passage \in Matches(items, n)
                               \/ \A m \in Matches(items, n) : ~SameRow(item.passage, m)

LEMMA OverlapsItself ==
  \A p, q : Overlaps(p, p) /\ (Overlaps(p, q) <=> Overlaps(q, p))
BY DEF Overlaps

LEMMA AppendSet ==
  ASSUME NEW r \in Seq(Item), NEW x \in Item
  PROVE  /\ Append(r, x) \in Seq(Item) /\ Len(Append(r, x)) = Len(r) + 1
         /\ ToSet(Append(r, x)) = ToSet(r) \union {x}
         /\ \A j \in DOMAIN Append(r, x) :
              IF j = Len(r) + 1 THEN Append(r, x)[j] = x
              ELSE j \in DOMAIN r /\ Append(r, x)[j] = r[j]
<1>1. PICK t : t = Append(r, x)
  OBVIOUS
<1>2. t \in Seq(Item) /\ Len(t) = Len(r) + 1 /\ DOMAIN r = 1..Len(r) /\ DOMAIN t = 1..(Len(r) + 1)
      /\ Len(r) \in Nat
  BY <1>1
<1>3. t[Len(r) + 1] = x /\ \A j \in 1..Len(r) : t[j] = r[j]
  BY <1>1
<1>4. ToSet(t) = ToSet(r) \union {x}
  <2>1. \A j \in 1..(Len(r) + 1) : j \in 1..Len(r) \/ j = Len(r) + 1
    BY <1>2
  <2>2. Len(r) + 1 \in 1..(Len(r) + 1) /\ \A j \in 1..Len(r) : j \in 1..(Len(r) + 1)
    BY <1>2
  <2> QED BY <1>2, <1>3, <2>1, <2>2 DEF ToSet
<1> QED BY <1>1, <1>2, <1>3, <1>4

\* A passage that is added blocks itself, and blocks no less than before.
LEMMA StaysBlocked ==
  ASSUME NEW r \in Seq(Item), NEW x \in Item
  PROVE  /\ Blocked(x.passage, Append(r, x))
         /\ \A p \in PassageSet : Blocked(p, r) => Blocked(p, Append(r, x))
<1>1. /\ Len(Append(r, x)) = Len(r) + 1 /\ ToSet(Append(r, x)) = ToSet(r) \union {x}
      /\ Len(r) \in Nat
  BY AppendSet
<1>2. Blocked(x.passage, Append(r, x))
  BY <1>1, OverlapsItself DEF Blocked
<1>3. ASSUME NEW p \in PassageSet, Blocked(p, r)
      PROVE  Blocked(p, Append(r, x))
  <2>1. PICK a, b, s \in Nat :
          /\ a = Chars(r) /\ b = Size[x.passage.chunk] /\ s = Size[p.chunk]
          /\ Chars(Append(r, x)) = a + b
    <3>1. [passage |-> p, of |-> p] \in Item
      BY DEF Item
    <3>2. Size[p.chunk] \in Nat /\ Size[x.passage.chunk] \in Nat
      BY <3>1, ItemSize
    <3> QED BY <3>2, CharsAppend
  <2>2. CASE Len(r) >= MaxPassages
    BY <1>1, <2>2, SearchLimits DEF Blocked
  <2>3. CASE Chars(r) + Size[p.chunk] > Capacity
    <3>1. PICK t \in Nat : t = Chars(Append(r, x)) /\ t = a + b
      BY <2>1
    <3>2. a + s > Capacity
      BY <2>1, <2>3
    <3>3. t + s > Capacity
      BY <3>1, <3>2, SearchLimits
    <3>4. Chars(Append(r, x)) + Size[p.chunk] > Capacity
      BY <2>1, <3>1, <3>3
    <3> QED BY <3>4 DEF Blocked
  <2>4. CASE \E other \in ToSet(r) : Overlaps(other.passage, p)
    BY <1>1, <2>4 DEF Blocked
  <2> QED BY <1>3, <2>2, <2>3, <2>4 DEF Blocked
<1> QED BY <1>2, <1>3

\* The copies of a row are blocked alike.
LEMMA BlockedAlike ==
  ASSUME NEW p, NEW q, NEW r, p.chunk = q.chunk, p.hash = q.hash, Blocked(p, r)
  PROVE  Blocked(q, r)
BY DEF Blocked, Overlaps

\* What an item does to the answer so far.
LEMMA KeepStep ==
  ASSUME NEW items, NEW n, Read(items, n), NEW i \in 1..Len(items), NEW r,
         Within(r, items, n, i - 1)
  PROVE  Within(Keep(r, items[i]), items, n, i)
<1>1. PICK x \in Item : x = items[i]
  BY DEF Read
<1>2. n \in Nat /\ i \in Nat /\ 1 <= i /\ 1 <= n /\ items \in Seq(Item) /\ r \in Seq(Item)
      /\ Len(r) \in Nat /\ x \in ToSet(items)
  BY <1>1 DEF Read, Within, ToSet
<1> DEFINE M == Matches(items, n)
<1>3. /\ i <= n => x.of = x.passage /\ x.passage \in M
      /\ i > n => x.of \in M
  <2>1. CASE i <= n
    <3>1. i \in 1..n
      BY <1>2, <2>1
    <3> QED BY <1>1, <1>2, <2>1, <3>1 DEF Read, Matches
  <2>2. CASE i > n
    <3>1. i \in (n + 1)..Len(items)
      BY <1>2, <2>2
    <3> QED BY <1>1, <1>2, <2>2, <3>1 DEF Read
  <2> QED BY <1>2, <2>1, <2>2
<1>4. \A p \in M : p \in PassageSet /\ \E k \in 1..n : p = items[k].passage /\ k \in DOMAIN items
  <2>1. \A k \in 1..n : k \in DOMAIN items /\ items[k] \in Item
    BY <1>2 DEF Read
  <2> QED BY <2>1 DEF Matches, Item
<1> DEFINE alone == x.of # x.passage /\ ~\E other \in ToSet(r) : SameRow(other.passage, x.of)
<1>5. Keep(r, x) = IF Blocked(x.passage, r) \/ alone THEN r ELSE Append(r, x)
  BY DEF Keep, Blocked
<1>6. CASE Blocked(x.passage, r) \/ alone
  <2>1. Keep(r, x) = r
    BY <1>5, <1>6
  <2>2. \A k \in 1..n : k <= i => Blocked(items[k].passage, r)
    <3> SUFFICES ASSUME i <= n PROVE Blocked(x.passage, r)
      BY <1>1, <1>2 DEF Within
    <3> QED BY <1>3, <1>6
  <2>3. r # <<>>
    <3>1. CASE i = 1
      <4> SUFFICES ASSUME r = <<>> PROVE FALSE
        OBVIOUS
      <4>1. Blocked(x.passage, <<>>)
        BY <1>2, <1>3, <1>6, <3>1
      <4>2. Len(<<>>) = 0 /\ ToSet(<<>>) = {}
        BY DEF ToSet
      <4>3. Size[x.passage.chunk] \in 1..Capacity
        BY ItemSize
      <4>4. ~(Chars(<<>>) + Size[x.passage.chunk] > Capacity)
        BY <4>3, CharsEmpty, SearchLimits
      <4> QED BY <4>1, <4>2, <4>4, SearchLimits DEF Blocked
    <3>2. CASE i # 1
      BY <1>2, <3>2 DEF Within
    <3> QED BY <3>1, <3>2
  <2> QED BY <1>1, <2>1, <2>2, <2>3 DEF Within
<1>7. CASE ~Blocked(x.passage, r) /\ ~alone
  <2>1. PICK t : t = Append(r, x)
    OBVIOUS
  <2>2. Keep(r, x) = t
    BY <1>5, <1>7, <2>1
  <2>3. /\ t \in Seq(Item) /\ Len(t) = Len(r) + 1 /\ ToSet(t) = ToSet(r) \union {x}
        /\ \A j \in DOMAIN t : IF j = Len(r) + 1 THEN t[j] = x ELSE j \in DOMAIN r /\ t[j] = r[j]
    BY <1>2, <2>1, AppendSet
  <2>4. ToSet(t) \subseteq ToSet(items) /\ t # <<>>
    BY <1>2, <2>3 DEF Within
  <2>5. Len(t) <= MaxPassages
    BY <1>2, <1>7, <2>3, SearchLimits DEF Blocked
  <2>6. Chars(t) <= Capacity
    <3>1. PICK a, b \in Nat : a = Chars(r) /\ b = Size[x.passage.chunk] /\ Chars(t) = a + b
      BY <1>2, <2>1, CharsAppend, ItemSize
    <3>2. ~(a + b > Capacity)
      BY <1>7, <3>1 DEF Blocked
    <3> QED BY <3>1, <3>2, SearchLimits, SMTT(30)
  <2>7. \A j, k \in DOMAIN t : j # k => ~Overlaps(t[j].passage, t[k].passage)
    <3>1. \A j \in DOMAIN r : ~Overlaps(r[j].passage, x.passage)
      BY <1>7 DEF Blocked, ToSet
    <3> SUFFICES ASSUME NEW j \in DOMAIN t, NEW k \in DOMAIN t, j # k
                 PROVE  ~Overlaps(t[j].passage, t[k].passage)
      OBVIOUS
    <3>2. CASE j = Len(r) + 1
      BY <2>3, <3>1, <3>2, OverlapsItself
    <3>3. CASE k = Len(r) + 1
      BY <2>3, <3>1, <3>3
    <3>4. CASE j # Len(r) + 1 /\ k # Len(r) + 1
      BY <2>3, <3>4 DEF Within
    <3> QED BY <3>2, <3>3, <3>4
  <2>8. \E other \in ToSet(t) : other.passage = x.of
    <3>1. CASE x.of = x.passage
      BY <2>3, <3>1
    <3>2. CASE x.of # x.passage
      <4>1. PICK other \in ToSet(r) : SameRow(other.passage, x.of)
        BY <1>7, <3>2
      <4>2. x.of \in M
        BY <1>2, <1>3, <3>2
      <4>3. other.passage = x.of
        BY <4>1, <4>2 DEF Within, Read, UniqueRows
      <4> QED BY <2>3, <4>3
    <3> QED BY <3>1, <3>2
  <2>9. \A item \in ToSet(t) : \E other \in ToSet(t) : other.passage = item.of
    BY <2>3, <2>8 DEF Within
  <2>10. \A k \in 1..n : k <= i => Blocked(items[k].passage, t)
    <3> SUFFICES ASSUME NEW k \in 1..n, k <= i PROVE Blocked(items[k].passage, t)
      OBVIOUS
    <3>1. CASE k = i
      BY <1>1, <1>2, <2>1, <3>1, StaysBlocked
    <3>2. CASE k # i
      <4>1. Blocked(items[k].passage, r) /\ items[k].passage \in M
        BY <1>2, <3>2 DEF Within, Matches
      <4> QED BY <1>2, <1>4, <2>1, <4>1, StaysBlocked
    <3> QED BY <3>1, <3>2
  <2>11. x.passage \in M \/ \A m \in M : ~SameRow(x.passage, m)
    <3> SUFFICES ASSUME i > n, NEW m \in M, SameRow(x.passage, m) PROVE FALSE
      BY <1>2, <1>3
    <3>1. PICK k \in 1..n : m = items[k].passage /\ k \in DOMAIN items
      BY <1>4
    <3>2. Blocked(m, r)
      BY <1>2, <3>1 DEF Within
    <3>3. m.chunk = x.passage.chunk /\ m.hash = x.passage.hash
      <4>1. m.doc = x.passage.doc /\ m.chunk = x.passage.chunk
        BY DEF SameRow
      <4>2. OneText({items[j].passage : j \in DOMAIN items})
        BY <1>1 DEF Read
      <4>3. i \in DOMAIN items
        BY <1>2
      <4>4. /\ m \in {items[j].passage : j \in DOMAIN items}
            /\ x.passage \in {items[j].passage : j \in DOMAIN items}
        BY <1>1, <3>1, <4>3, Zenon
      <4> QED BY <4>1, <4>2, <4>4, Zenon DEF OneText
    <3> QED BY <1>7, <3>2, <3>3, BlockedAlike
  <2>12. x.passage.chunk \in Chunks
    BY DEF Item, PassageSet
  <2>13. Within(t, items, n, i)
    BY <2>3, <2>4, <2>5, <2>6, <2>7, <2>9, <2>10, <2>11, <2>12 DEF Within
  <2> QED BY <1>1, <2>2, <2>13
<1> QED BY <1>6, <1>7

\* An answer within the budget is whole, whatever was dropped.
LEMMA BudgetIsWhole ==
  ASSUME NEW items, NEW n, Read(items, n)
  PROVE  Within(WithinBudget(items), items, n, Len(items))
<1>1. items \in Seq(Item) /\ Len(items) \in Nat /\ n \in 1..Len(items)
  BY DEF Read
<1>2. PICK v \in [0..Len(items) -> Seq(Item)] :
        /\ v[0] = <<>> /\ WithinBudget(items) = v[Len(items)]
        /\ \A i \in 1..Len(items) : v[i] = Keep(v[i - 1], items[i])
  BY <1>1, KeepAlong
<1> DEFINE G == {i \in 0..Len(items) : Within(v[i], items, n, i)}
<1>3. 0 \in G
  <2>1. Within(<<>>, items, n, 0)
    <3>1. <<>> \in Seq(Item) /\ Len(<<>>) = 0 /\ ToSet(<<>>) = {} /\ DOMAIN <<>> = {}
      BY DEF ToSet
    <3>2. Chars(<<>>) <= Capacity /\ 0 <= MaxPassages
      BY CharsEmpty, SearchLimits
    <3> QED BY <1>1, <3>1, <3>2 DEF Within
  <2> QED BY <1>1, <1>2, <2>1
<1>4. \A i \in 1..Len(items) : i - 1 \in G => i \in G
  <2> SUFFICES ASSUME NEW i \in 1..Len(items), Within(v[i - 1], items, n, i - 1)
               PROVE  Within(v[i], items, n, i)
    OBVIOUS
  <2> QED BY <1>2, KeepStep
<1>5. Len(items) \in G
  <2> HIDE DEF G
  <2>1. \A i \in 0..Len(items) : i \in G
    BY <1>1, <1>3, <1>4, NumbersAreGood
  <2> QED BY <1>1, <2>1
<1> QED BY <1>2, <1>5

-----------------------------------------------------------------------------
(* Fusion *)

\* What is fused are passages that were found, and something if anything was.
LEMMA FusionFinds ==
  ASSUME NEW q \in Seq(PassageSet)
  PROVE  /\ ToSet(FoldLeft(Fuse, <<>>, q)) \subseteq ToSet(q)
         /\ q # <<>> => ToSet(FoldLeft(Fuse, <<>>, q)) # {}
<1>1. PICK v \in [0..Len(q) -> Seq(PassageSet)] :
        /\ v[0] = <<>> /\ FoldLeft(Fuse, <<>>, q) = v[Len(q)]
        /\ \A i \in 1..Len(q) : v[i] = Fuse(v[i - 1], q[i])
  BY FuseAlong
<1> DEFINE G == {i \in 0..Len(q) : ToSet(v[i]) \subseteq ToSet(q) /\ (i > 0 => v[i] # <<>>)}
<1>2. 0 \in G /\ Len(q) \in Nat
  BY <1>1 DEF ToSet
<1>3. \A i \in 1..Len(q) : i - 1 \in G => i \in G
  <2> SUFFICES ASSUME NEW i \in 1..Len(q), ToSet(v[i - 1]) \subseteq ToSet(q)
               PROVE  ToSet(v[i]) \subseteq ToSet(q) /\ v[i] # <<>>
    OBVIOUS
  <2>1. q[i] \in PassageSet /\ q[i] \in ToSet(q) /\ v[i - 1] \in Seq(PassageSet)
    BY <1>1 DEF ToSet
  <2>2. PICK w, p : w = v[i - 1] /\ p = q[i] /\ v[i] = Fuse(w, p)
    BY <1>1
  <2>3. ToSet(Fuse(w, p)) \subseteq ToSet(w) \union {p} /\ Fuse(w, p) # <<>>
    BY <2>1, <2>2, FuseIs
  <2> QED BY <2>1, <2>2, <2>3
<1>4. Len(q) \in G
  <2> HIDE DEF G
  <2>1. \A i \in 0..Len(q) : i \in G
    BY <1>2, <1>3, NumbersAreGood
  <2> QED BY <1>2, <2>1
<1>5. q # <<>> => Len(q) > 0
  BY <1>2
<1>6. \A s \in Seq(PassageSet) : s # <<>> => ToSet(s) # {}
  BY DEF ToSet
<1> QED BY <1>1, <1>2, <1>4, <1>5, <1>6

\* The passage with the best rank is among those that are reranked.
LEMMA FusedIs ==
  ASSUME NEW q \in Seq(PassageSet)
  PROVE  /\ Fused(q) \subseteq ToSet(q)
         /\ q # <<>> => Fused(q) # {}
<1>1. PICK kept : kept = ToSet(FoldLeft(Fuse, <<>>, q)) /\ kept \subseteq ToSet(q)
                  /\ (q # <<>> => kept # {})
  BY FusionFinds
<1> DEFINE Rank(i) == Cardinality({j \in 1..i : q[j] \in kept})
<1>2. Fused(q) = {q[i] : i \in {j \in DOMAIN q : q[j] \in kept /\ Rank(j) <= RerankLimit}}
  BY <1>1 DEF Fused
<1>3. Fused(q) \subseteq ToSet(q)
  BY <1>2 DEF ToSet
<1>4. ASSUME q # <<>> PROVE Fused(q) # {}
  <2> DEFINE K == {j \in DOMAIN q : q[j] \in kept}
  <2>1. K # {} /\ K \in SUBSET Nat /\ DOMAIN q = 1..Len(q)
    BY <1>1, <1>4 DEF ToSet
  <2>2. PICK m : m = Min(K)
    OBVIOUS
  <2>3. m \in K /\ \A y \in K : m <= y
    <3> HIDE DEF K
    <3> QED BY <2>1, <2>2, MinIs
  <2>4. {j \in 1..m : q[j] \in kept} = {m}
    <3>1. \A j \in 1..m : j \in DOMAIN q
      BY <2>1, <2>3
    <3>2. \A j \in 1..m : q[j] \in kept => j = m
      BY <2>1, <2>3, <3>1
    <3>3. m \in 1..m /\ q[m] \in kept
      BY <2>1, <2>3
    <3> QED BY <3>2, <3>3
  <2>5. Rank(m) <= RerankLimit
    <3>1. Rank(m) = 1
      BY <2>4, FS_Singleton
    <3> QED BY <3>1, SearchLimits
  <2> QED BY <1>2, <2>3, <2>5
<1> QED BY <1>3, <1>4

-----------------------------------------------------------------------------
(* What a search holds *)

SearchRecord ==
  [stage: Stages, bike: Bikes, refs: BOOLEAN, vector: SUBSET PassageSet,
   candidates: SUBSET PassageSet, items: Seq(Item), unread: Seq(PassageSet),
   changes: 0..MaxChanges, stale: BOOLEAN]

PassagesIn(items) == {items[i].passage : i \in DOMAIN items}
Held == search.vector \union search.candidates \union PassagesIn(search.items)

\* The content of a document is never replaced: what was read of it is still its content,
\* or it is gone, and its id is not used again.
Stored(passages) ==
  \A p \in passages : doc[p.doc] # Unused /\ (p.doc \in Rows => doc[p.doc].hash = p.hash)

\* As long as nothing was taken away, everything that was found is still there, and
\* something was.
NothingLost ==
  /\ Held \subseteq Passages
  /\ search.stage = "embedding" => Passages # {}
  /\ search.stage = "embedded" => search.vector # {}
  /\ search.stage = "fused" => search.candidates # {}

SearchOK ==
  /\ search \in SearchRecord /\ Len(search.unread) <= MaxMatches
  /\ IsFiniteSet(search.vector) /\ IsFiniteSet(search.candidates)
  /\ UniqueRows(search.vector) /\ UniqueRows(search.candidates)
  /\ OneText(Held) /\ Stored(Held)
  /\ ~search.stale => NothingLost
  /\ search.stage = "matched" =>
       \E n \in DOMAIN search.items :
         Read(search.items, n) /\ ToSet(search.unread) \subseteq Matches(search.items, n)
  /\ AnswerIsWhole

SInv ==
  /\ IInv
  /\ index \in [Docs -> 0..(MaxChanges + 1)]
  /\ Searching => SearchOK

-----------------------------------------------------------------------------
(* What the statements return *)

LEMMA PassagesAre ==
  ASSUME IInv, index \in [Docs -> 0..(MaxChanges + 1)], NEW b, NEW refs
  PROVE  /\ PassagesOf(b, refs) \subseteq PassageSet
         /\ IsFiniteSet(PassagesOf(b, refs))
         /\ Stored(PassagesOf(b, refs))
         /\ \A p \in PassagesOf(b, refs) : p.doc \in Rows /\ p = Passage(p.doc, p.chunk)
<1>1. ASSUME NEW d \in Docs, Eligible(d, b, refs), NEW k \in Chunks
      PROVE  /\ Passage(d, k) \in PassageSet /\ d \in Rows /\ doc[d] # Unused
             /\ Passage(d, k).doc = d /\ Passage(d, k).chunk = k
             /\ Passage(d, k).hash = doc[d].hash
  <2>1. d \in Rows /\ doc[d].status \in {"active", "archived"}
    BY <1>1 DEF Eligible
  <2>2. doc[d] \in Document /\ doc[d] # Unused
    BY <2>1 DEF IInv, Inv, TypeOK, Rows
  <2>3. index[d] \in Nat
    BY SearchLimits
  <2> QED BY <2>1, <2>2, <2>3 DEF Passage, PassageSet, Document
<1>2. PassagesOf(b, refs) \subseteq PassageSet
  BY <1>1 DEF PassagesOf
<1>3. \A p \in PassagesOf(b, refs) : /\ p.doc \in Rows /\ p = Passage(p.doc, p.chunk)
                                     /\ doc[p.doc] # Unused /\ doc[p.doc].hash = p.hash
  <2> SUFFICES ASSUME NEW d \in Docs, Eligible(d, b, refs), NEW k \in Chunks, NEW p,
                      p = Passage(d, k)
               PROVE  /\ p.doc \in Rows /\ p = Passage(p.doc, p.chunk)
                      /\ doc[p.doc] # Unused /\ doc[p.doc].hash = p.hash
    BY DEF PassagesOf
  <2> QED BY <1>1
<1>4. IsFiniteSet(PassagesOf(b, refs))
  <2> DEFINE f == [x \in Docs \X Chunks |-> Passage(x[1], x[2])]
             T == {f[x] : x \in Docs \X Chunks}
  <2>1. IsFiniteSet(Docs \X Chunks)
    BY FiniteLibrary, FS_Product
  <2>2. f \in Surjection(Docs \X Chunks, T)
    BY DEF Surjection
  <2>3. IsFiniteSet(T)
    <3> HIDE DEF f, T
    <3> QED BY <2>1, <2>2, FS_Surjection
  <2>4. PassagesOf(b, refs) \subseteq T
    <3>1. \A d \in Docs, k \in Chunks : Passage(d, k) = f[<<d, k>>]
      OBVIOUS
    <3>2. \A d \in Docs, k \in Chunks : <<d, k>> \in Docs \X Chunks
      OBVIOUS
    <3> HIDE DEF f, T
    <3> SUFFICES ASSUME NEW d \in Docs, NEW k \in Chunks PROVE Passage(d, k) \in T
      BY DEF PassagesOf
    <3> QED BY <3>1, <3>2 DEF T
  <2> HIDE DEF T
  <2> QED BY <2>3, <2>4, FS_Subset
<1> QED BY <1>2, <1>3, <1>4 DEF Stored

\* One chunk is one passage, and two chunks of a document are of one content.
LEMMA PassagesAreRows ==
  ASSUME NEW S, NEW P, Stored(S), Stored(P), OneText(S),
         \A p \in P : p.doc \in Rows /\ p = Passage(p.doc, p.chunk)
  PROVE  UniqueRows(P) /\ OneText(S \union P) /\ Stored(S \union P)
<1>1. UniqueRows(P)
  BY DEF UniqueRows, SameRow
<1>2. OneText(S \union P)
  BY DEF OneText, Stored
<1> QED BY <1>1, <1>2 DEF Stored

LEMMA OneTextOfSubset ==
  ASSUME NEW S, NEW P \in SUBSET S
  PROVE  (OneText(S) => OneText(P)) /\ (Stored(S) => Stored(P))
         /\ (UniqueRows(S) => UniqueRows(P))
BY DEF OneText, Stored, UniqueRows

\* A sequence of the elements of a finite set.
LEMMA SeqsAre ==
  ASSUME NEW T, NEW S \in SUBSET T, IsFiniteSet(S), NEW q \in SetToSeqs(S)
  PROVE  /\ q \in Seq(T) /\ ToSet(q) \subseteq S /\ (S # {} => q # <<>>)
         /\ \A i, j \in DOMAIN q : q[i] = q[j] => i = j
<1>1. PICK n \in Nat : n = Cardinality(S) /\ (S # {} => n # 0)
  BY FS_CardinalityType, FS_EmptySet
<1>2. q \in [1..n -> S] /\ \A i, j \in 1..n : i # j => q[i] # q[j]
  BY <1>1 DEF SetToSeqs
<1>3. q \in Seq(T) /\ DOMAIN q = 1..n /\ Len(q) = n
  BY <1>2
<1> QED BY <1>1, <1>2, <1>3 DEF ToSet

\* A document keeps its content as long as it is there, and its id is never used again.
LEMMA RowsFate ==
  ASSUME IInv, [Next]_vars, NEW d \in Docs, doc[d] # Unused
  PROVE  doc'[d] # Unused /\ (d \in Rows' => d \in Rows /\ doc'[d].hash = doc[d].hash)
<1>0. /\ DOMAIN doc = Docs /\ (d \in Rows => doc[d] \in Document)
      /\ (d \notin Rows => doc[d] = Gone)
  BY DEF IInv, Inv, TypeOK, Rows
<1>1. CASE doc' = doc
  BY <1>1 DEF Rows
<1>2. ASSUME NEW f \in Files, DeleteFile(f)
      PROVE  doc'[d] # Unused /\ (d \in Rows' => d \in Rows /\ doc'[d].hash = doc[d].hash)
  <2>1. \/ doc'[d] = Gone
        \/ d \in Rows /\ doc'[d] = [doc[d] EXCEPT !.prev = NoDoc]
        \/ doc'[d] = doc[d]
    BY <1>2 DEF DeleteFile
  <2>2. d \in Rows => [doc[d] EXCEPT !.prev = NoDoc] \in Document
                      /\ [doc[d] EXCEPT !.prev = NoDoc].hash = doc[d].hash
    BY <1>0, OnlyPrev DEF Kept
  <2> QED BY <1>0, <2>1, <2>2, NoRow DEF Rows
<1>3. ASSUME NEW e \in Docs, NEW b \in Bikes, NEW f \in Files, NEW t \in Types,
             Register(e, b, f, t)
      PROVE  doc'[d] # Unused /\ (d \in Rows' => d \in Rows /\ doc'[d].hash = doc[d].hash)
  <2>1. doc'[d] = doc[d]
    BY <1>0, <1>3 DEF Register, Draft
  <2> QED BY <2>1 DEF Rows
<1>4. ASSUME DOMAIN doc' = Docs, \A e \in Docs \ Rows : doc'[e] = doc[e],
             \A e \in Rows : Frame(doc[e], doc'[e])
      PROVE  doc'[d] # Unused /\ (d \in Rows' => d \in Rows /\ doc'[d].hash = doc[d].hash)
  BY <1>0, <1>4, NoRow DEF Rows, Frame
<1>5. ASSUME NEW e \in Docs, NEW t \in Types, Confirm(e, t)
      PROVE  doc'[d] # Unused /\ (d \in Rows' => d \in Rows /\ doc'[d].hash = doc[d].hash)
  BY <1>4, <1>5, ConfirmWrites
<1>6. ASSUME NEW e \in Docs, SelectPrimary(e)
      PROVE  doc'[d] # Unused /\ (d \in Rows' => d \in Rows /\ doc'[d].hash = doc[d].hash)
  BY <1>4, <1>6, SelectWrites
<1> QED BY <1>1, <1>2, <1>3, <1>5, <1>6 DEF Next, vars, Rewrite, Scanned

\* What a search holds stays stored while the documents change.
LEMMA StoredKept ==
  ASSUME IInv, [Next]_vars, NEW S \in SUBSET PassageSet, Stored(S)
  PROVE  Stored(S)'
<1> SUFFICES ASSUME NEW p \in S
             PROVE  doc'[p.doc] # Unused /\ (p.doc \in Rows' => doc'[p.doc].hash = p.hash)
  BY DEF Stored
<1>1. p.doc \in Docs /\ doc[p.doc] # Unused /\ (p.doc \in Rows => doc[p.doc].hash = p.hash)
  BY DEF Stored, PassageSet
<1> QED BY <1>1, RowsFate

-----------------------------------------------------------------------------
(* The steps of a search, in which the documents stand still *)

LEMMA StandStill ==
  ASSUME SInv, UNCHANGED <<vars, index>>
  PROVE  /\ IInv' /\ index' \in [Docs -> 0..(MaxChanges + 1)]
         /\ \A S : Stored(S) => Stored(S)'
         /\ (search'.bike = search.bike /\ search'.refs = search.refs) => Passages' = Passages
<1>1. IInv'
  <2>1. [Next]_vars
    OBVIOUS
  <2> QED BY <2>1, IInvKept DEF SInv
<1>2. \A S : Stored(S) => Stored(S)'
  BY DEF Stored, Rows, vars
<1>3. (search'.bike = search.bike /\ search'.refs = search.refs) => Passages' = Passages
  BY DEF Passages, PassagesOf, Passage, Eligible, Rows, vars
<1> QED BY <1>1, <1>2, <1>3 DEF SInv

\* What the passages of this search are.
LEMMA PassagesNow ==
  ASSUME SInv
  PROVE  /\ Passages \subseteq PassageSet /\ IsFiniteSet(Passages) /\ Stored(Passages)
         /\ UniqueRows(Passages)
         /\ \A S : Stored(S) /\ OneText(S) =>
              OneText(S \union Passages) /\ Stored(S \union Passages)
<1>1. /\ Passages \subseteq PassageSet /\ IsFiniteSet(Passages) /\ Stored(Passages)
      /\ \A p \in Passages : p.doc \in Rows /\ p = Passage(p.doc, p.chunk)
  BY PassagesAre DEF SInv, Passages
<1>2. PICK P : P = Passages
  OBVIOUS
<1>3. \A S : Stored(S) /\ OneText(S) => OneText(S \union P) /\ Stored(S \union P)
  BY <1>1, <1>2, PassagesAreRows
<1>4. UniqueRows(P)
  <2>1. Stored({}) /\ OneText({})
    BY DEF Stored, OneText
  <2> QED BY <1>1, <1>2, <2>1, PassagesAreRows
<1> QED BY <1>1, <1>2, <1>3, <1>4

LEMMA NotReady == (search.stage # "ready") => AnswerIsWhole
BY DEF AnswerIsWhole, At

LEMMA NotReadyAfter == (search'.stage # "ready") => AnswerIsWhole'
BY DEF AnswerIsWhole, At

\* What was read before and what is read now are copies of the same contents.
LEMMA HeldKeeps ==
  ASSUME SInv, SearchOK, UNCHANGED <<vars, index>>, Held' \subseteq Held \union Passages
  PROVE  OneText(Held)' /\ Stored(Held)'
<1>1. OneText(Held \union Passages) /\ Stored(Held \union Passages)
  BY PassagesNow DEF SearchOK
<1>2. PICK H : H = Held'
  OBVIOUS
<1>3. OneText(H) /\ Stored(H)
  BY <1>1, <1>2, OneTextOfSubset
<1>4. Stored(H)'
  BY <1>3, StandStill
<1> QED BY <1>2, <1>3, <1>4 DEF Stored, OneText

\* The rows of the first statement are passages of this moment, and there are some.
LEMMA VectorKeeps ==
  ASSUME SInv, VectorSearch
  PROVE  SInv'
<1>1. PICK rows \in Statement :
        search' = [search EXCEPT !.stage = "embedded", !.vector = rows]
  BY DEF VectorSearch
<1>2. /\ SearchOK /\ search.stage = "embedding" /\ search \in SearchRecord
      /\ UNCHANGED <<vars, index>>
  BY DEF VectorSearch, At, SInv, SearchOK
<1>3. /\ rows \subseteq Passages
      /\ Cardinality(rows) = Min({CandidateLimit, Cardinality(Passages)})
  BY DEF Statement
<1>4. /\ Passages \subseteq PassageSet /\ IsFiniteSet(Passages) /\ UniqueRows(Passages)
      /\ OneText(Held \union Passages) /\ Stored(Held \union Passages)
  BY <1>2, PassagesNow DEF SearchOK
<1>5. /\ search' \in SearchRecord /\ search'.stage = "embedded" /\ search'.vector = rows
      /\ search'.bike = search.bike /\ search'.refs = search.refs
      /\ search'.candidates = search.candidates /\ search'.items = search.items
      /\ search'.unread = search.unread /\ search'.stale = search.stale
  BY <1>1, <1>2, <1>3, <1>4 DEF SearchRecord, Stages, Answers
<1>6. Held' \subseteq Held \union Passages /\ (Held \subseteq Passages => Held' \subseteq Passages)
  BY <1>3, <1>5 DEF Held
<1>7. IInv' /\ index' \in [Docs -> 0..(MaxChanges + 1)] /\ Passages' = Passages
      /\ \A S : Stored(S) => Stored(S)'
  BY <1>2, <1>5, StandStill
<1>8. IsFiniteSet(rows) /\ UniqueRows(rows) /\ (Passages # {} => rows # {})
  <2>1. IsFiniteSet(rows)
    BY <1>3, <1>4, FS_Subset
  <2>2. UniqueRows(rows)
    BY <1>3, <1>4, OneTextOfSubset
  <2>3. Passages # {} => rows # {}
    <3>1. PICK n \in Nat : n = Cardinality(Passages) /\ (Passages # {} => n # 0)
      BY <1>4, FS_CardinalityType, FS_EmptySet
    <3>2. PICK L : L = {CandidateLimit, n}
      OBVIOUS
    <3>3. Min(L) \in L
      BY <3>1, <3>2, MinIs, SearchLimits
    <3>4. Passages # {} => Cardinality(rows) # 0
      BY <1>3, <3>1, <3>2, <3>3, SearchLimits
    <3> QED BY <3>4, FS_EmptySet
  <2> QED BY <2>1, <2>2, <2>3
<1>9. OneText(Held)' /\ Stored(Held)'
  BY <1>2, <1>6, HeldKeeps
<1>10. SearchOK'
  <2>1. ~search'.stale => NothingLost'
    BY <1>2, <1>5, <1>6, <1>7, <1>8 DEF SearchOK, NothingLost
  <2>2. AnswerIsWhole'
    BY <1>5, NotReadyAfter
  <2> QED BY <1>2, <1>5, <1>8, <1>9, <2>1, <2>2 DEF SearchOK
<1> QED BY <1>7, <1>10 DEF SInv

\* A row is found by both statements or by one, and the copy read last is kept.
LEMMA FoundIs ==
  ASSUME NEW V, NEW K, UniqueRows(V), UniqueRows(K)
  PROVE  /\ UniqueRows(Found(V, K)) /\ Found(V, K) \subseteq V \union K
         /\ V # {} => Found(V, K) # {}
BY DEF UniqueRows, Found, SameRow

\* The candidates are what both statements found, one of each text.
LEMMA KeywordKeeps ==
  ASSUME SInv, KeywordSearch
  PROVE  SInv'
<1>0. PICK rows \in SUBSET Passages :
        \E order \in Orders(search.vector, rows) :
          search' = [search EXCEPT !.stage = "fused", !.vector = {}, !.candidates = Fused(order)]
  BY DEF KeywordSearch
<1>1. PICK order \in Orders(search.vector, rows) :
        search' = [search EXCEPT !.stage = "fused", !.vector = {}, !.candidates = Fused(order)]
  BY <1>0
<1>2. /\ SearchOK /\ search.stage = "embedded" /\ search \in SearchRecord
      /\ UNCHANGED <<vars, index>>
  BY DEF KeywordSearch, At, SInv, SearchOK
<1>3. /\ Passages \subseteq PassageSet /\ IsFiniteSet(Passages) /\ UniqueRows(Passages)
  BY PassagesNow
<1>4. PICK F : F = Found(search.vector, rows)
  OBVIOUS
<1>5. /\ UniqueRows(F) /\ F \subseteq search.vector \union rows
      /\ search.vector # {} => F # {}
  <2>1. UniqueRows(rows)
    BY <1>3, OneTextOfSubset
  <2> QED BY <1>2, <1>4, <2>1, FoundIs DEF SearchOK
<1>6. IsFiniteSet(F) /\ F \subseteq PassageSet
  <2>1. IsFiniteSet(rows) /\ IsFiniteSet(search.vector)
    BY <1>2, <1>3, FS_Subset DEF SearchOK
  <2>2. IsFiniteSet(search.vector \union rows)
    BY <2>1, FS_Union
  <2>3. search.vector \subseteq PassageSet
    BY <1>2 DEF SearchRecord
  <2> QED BY <1>3, <1>5, <2>2, <2>3, FS_Subset
<1>7. /\ order \in Seq(PassageSet) /\ ToSet(order) \subseteq F /\ (F # {} => order # <<>>)
  <2>1. order \in SetToSeqs(F)
    BY <1>4 DEF Orders
  <2> QED BY <1>6, <2>1, SeqsAre
<1>8. PICK C : C = Fused(order) /\ C \subseteq F /\ (search.vector # {} => C # {})
  BY <1>5, <1>7, FusedIs
<1>9. /\ search' \in SearchRecord /\ search'.stage = "fused" /\ search'.vector = {}
      /\ search'.bike = search.bike /\ search'.refs = search.refs
      /\ search'.candidates = C /\ search'.items = search.items
      /\ search'.unread = search.unread /\ search'.stale = search.stale
  BY <1>1, <1>2, <1>6, <1>8 DEF SearchRecord, Stages, Answers
<1>10. Held' \subseteq Held \union Passages /\ (Held \subseteq Passages => Held' \subseteq Passages)
  BY <1>5, <1>8, <1>9 DEF Held
<1>11. IInv' /\ index' \in [Docs -> 0..(MaxChanges + 1)] /\ Passages' = Passages
  BY <1>2, <1>9, StandStill
<1>12. /\ IsFiniteSet(C) /\ UniqueRows(C) /\ IsFiniteSet({}) /\ UniqueRows({})
  BY <1>5, <1>6, <1>8, FS_Subset, FS_EmptySet, OneTextOfSubset
<1>13. OneText(Held)' /\ Stored(Held)'
  BY <1>2, <1>10, HeldKeeps
<1>14. SearchOK'
  <2>1. ~search'.stale => NothingLost'
    BY <1>2, <1>8, <1>9, <1>10, <1>11 DEF SearchOK, NothingLost
  <2>2. AnswerIsWhole'
    BY <1>9, NotReadyAfter
  <2> QED BY <1>2, <1>9, <1>12, <1>13, <2>1, <2>2 DEF SearchOK
<1> QED BY <1>11, <1>14 DEF SInv

\* What is refused here was changed.
LEMMA RevalidateKeeps ==
  ASSUME SInv, Revalidate
  PROVE  SInv'
<1>1. /\ SearchOK /\ search.stage = "fused" /\ search \in SearchRecord
      /\ UNCHANGED <<vars, index>>
  BY DEF Revalidate, At, SInv, SearchOK
<1>2. PICK C : C = Recheck(search.candidates) /\ C \subseteq search.candidates
                 /\ C \subseteq Passages
  <2>1. PICK C : C = Recheck(search.candidates)
    OBVIOUS
  <2>2. C = search.candidates \intersect Passages
    BY <2>1 DEF Recheck
  <2> QED BY <2>1, <2>2
<1>3. PICK stage \in {"sources_changed", "ranking"} :
        search' = [search EXCEPT !.stage = stage, !.candidates = C]
  BY <1>2 DEF Revalidate
<1>4. /\ search' \in SearchRecord /\ search'.stage = stage /\ search'.vector = search.vector
      /\ search'.bike = search.bike /\ search'.refs = search.refs
      /\ search'.candidates = C /\ search'.items = search.items
      /\ search'.unread = search.unread /\ search'.stale = search.stale
  BY <1>1, <1>2, <1>3 DEF SearchRecord, Stages, Answers
<1>5. Held' \subseteq Held
  BY <1>2, <1>4 DEF Held
<1>6. IInv' /\ index' \in [Docs -> 0..(MaxChanges + 1)] /\ Passages' = Passages
  BY <1>1, <1>4, StandStill
<1>7. IsFiniteSet(C) /\ UniqueRows(C)
  BY <1>1, <1>2, FS_Subset, OneTextOfSubset DEF SearchOK
<1>8. OneText(Held)' /\ Stored(Held)'
  BY <1>1, <1>5, HeldKeeps
<1>9. SearchOK'
  <2>1. ~search'.stale => NothingLost'
    BY <1>1, <1>4, <1>5, <1>6 DEF SearchOK, NothingLost
  <2>2. AnswerIsWhole'
    BY <1>4, NotReadyAfter
  <2> QED BY <1>1, <1>4, <1>7, <1>8, <2>1, <2>2 DEF SearchOK
<1> QED BY <1>6, <1>9 DEF SInv

\* A selection of the candidates is a sequence of different ones.
LEMMA SelectionIs ==
  ASSUME NEW C \in SUBSET PassageSet, IsFiniteSet(C), NEW m \in Selections(C)
  PROVE  /\ m \in Seq(PassageSet) /\ Len(m) <= MaxMatches /\ ToSet(m) \subseteq C
         /\ [i \in DOMAIN m |-> Match(m[i])] \in Seq(Item)
         /\ Len([i \in DOMAIN m |-> Match(m[i])]) = Len(m)
<1>1. PICK S \in SUBSET C : m \in SetToSeqs(S) /\ Len(m) <= MaxMatches
  BY DEF Selections, SetToAllKPermutations
<1>2. IsFiniteSet(S) /\ S \in SUBSET PassageSet
  BY <1>1, FS_Subset
<1>3. m \in Seq(PassageSet) /\ ToSet(m) \subseteq S
  BY <1>1, <1>2, SeqsAre
<1>4. \A i \in DOMAIN m : Match(m[i]) \in Item
  BY <1>3 DEF Match, Item
<1>5. DOMAIN m = 1..Len(m) /\ Len(m) \in Nat
  BY <1>3
<1> QED BY <1>1, <1>3, <1>4, <1>5

\* The matches come first, each for itself.
LEMMA RerankKeeps ==
  ASSUME SInv, Rerank
  PROVE  SInv'
<1>1. /\ SearchOK /\ search.stage = "ranking" /\ search \in SearchRecord
      /\ UNCHANGED <<vars, index>>
  BY DEF Rerank, At, SInv, SearchOK
<1>2. PICK m \in Selections(search.candidates) :
        search' = [search EXCEPT
          !.stage = IF m = <<>> THEN "no_relevant_evidence" ELSE "matched", !.candidates = {},
          !.items = [i \in DOMAIN m |-> Match(m[i])], !.unread = m]
  BY DEF Rerank
<1>3. PICK items : items = [i \in DOMAIN m |-> Match(m[i])]
  OBVIOUS
<1>4. /\ m \in Seq(PassageSet) /\ Len(m) <= MaxMatches /\ ToSet(m) \subseteq search.candidates
      /\ items \in Seq(Item) /\ Len(items) = Len(m)
  <2>1. search.candidates \in SUBSET PassageSet /\ IsFiniteSet(search.candidates)
    BY <1>1 DEF SearchOK, SearchRecord
  <2> QED BY <1>2, <1>3, <2>1, SelectionIs
<1>5. PICK stage \in {"no_relevant_evidence", "matched"} :
        /\ m = <<>> <=> stage = "no_relevant_evidence"
        /\ search' = [search EXCEPT !.stage = stage, !.candidates = {}, !.items = items,
                                    !.unread = m]
  BY <1>2, <1>3
<1>6. /\ search' \in SearchRecord /\ search'.stage = stage /\ search'.vector = search.vector
      /\ search'.bike = search.bike /\ search'.refs = search.refs
      /\ search'.candidates = {} /\ search'.items = items
      /\ search'.unread = m /\ search'.stale = search.stale
  BY <1>1, <1>4, <1>5 DEF SearchRecord, Stages, Answers
<1>7. /\ DOMAIN items = 1..Len(m) /\ DOMAIN m = 1..Len(m) /\ Len(m) \in Nat
      /\ \A i \in 1..Len(m) : /\ items[i].passage = m[i] /\ items[i].of = m[i]
                              /\ m[i] \in search.candidates
  BY <1>3, <1>4 DEF Match, ToSet
<1>8. PassagesIn(items) \subseteq search.candidates
  BY <1>7 DEF PassagesIn
<1>9. Held' \subseteq Held
  BY <1>6, <1>8 DEF Held
<1>10. IInv' /\ index' \in [Docs -> 0..(MaxChanges + 1)] /\ Passages' = Passages
  BY <1>1, <1>6, StandStill
<1>11. OneText(Held)' /\ Stored(Held)'
  BY <1>1, <1>9, HeldKeeps
<1>12. IsFiniteSet({}) /\ UniqueRows({})
  BY FS_EmptySet DEF UniqueRows
<1>13. ASSUME stage = "matched"
       PROVE  \E n \in DOMAIN items : Read(items, n) /\ ToSet(m) \subseteq Matches(items, n)
  <2>1. Len(m) \in DOMAIN items
    BY <1>4, <1>5, <1>7, <1>13
  <2>2. Matches(items, Len(m)) = ToSet(m)
    BY <1>7 DEF Matches, ToSet
  <2>3. UniqueRows(Matches(items, Len(m)))
    BY <1>1, <1>4, <2>2, OneTextOfSubset DEF SearchOK
  <2>4. OneText(PassagesIn(items))
    BY <1>1, <1>8, OneTextOfSubset DEF SearchOK, Held
  <2>5. \A i \in (Len(m) + 1)..Len(items) : FALSE
    BY <1>4, <1>7
  <2>6. Read(items, Len(m))
    BY <1>4, <1>7, <2>1, <2>3, <2>4, <2>5 DEF Read, PassagesIn
  <2> QED BY <2>1, <2>2, <2>6
<1>14. SearchOK'
  <2>1. ~search'.stale => NothingLost'
    BY <1>1, <1>5, <1>6, <1>9, <1>10 DEF SearchOK, NothingLost
  <2>2. AnswerIsWhole'
    BY <1>5, <1>6, NotReadyAfter
  <2> QED BY <1>1, <1>4, <1>5, <1>6, <1>11, <1>12, <1>13, <2>1, <2>2 DEF SearchOK
<1> QED BY <1>10, <1>14 DEF SInv

\* Neighbours are read after the matches, each for one of them.
ReadFor(more, items, p, q) ==
  /\ more \in Seq(Item) /\ Len(more) = Len(items) + Len(q)
  /\ \A i \in 1..Len(items) : more[i] = items[i]
  /\ \A i \in 1..Len(q) : more[Len(items) + i] = Neighbour(p, q[i])

LEMMA ReadOn ==
  ASSUME NEW items, NEW n, Read(items, n), NEW p, p \in Matches(items, n),
         NEW q, q \in Seq(PassageSet), OneText(PassagesIn(items) \union ToSet(q)),
         NEW more, ReadFor(more, items, p, q)
  PROVE  /\ Read(more, n) /\ Matches(more, n) = Matches(items, n) /\ n \in DOMAIN more
         /\ PassagesIn(more) \subseteq PassagesIn(items) \union ToSet(q)
<1>1. /\ items \in Seq(Item) /\ n \in 1..Len(items) /\ n \in Nat /\ Len(items) \in Nat
      /\ Len(q) \in Nat /\ DOMAIN q = 1..Len(q) /\ DOMAIN items = 1..Len(items)
  BY DEF Read
<1>2. \A i \in 1..Len(q) : q[i] \in ToSet(q)
  BY <1>1 DEF ToSet
<1>3. /\ more \in Seq(Item) /\ Len(more) = Len(items) + Len(q) /\ DOMAIN more = 1..Len(more)
      /\ \A i \in 1..Len(items) : more[i] = items[i]
      /\ \A i \in 1..Len(q) : more[Len(items) + i] = Neighbour(p, q[i])
  BY <1>1 DEF ReadFor
<1>4. ASSUME NEW i \in (Len(items) + 1)..Len(more)
      PROVE  more[i].passage \in ToSet(q) /\ more[i].of = p
  <2>1. PICK k \in 1..Len(q) : i = Len(items) + k
    <3>1. i - Len(items) \in 1..Len(q) /\ i = Len(items) + (i - Len(items))
      BY <1>1, <1>3
    <3> QED BY <3>1
  <2>2. more[i] = [passage |-> q[k], of |-> p]
    BY <1>3, <2>1 DEF Neighbour
  <2> QED BY <1>2, <2>2
<1>6. Matches(more, n) = Matches(items, n)
  <2>1. \A i \in 1..n : more[i] = items[i]
    BY <1>1, <1>3
  <2> QED BY <2>1 DEF Matches
<1>7. PassagesIn(more) \subseteq PassagesIn(items) \union ToSet(q)
  <2> SUFFICES ASSUME NEW i \in 1..Len(more)
               PROVE  more[i].passage \in PassagesIn(items) \union ToSet(q)
    BY <1>3 DEF PassagesIn
  <2>1. CASE i <= Len(items)
    <3>1. i \in DOMAIN items /\ more[i] = items[i]
      BY <1>1, <1>3, <2>1
    <3> QED BY <3>1 DEF PassagesIn
  <2>2. CASE i > Len(items)
    <3>1. i \in (Len(items) + 1)..Len(more)
      BY <1>1, <1>3, <2>2
    <3> QED BY <1>4, <3>1
  <2> QED BY <1>1, <2>1, <2>2
<1>8. Read(more, n)
  <2>1. n \in 1..Len(more)
    BY <1>1, <1>3
  <2>2. \A i \in 1..n : more[i].of = more[i].passage
    BY <1>1, <1>3 DEF Read
  <2>3. ASSUME NEW i \in (n + 1)..Len(more) PROVE more[i].of \in Matches(items, n)
    <3>1. CASE i <= Len(items)
      <4>1. i \in (n + 1)..Len(items) /\ i \in 1..Len(items)
        BY <1>1, <3>1
      <4> QED BY <1>3, <4>1 DEF Read
    <3>2. CASE i > Len(items)
      <4>1. i \in (Len(items) + 1)..Len(more)
        BY <1>1, <1>3, <3>2
      <4> QED BY <1>4, <4>1
    <3> QED BY <1>1, <3>1, <3>2
  <2>4. OneText(PassagesIn(more))
    BY <1>7, OneTextOfSubset
  <2> QED BY <1>3, <1>6, <2>1, <2>2, <2>3, <2>4 DEF Read, PassagesIn
<1> QED BY <1>1, <1>3, <1>6, <1>7, <1>8

LEMMA ItemsJoined ==
  ASSUME NEW a \in Seq(Item), NEW b \in Seq(Item), NEW c, c = a \o b
  PROVE  /\ c \in Seq(Item) /\ Len(c) = Len(a) + Len(b)
         /\ \A i \in 1..Len(a) : c[i] = a[i]
         /\ \A i \in 1..Len(b) : c[Len(a) + i] = b[i]
OBVIOUS

\* A match is read on, the next ones are still to come.
LEMMA NeighboursKeep ==
  ASSUME SInv, ReadNeighbours
  PROVE  SInv'
<1>1. /\ SearchOK /\ search.stage = "matched" /\ search \in SearchRecord
      /\ search.unread # <<>> /\ UNCHANGED <<vars, index>>
  BY DEF ReadNeighbours, At, SInv, SearchOK
<1>2. \E useful \in SUBSET Adjacent(Head(search.unread)) :
        \E read \in SetToSeqs(useful) :
          search' = [search EXCEPT
              !.items = @ \o [i \in DOMAIN read |-> Neighbour(Head(search.unread), read[i])],
              !.unread = Tail(@)]
  BY Zenon DEF ReadNeighbours
<1> DEFINE p == Head(search.unread)
<1>3. PICK useful \in SUBSET Adjacent(p) :
        \E read \in SetToSeqs(useful) :
          search' = [search EXCEPT
              !.items = @ \o [i \in DOMAIN read |-> Neighbour(p, read[i])],
              !.unread = Tail(@)]
  BY <1>2, Zenon
<1>4. PICK read \in SetToSeqs(useful) :
          search' = [search EXCEPT
              !.items = @ \o [i \in DOMAIN read |-> Neighbour(p, read[i])],
              !.unread = Tail(@)]
  BY <1>3
<1>5. PICK r, items, unread :
        /\ r = [i \in DOMAIN read |-> Neighbour(p, read[i])]
        /\ items = search.items \o r /\ unread = Tail(search.unread)
  OBVIOUS
<1>6. read \in Seq(PassageSet) /\ ToSet(read) \subseteq Passages
  <2>1. useful \subseteq Passages
    BY <1>3 DEF Adjacent
  <2>2. Passages \subseteq PassageSet /\ IsFiniteSet(Passages)
    BY PassagesNow
  <2>3. IsFiniteSet(useful) /\ useful \in SUBSET PassageSet
    BY <2>1, <2>2, FS_Subset
  <2> QED BY <2>1, <2>3, <1>4, SeqsAre
<1>7. PICK n \in DOMAIN search.items :
        Read(search.items, n) /\ ToSet(search.unread) \subseteq Matches(search.items, n)
  BY <1>1 DEF SearchOK
<1>8. /\ search.unread \in Seq(PassageSet) /\ unread \in Seq(PassageSet)
      /\ p \in ToSet(search.unread) /\ ToSet(unread) \subseteq ToSet(search.unread)
      /\ Len(unread) <= MaxMatches
  <2>1. search.unread \in Seq(PassageSet) /\ Len(search.unread) <= MaxMatches
    BY <1>1 DEF SearchRecord, SearchOK
  <2>2. p \in ToSet(search.unread) /\ ToSet(unread) \subseteq ToSet(search.unread)
    BY <1>1, <1>5, <2>1 DEF ToSet
  <2> QED BY <1>1, <1>5, <2>1, <2>2, SearchLimits
<1>9. OneText(PassagesIn(search.items) \union ToSet(read))
  <2>1. OneText(Held \union Passages)
    BY <1>1, PassagesNow DEF SearchOK
  <2>2. PassagesIn(search.items) \union ToSet(read) \subseteq Held \union Passages
    BY <1>6 DEF Held
  <2> QED BY <2>1, <2>2, OneTextOfSubset
<1>10. /\ Read(items, n) /\ Matches(items, n) = Matches(search.items, n) /\ n \in DOMAIN items
       /\ PassagesIn(items) \subseteq PassagesIn(search.items) \union ToSet(read)
  <2>1. p \in Matches(search.items, n) /\ p \in PassageSet
    <3> HIDE DEF p
    <3>1. p \in PassageSet
      BY <1>8 DEF ToSet
    <3> QED BY <1>7, <1>8, <3>1
  <2> HIDE DEF p
  <2>2. \A i \in DOMAIN read : Neighbour(p, read[i]) \in Item
    BY <1>6, <2>1 DEF Neighbour, Item
  <2>3. Len(read) \in Nat /\ DOMAIN read = 1..Len(read)
    BY <1>6
  <2>4. \A i \in DOMAIN read : r[i] = Neighbour(p, read[i])
    BY <1>5
  <2>5. r \in [1..Len(read) -> Item]
    BY <1>5, <2>2, <2>3
  <2>6. r \in Seq(Item) /\ Len(r) = Len(read)
    BY <2>3, <2>5
  <2>7. items = search.items \o r /\ read \in Seq(PassageSet)
    BY <1>5, <1>6
  <2>8. Read(search.items, n)
    BY <1>7
  <2>9. ReadFor(items, search.items, p, read)
    <3>1. search.items \in Seq(Item) /\ r \in Seq(Item)
      BY <2>6, <2>8 DEF Read
    <3>2. PICK a \in Seq(Item), b \in Seq(Item) : a = search.items /\ b = r
      BY <3>1
    <3>3. items = a \o b
      BY <2>7, <3>2, Zenon
    <3>4. /\ items \in Seq(Item) /\ Len(items) = Len(a) + Len(b)
          /\ \A i \in 1..Len(a) : items[i] = a[i]
          /\ \A i \in 1..Len(b) : items[Len(a) + i] = b[i]
      BY <3>3, ItemsJoined
    <3>5. /\ items \in Seq(Item) /\ Len(items) = Len(search.items) + Len(r)
          /\ \A i \in 1..Len(search.items) : items[i] = search.items[i]
          /\ \A i \in 1..Len(r) : items[Len(search.items) + i] = r[i]
      BY <3>2, <3>4, Zenon
    <3> QED BY <2>3, <2>4, <2>6, <3>5 DEF ReadFor
  <2> QED BY <1>6, <1>9, <2>1, <2>8, <2>9, ReadOn
<1>11. /\ search' \in SearchRecord /\ search'.stage = "matched" /\ search'.vector = search.vector
       /\ search'.bike = search.bike /\ search'.refs = search.refs
       /\ search'.candidates = search.candidates /\ search'.items = items
       /\ search'.unread = unread /\ search'.stale = search.stale
  <2>1. search' = [search EXCEPT !.items = items, !.unread = unread]
    BY <1>4, <1>5
  <2>2. items \in Seq(Item)
    BY <1>10 DEF Read
  <2> QED BY <1>1, <1>8, <2>1, <2>2 DEF SearchRecord
<1>12. /\ Held' \subseteq Held \union Passages
       /\ Held \subseteq Passages => Held' \subseteq Passages
  BY <1>6, <1>10, <1>11 DEF Held
<1>13. IInv' /\ index' \in [Docs -> 0..(MaxChanges + 1)] /\ Passages' = Passages
  BY <1>1, <1>11, StandStill
<1>14. OneText(Held)' /\ Stored(Held)'
  BY <1>1, <1>12, HeldKeeps
<1>15. SearchOK'
  <2>1. ~search'.stale => NothingLost'
    BY <1>1, <1>11, <1>12, <1>13 DEF SearchOK, NothingLost
  <2>2. AnswerIsWhole'
    BY <1>11, NotReadyAfter
  <2>3. ToSet(unread) \subseteq Matches(items, n)
    BY <1>7, <1>8, <1>10
  <2> QED BY <1>1, <1>8, <1>10, <1>11, <1>14, <2>1, <2>2, <2>3 DEF SearchOK
<1> QED BY <1>13, <1>15 DEF SInv

-----------------------------------------------------------------------------
(* The answer *)

\* The passages of an answer are as many as its items, because no two of them overlap;
\* those that are still there are all of them, or fewer.
LEMMA AllCurrent ==
  ASSUME NEW r \in Seq(Item), NEW C, C \subseteq {item.passage : item \in ToSet(r)}
  PROVE  /\ Cardinality(C) = Len(r) => C = {item.passage : item \in ToSet(r)}
         /\ (\A j, k \in DOMAIN r : j # k => ~Overlaps(r[j].passage, r[k].passage)) =>
              Cardinality({item.passage : item \in ToSet(r)}) = Len(r)
<1>1. PICK P : P = {item.passage : item \in ToSet(r)}
  OBVIOUS
<1>2. PICK n \in Nat : n = Len(r) /\ DOMAIN r = 1..n
  OBVIOUS
<1>3. IsFiniteSet(1..n) /\ Cardinality(1..n) = n
  BY FS_Interval
<1>4. PICK f : f = [i \in 1..n |-> r[i].passage]
  OBVIOUS
<1>5. f \in Surjection(1..n, P)
  BY <1>1, <1>2, <1>4 DEF Surjection, ToSet
<1>6. IsFiniteSet(P) /\ Cardinality(P) <= n /\ (Cardinality(P) = n <=> f \in Injection(1..n, P))
  BY <1>3, <1>5, FS_Surjection
<1>7. ASSUME Cardinality(C) = n PROVE C = P
  <2>1. /\ IsFiniteSet(C) /\ Cardinality(C) <= Cardinality(P)
        /\ Cardinality(P) = Cardinality(C) => P = C
    BY <1>1, <1>6, FS_Subset
  <2>2. Cardinality(P) \in Nat
    BY <1>6, FS_CardinalityType
  <2> QED BY <1>6, <1>7, <2>1, <2>2
<1>8. ASSUME \A j, k \in DOMAIN r : j # k => ~Overlaps(r[j].passage, r[k].passage)
      PROVE  Cardinality(P) = n
  <2>1. \A j, k \in 1..n : f[j] = f[k] => j = k
    BY <1>2, <1>4, <1>8, OverlapsItself
  <2>2. f \in Injection(1..n, P)
    BY <1>5, <2>1 DEF Injection, IsInjective, Surjection
  <2> QED BY <1>6, <2>2
<1> QED BY <1>1, <1>2, <1>7, <1>8

\* An answer within the budget is whole, and as many passages as it has are current or
\* it is refused.
LEMMA AnswerKeeps ==
  ASSUME SInv, Answer
  PROVE  /\ SInv'
         /\ Becomes("ready") => \A item \in ToSet(search'.items) : item.passage \in Passages
         /\ Becomes("sources_changed") => search.stale
<1>1. /\ SearchOK /\ search.stage = "matched" /\ search \in SearchRecord
      /\ search.unread = <<>> /\ UNCHANGED <<vars, index>>
  BY DEF Answer, At, SInv, SearchOK
<1>2. PICK n \in DOMAIN search.items : Read(search.items, n)
  BY <1>1 DEF SearchOK
<1>3. PICK selected, S, C : /\ selected = WithinBudget(search.items)
                            /\ S = {item.passage : item \in ToSet(selected)} /\ C = Recheck(S)
  OBVIOUS
<1>4. search' = [search EXCEPT
          !.stage = IF Cardinality(C) # Len(selected) THEN "sources_changed" ELSE "ready",
          !.items = IF Cardinality(C) # Len(selected) THEN <<>> ELSE selected]
  BY <1>3 DEF Answer
<1>20. PICK items : items = IF Cardinality(C) # Len(selected) THEN <<>> ELSE selected
  OBVIOUS
<1>5. PICK stage \in {"sources_changed", "ready"} :
        /\ search' = [search EXCEPT !.stage = stage, !.items = items]
        /\ stage = "ready" => Cardinality(C) = Len(selected) /\ items = selected
        /\ stage = "sources_changed" => Cardinality(C) # Len(selected) /\ items = <<>>
  BY <1>4, <1>20
<1>6. Within(selected, search.items, n, Len(search.items))
  BY <1>2, <1>3, BudgetIsWhole
<1>7. /\ selected \in Seq(Item) /\ ToSet(selected) \subseteq ToSet(search.items)
      /\ selected # <<>> /\ Len(selected) <= MaxPassages /\ Chars(selected) <= Capacity
      /\ \A j, k \in DOMAIN selected : j # k => ~Overlaps(selected[j].passage, selected[k].passage)
      /\ \A item \in ToSet(selected) : \E other \in ToSet(selected) : other.passage = item.of
  <2>1. Len(search.items) > 0
    BY <1>2 DEF Read
  <2> QED BY <1>6, <2>1 DEF Within
<1>8. /\ C \subseteq S /\ C \subseteq Passages /\ (S \subseteq Passages => C = S)
      /\ Cardinality(C) = Len(selected) => C = S
      /\ Cardinality(S) = Len(selected)
  <2>1. C = S \intersect Passages
    BY <1>3 DEF Recheck
  <2>2. C \subseteq S
    BY <2>1
  <2> QED BY <1>3, <1>7, <2>1, <2>2, AllCurrent
<1>9. S \subseteq PassagesIn(search.items)
  <2>1. \A item \in ToSet(search.items) : item.passage \in PassagesIn(search.items)
    BY DEF PassagesIn, ToSet
  <2> QED BY <1>3, <1>7, <2>1
<1>10. /\ search' \in SearchRecord /\ search'.stage = stage /\ search'.vector = search.vector
       /\ search'.bike = search.bike /\ search'.refs = search.refs
       /\ search'.candidates = search.candidates /\ search'.items = items
       /\ search'.unread = search.unread /\ search'.stale = search.stale
  <2>1. items \in Seq(Item)
    <3>1. CASE items = selected
      BY <1>7, <3>1
    <3>2. CASE items = <<>>
      BY <3>2
    <3> QED BY <1>5, <3>1, <3>2
  <2> QED BY <1>1, <1>5, <2>1 DEF SearchRecord, Stages, Answers
<1>11. Held' \subseteq Held
  <2>1. PassagesIn(items) \subseteq PassagesIn(search.items)
    <3>1. CASE items = <<>>
      BY <3>1 DEF PassagesIn
    <3>2. CASE items = selected
      <4>1. PassagesIn(selected) = S
        BY <1>3 DEF PassagesIn, ToSet
      <4> QED BY <1>9, <3>2, <4>1
    <3> QED BY <1>5, <3>1, <3>2
  <2> QED BY <1>10, <2>1 DEF Held
<1>12. IInv' /\ index' \in [Docs -> 0..(MaxChanges + 1)] /\ Passages' = Passages
  BY <1>1, <1>10, StandStill
<1>13. OneText(Held)' /\ Stored(Held)'
  BY <1>1, <1>11, HeldKeeps
<1>14. AnswerIsWhole'
  <2>1. CASE stage = "ready"
    BY <1>5, <1>7, <1>10, <2>1 DEF AnswerIsWhole
  <2>2. CASE stage # "ready"
    BY <1>10, <2>2, NotReadyAfter
  <2> QED BY <2>1, <2>2
<1>15. SearchOK'
  <2>1. ~search'.stale => NothingLost'
    BY <1>1, <1>5, <1>10, <1>11, <1>12 DEF SearchOK, NothingLost
  <2> QED BY <1>1, <1>5, <1>10, <1>13, <1>14, <2>1 DEF SearchOK
<1>16. Becomes("ready") => \A item \in ToSet(search'.items) : item.passage \in Passages
  <2> SUFFICES ASSUME stage = "ready", NEW item \in ToSet(selected)
               PROVE  item.passage \in Passages
    BY <1>5, <1>10 DEF Becomes
  <2>1. item.passage \in S /\ C = S
    BY <1>3, <1>5, <1>8
  <2> QED BY <1>8, <2>1
<1>17. Becomes("sources_changed") => search.stale
  <2> SUFFICES ASSUME stage = "sources_changed", ~search.stale
               PROVE  FALSE
    BY <1>5, <1>10 DEF Becomes
  <2>1. PassagesIn(search.items) \subseteq Passages
    BY <1>1 DEF SearchOK, NothingLost, Held
  <2> QED BY <1>5, <1>8, <1>9, <2>1
<1> QED BY <1>12, <1>15, <1>16, <1>17 DEF SInv

-----------------------------------------------------------------------------
(* The beginning and the end of a search, and what happens meanwhile *)

\* A search begins with nothing, and with something to be found.
LEMMA BeginKeeps ==
  ASSUME SInv, NEW b \in Bikes, NEW refs \in BOOLEAN, Begin(b, refs)
  PROVE  SInv'
<1>1. /\ UNCHANGED vars /\ PassagesOf(b, refs)' # {}
      /\ search' = [stage |-> "embedding", bike |-> b, refs |-> refs, vector |-> {},
                    candidates |-> {}, items |-> <<>>, unread |-> <<>>, changes |-> 0,
                    stale |-> FALSE]
  BY DEF Begin
<1>2. PICK indexed : index' = [d \in Docs |-> IF d \in indexed THEN 1 ELSE 0]
  BY DEF Begin
<1>3. index' \in [Docs -> 0..(MaxChanges + 1)]
  <2>1. 0 \in 0..(MaxChanges + 1) /\ 1 \in 0..(MaxChanges + 1)
    BY SearchLimits
  <2> QED BY <1>2, <2>1
<1>4. IInv'
  BY <1>1, IInvKept DEF SInv
<1>5. /\ search' \in SearchRecord /\ search'.stage = "embedding" /\ search'.vector = {}
      /\ search'.bike = b /\ search'.refs = refs /\ search'.candidates = {}
      /\ search'.items = <<>> /\ search'.unread = <<>> /\ search'.stale = FALSE
  BY <1>1, SearchLimits DEF SearchRecord, Stages, Answers
<1>6. Held' = {}
  BY <1>5 DEF Held, PassagesIn
<1>7. Passages' # {}
  BY <1>1, <1>5 DEF Passages, PassagesOf, Passage, Eligible, Rows
<1>8. SearchOK'
  <2>1. NothingLost'
    BY <1>5, <1>6, <1>7 DEF NothingLost
  <2>2. AnswerIsWhole'
    BY <1>5, NotReadyAfter
  <2>3. OneText(Held)' /\ Stored(Held)'
    BY <1>6 DEF OneText, Stored
  <2>4. IsFiniteSet({}) /\ UniqueRows({}) /\ Len(<<>>) <= MaxMatches
    BY FS_EmptySet, SearchLimits DEF UniqueRows
  <2> QED BY <1>5, <2>1, <2>2, <2>3, <2>4 DEF SearchOK
<1> QED BY <1>3, <1>4, <1>8 DEF SInv

LEMMA EndKeeps ==
  ASSUME SInv, search' = NoSearch, index' = NoIndex, UNCHANGED vars
  PROVE  SInv'
<1>1. index' \in [Docs -> 0..(MaxChanges + 1)]
  BY SearchLimits DEF NoIndex
<1>2. IInv'
  BY IInvKept DEF SInv
<1> QED BY <1>1, <1>2 DEF SInv, Searching

\* A change during a search keeps what is held, or is noted as one that takes away.
LEMMA MeanwhileKeeps ==
  ASSUME SInv, Running, search.changes < MaxChanges, [Next]_vars,
         index' \in [Docs -> 0..(MaxChanges + 1)],
         NEW b, b = search.bike, NEW refs, refs = search.refs, NEW before, before = Passages,
         search' = [search EXCEPT !.changes = @ + 1,
                      !.stale = @ \/ ~(before \subseteq PassagesOf(b, refs)')]
  PROVE  SInv' /\ search'.stage = search.stage
<1>1. /\ SearchOK /\ search \in SearchRecord /\ search.stage \notin Answers
  BY DEF Running, SInv, SearchOK
<1>2. PICK stale \in BOOLEAN :
        /\ stale <=> search.stale \/ ~(before \subseteq PassagesOf(b, refs)')
        /\ search' = [search EXCEPT !.changes = @ + 1, !.stale = stale]
  BY <1>1 DEF SearchRecord
<1>3. /\ search' \in SearchRecord /\ search'.stage = search.stage /\ search'.vector = search.vector
      /\ search'.bike = search.bike /\ search'.refs = search.refs
      /\ search'.candidates = search.candidates /\ search'.items = search.items
      /\ search'.unread = search.unread /\ search'.stale = stale
  <2>1. PICK k \in 0..MaxChanges : k = search.changes + 1
    <3>1. search.changes \in 0..MaxChanges /\ MaxChanges \in Nat
      BY <1>1, SearchLimits DEF SearchRecord
    <3> QED BY <3>1
  <2>2. search' = [search EXCEPT !.changes = k, !.stale = stale]
    BY <1>2, <2>1
  <2> QED BY <1>1, <2>2 DEF SearchRecord
<1>4. Held' = Held
  BY <1>3 DEF Held
<1>5. PassagesOf(b, refs)' = Passages'
  <2>1. search'.bike = b /\ search'.refs = refs
    BY <1>3
  <2>2. \A d \in Docs : Eligible(d, b, refs)' <=> Eligible(d, search.bike, search.refs)'
    BY <2>1 DEF Eligible, Rows
  <2>3. PICK E : E = {d \in Docs : Eligible(d, b, refs)'}
    OBVIOUS
  <2>4. E = {d \in Docs : Eligible(d, search.bike, search.refs)'}
    BY <2>2, <2>3
  <2> QED BY <2>3, <2>4 DEF Passages, PassagesOf
<1>6. IInv'
  BY IInvKept DEF SInv
<1>7. OneText(Held)' /\ Stored(Held)'
  <2>1. Held \subseteq PassageSet
    <3>1. /\ search.vector \subseteq PassageSet /\ search.candidates \subseteq PassageSet
          /\ search.items \in Seq(Item)
      BY <1>1 DEF SearchRecord
    <3>2. \A i \in DOMAIN search.items : search.items[i] \in Item
      BY <3>1
    <3>3. PassagesIn(search.items) \subseteq PassageSet
      BY <3>2 DEF PassagesIn, Item
    <3> QED BY <3>1, <3>3 DEF Held
  <2>2. PICK H \in SUBSET PassageSet : H = Held
    BY <2>1
  <2>3. Stored(H)' /\ OneText(H)
    BY <1>1, <2>2, StoredKept DEF SInv, SearchOK
  <2> QED BY <1>4, <2>2, <2>3 DEF Stored, OneText
<1>8. SearchOK'
  <2>1. ~search'.stale => NothingLost'
    <3> SUFFICES ASSUME ~stale PROVE NothingLost'
      BY <1>3
    <3>1. Passages \subseteq Passages' /\ NothingLost
      BY <1>1, <1>2, <1>5 DEF SearchOK
    <3> QED BY <1>3, <1>4, <3>1 DEF NothingLost
  <2>2. AnswerIsWhole'
    BY <1>1, <1>3, NotReadyAfter DEF Answers
  <2> QED BY <1>1, <1>3, <1>7, <2>1, <2>2 DEF SearchOK
<1> QED BY <1>3, <1>6, <1>8 DEF SInv

LEMMA DuringKeeps ==
  ASSUME SInv, \/ During(Next /\ UNCHANGED index)
               \/ During(UNCHANGED vars /\ \E d \in Docs : Unindex(d) \/ Reindex(d))
  PROVE  SInv' /\ search'.stage = search.stage
<1>1. index \in [Docs -> 0..(MaxChanges + 1)] /\ MaxChanges \in Nat
  BY SearchLimits DEF SInv
<1>2. /\ Running /\ search.changes < MaxChanges /\ search \in SearchRecord
      /\ \E b \in {search.bike}, refs \in {search.refs}, before \in {Passages} :
           search' = [search EXCEPT !.changes = @ + 1,
                        !.stale = @ \/ ~(before \subseteq PassagesOf(b, refs)')]
  BY DEF During, Running, SInv, SearchOK
<1>3. [Next]_vars /\ index' \in [Docs -> 0..(MaxChanges + 1)]
  <2>1. CASE During(Next /\ UNCHANGED index)
    BY <1>1, <2>1 DEF During
  <2>2. CASE During(UNCHANGED vars /\ \E d \in Docs : Unindex(d) \/ Reindex(d))
    <3>1. PICK d \in Docs : UNCHANGED vars /\ (Unindex(d) \/ Reindex(d))
      BY <2>2 DEF During
    <3>2. search.changes \in 0..MaxChanges
      BY <1>2 DEF SearchRecord
    <3>3. PICK x \in 0..(MaxChanges + 1) : index' = [index EXCEPT ![d] = x]
      BY <1>1, <1>2, <3>1, <3>2 DEF Unindex, Reindex
    <3> QED BY <1>1, <3>1, <3>3
  <2> QED BY <2>1, <2>2
<1> QED BY <1>2, <1>3, MeanwhileKeeps

LEMMA OutsideKeeps ==
  ASSUME SInv, ~Searching, [Next]_vars, UNCHANGED <<index, search>>
  PROVE  SInv'
<1>1. IInv'
  BY IInvKept DEF SInv
<1> QED BY <1>1 DEF SInv, Searching

-----------------------------------------------------------------------------
(* Theorems about the search *)

LEMMA SInvInit == SearchInit => SInv
<1> SUFFICES ASSUME SearchInit PROVE SInv
  OBVIOUS
<1>1. index \in [Docs -> 0..(MaxChanges + 1)]
  BY SearchLimits DEF SearchInit, NoIndex
<1>2. QED
  BY <1>1, IInvInit DEF SearchInit, SInv, Searching

LEMMA SInvKept ==
  ASSUME SInv, [SearchNext]_searchVars
  PROVE  SInv'
<1>1. CASE ~Searching /\ Next /\ UNCHANGED <<index, search>>
  BY <1>1, OutsideKeeps
<1>2. CASE \/ During(Next /\ UNCHANGED index)
           \/ During(UNCHANGED vars /\ \E d \in Docs : Unindex(d) \/ Reindex(d))
  BY <1>2, DuringKeeps
<1>3. ASSUME NEW b \in Bikes, NEW refs \in BOOLEAN, Begin(b, refs) PROVE SInv'
  BY <1>3, BeginKeeps
<1>4. CASE SearchStep
  <2>1. ASSUME ProviderFails \/ Respond PROVE SInv'
    BY <2>1, EndKeeps DEF ProviderFails, Respond
  <2> QED BY <1>4, <2>1, VectorKeeps, KeywordKeeps, RevalidateKeeps, RerankKeeps,
             NeighboursKeep, AnswerKeeps DEF SearchStep
<1>5. CASE UNCHANGED searchVars
  <2>1. UNCHANGED <<vars, index, search>>
    BY <1>5 DEF searchVars
  <2>2. CASE Searching
    <3>1. IInv' /\ Passages' = Passages /\ \A S : Stored(S) => Stored(S)'
      BY <2>1, StandStill
    <3>2. SearchOK'
      <4>1. SearchOK /\ Held' = Held
        BY <2>1, <2>2 DEF SInv, Held
      <4>2. OneText(Held)' /\ Stored(Held)'
        BY <2>1, <4>1, HeldKeeps
      <4> QED BY <2>1, <3>1, <4>1, <4>2 DEF SearchOK, NothingLost, AnswerIsWhole, At, Searching
    <3> QED BY <2>1, <3>1, <3>2 DEF SInv
  <2>3. CASE ~Searching
    BY <2>1, <2>3, OutsideKeeps
  <2> QED BY <2>2, <2>3
<1> QED BY <1>1, <1>2, <1>3, <1>4, <1>5 DEF SearchNext

\* The invariant of the search is one.
THEOREM SearchHolds == SearchSpec => []SInv
<1>1. SearchInit => SInv
  BY SInvInit
<1>2. SInv /\ [SearchNext]_searchVars => SInv'
  BY SInvKept
<1>3. QED BY <1>1, <1>2, PTL DEF SearchSpec

\* In every state of the documents and of a search in them: the constraints hold, an
\* answer that is given is whole, and no passage in it repeats another.
THEOREM AnswersHold == SearchSpec => []SearchInv
<1>1. SInv => SearchInv
  <2> SUFFICES ASSUME SInv PROVE SearchInv
    OBVIOUS
  <2>1. Inv /\ PassedDraftsStayArchived
    BY DEF SInv, IInv
  <2>2. AnswerIsWhole
    BY DEF SInv, SearchOK, AnswerIsWhole, At
  <2>3. SearchTypeOK
    <3>1. ASSUME Searching
          PROVE  \A p \in search.vector \union search.candidates :
                   p.doc \in Docs /\ p.chunk \in Chunks
      BY <3>1 DEF SInv, SearchOK, SearchRecord, PassageSet
    <3> QED BY <3>1 DEF SInv, SearchOK, SearchRecord, SearchTypeOK
  <2> QED BY <2>1, <2>2, <2>3 DEF SearchInv
<1>2. QED BY <1>1, SearchHolds, PTL

\* Only the last check gives an answer, and only the two checks refuse one.
LEMMA AnswersAreTrue ==
  ASSUME SInv, [SearchNext]_searchVars
  PROVE  /\ Becomes("ready") => \A item \in ToSet(search'.items) : item.passage \in Passages
         /\ Becomes("sources_changed") => search.stale
<1>1. CASE Answer
  BY <1>1, AnswerKeeps
<1>2. CASE Revalidate
  <2>1. /\ SearchOK /\ search.stage = "fused" /\ search \in SearchRecord
    BY <1>2 DEF Revalidate, At, SInv, SearchOK
  <2>2. search'.stage = IF Recheck(search.candidates) = {} THEN "sources_changed" ELSE "ranking"
    BY <1>2, <2>1 DEF Revalidate, SearchRecord
  <2>3. ~search.stale => Recheck(search.candidates) # {}
    BY <2>1 DEF SearchOK, NothingLost, Held, Recheck
  <2> QED BY <2>2, <2>3 DEF Becomes
<1>3. ASSUME search' = NoSearch \/ ~Searching
      PROVE  ~Becomes("ready") /\ ~Becomes("sources_changed")
  BY <1>3 DEF Becomes
<1>4. ASSUME search'.stage = search.stage \/ search'.stage \notin {"ready", "sources_changed"}
      PROVE  ~Becomes("ready") /\ ~Becomes("sources_changed")
  BY <1>4 DEF Becomes, At
<1>5. CASE \/ During(Next /\ UNCHANGED index)
           \/ During(UNCHANGED vars /\ \E d \in Docs : Unindex(d) \/ Reindex(d))
  BY <1>4, <1>5, DuringKeeps
<1>6. CASE VectorSearch \/ KeywordSearch \/ Rerank \/ ReadNeighbours
  <2>1. search \in SearchRecord
    BY <1>6 DEF SInv, SearchOK, VectorSearch, KeywordSearch, Rerank, ReadNeighbours, At
  <2>2. CASE VectorSearch
    BY <1>4, <2>1, <2>2 DEF VectorSearch, SearchRecord
  <2>3. CASE KeywordSearch
    BY <1>4, <2>1, <2>3 DEF KeywordSearch, SearchRecord
  <2>4. CASE Rerank
    BY <1>4, <2>1, <2>4 DEF Rerank, SearchRecord
  <2>5. CASE ReadNeighbours
    BY <1>4, <2>1, <2>5 DEF ReadNeighbours, SearchRecord
  <2> QED BY <1>6, <2>2, <2>3, <2>4, <2>5
<1>7. CASE ProviderFails \/ Respond
  BY <1>3, <1>7 DEF ProviderFails, Respond
<1>8. CASE \/ ~Searching /\ Next /\ UNCHANGED <<index, search>>
           \/ \E b \in Bikes, refs \in BOOLEAN : Begin(b, refs)
  BY <1>3, <1>8 DEF Begin
<1>9. CASE UNCHANGED searchVars
  BY <1>4, <1>9 DEF searchVars
<1> QED BY <1>1, <1>2, <1>5, <1>6, <1>7, <1>8, <1>9 DEF SearchNext, SearchStep

\* Every passage of an answer is there, as it was read, when the answer is given, for
\* any changes between the statements of the search.
THEOREM AnswersAreCurrent == SearchSpec => ReadyIsCurrent
<1> DEFINE A == Becomes("ready") => \A item \in ToSet(search'.items) : item.passage \in Passages
<1>1. SInv /\ [SearchNext]_searchVars => [A]_searchVars
  BY AnswersAreTrue
<1>2. QED BY <1>1, SearchHolds, PTL DEF SearchSpec, ReadyIsCurrent

\* An answer is refused for changed sources only if something that could be found was
\* changed or taken away since the search began.
THEOREM RefusalsHold == SearchSpec => RefusalsAreTrue
<1> DEFINE A == Becomes("sources_changed") => search.stale
<1>1. SInv /\ [SearchNext]_searchVars => [A]_searchVars
  BY AnswersAreTrue
<1>2. QED BY <1>1, SearchHolds, PTL DEF SearchSpec, RefusalsAreTrue

-----------------------------------------------------------------------------
(* Chunking: places in a list, in order *)

\* Ascending lists the members once, in order.
AscendingOf(q, S) ==
  /\ q \in Seq(S) /\ ToSet(q) = S /\ Len(q) = Cardinality(S)
  /\ \A i, j \in 1..Len(q) : i < j => q[i] < q[j]

LEMMA AscendingIs ==
  ASSUME NEW S \in SUBSET Nat, IsFiniteSet(S)
  PROVE  AscendingOf(Ascending(S), S)
<1>1. PICK n : n = Cardinality(S) /\ n \in Nat
  BY FS_CardinalityType
<1>2. PICK R : R = {x \in S \X S : x[1] < x[2]}
  OBVIOUS
<1>3. StrictOrder(R, S)
  <2>1. \A x, y \in S : <<x, y>> \in R <=> x < y
    BY <1>2
  <2>2. \A x \in S : <<x, x>> \notin R
    BY <2>1
  <2>3. \A x, y \in S : x # y => <<x, y>> \in R \/ <<y, x>> \in R
    BY <2>1
  <2>4. \A x, y, z \in S : <<x, y>> \in R /\ <<y, z>> \in R => <<x, z>> \in R
    BY <2>1
  <2> QED BY <2>2, <2>3, <2>4 DEF StrictOrder
<1>4. PICK p : Arranges(p, n, S, R)
  BY <1>1, <1>3, ArrangementExists
<1>5. /\ p \in [1..n -> S] /\ \A x \in S : \E i \in 1..n : p[i] = x
      /\ \A i, j \in 1..n : i < j => p[i] < p[j]
  BY <1>2, <1>4 DEF Arranges
<1> DEFINE below(i) == {j \in S : j < i}
<1>6. ASSUME NEW k \in 1..n PROVE Cardinality(below(p[k])) = k - 1
  <2>1. PICK I : I = 1..(k - 1)
    OBVIOUS
  <2>2. IsFiniteSet(I) /\ Cardinality(I) = k - 1
    <3>1. k - 1 \in Nat
      BY <1>1
    <3>2. IsFiniteSet(1..(k - 1)) /\ Cardinality(1..(k - 1)) = k - 1
      BY <3>1, FS_Interval
    <3> QED BY <2>1, <3>2
  <2>3. PICK f : f = [i \in I |-> p[i]]
    OBVIOUS
  <2>4. \A i \in I : i \in 1..n /\ i < k /\ f[i] = p[i] /\ p[i] \in S /\ p[i] < p[k]
    BY <1>1, <1>5, <2>1, <2>3
  <2>5. f \in [I -> below(p[k])]
    BY <2>3, <2>4
  <2>6. \A x, y \in I : f[x] = f[y] => x = y
    <3> SUFFICES ASSUME NEW x \in I, NEW y \in I, f[x] = f[y], x # y PROVE FALSE
      OBVIOUS
    <3>1. p[x] = p[y] /\ x \in 1..n /\ y \in 1..n /\ p[x] \in Nat
      BY <2>4
    <3>2. x < y \/ y < x
      BY <1>1, <3>1
    <3>3. p[x] < p[y] \/ p[y] < p[x]
      BY <1>5, <3>1, <3>2
    <3> QED BY <3>1, <3>3
  <2>7. \A x \in below(p[k]) : \E i \in I : f[i] = x
    <3> SUFFICES ASSUME NEW x \in S, x < p[k] PROVE \E i \in I : f[i] = x
      OBVIOUS
    <3>1. PICK i \in 1..n : p[i] = x
      BY <1>5
    <3>2. i < k
      <4> SUFFICES ASSUME k <= i PROVE FALSE
        BY <1>1
      <4>1. i = k \/ k < i
        BY <1>1
      <4>2. p[k] <= p[i]
        <5>1. p[k] \in Nat /\ p[i] \in Nat
          BY <1>5
        <5>2. p[k] = p[i] \/ p[k] < p[i]
          BY <1>5, <4>1
        <5> QED BY <5>1, <5>2
      <4>3. x \in Nat /\ p[k] \in Nat
        BY <1>5
      <4> QED BY <3>1, <4>2, <4>3
    <3>3. i \in I
      BY <1>1, <2>1, <3>2
    <3> QED BY <2>4, <3>1, <3>3
  <2>8. f \in Bijection(I, below(p[k]))
    <3> HIDE DEF below
    <3>1. f \in Injection(I, below(p[k]))
      BY <2>5, <2>6 DEF Injection, IsInjective
    <3>2. f \in Surjection(I, below(p[k]))
      BY <2>5, <2>7 DEF Surjection
    <3> QED BY <3>1, <3>2 DEF Bijection
  <2> HIDE DEF below
  <2> QED BY <2>2, <2>8, FS_Bijection DEF ExistsBijection
<1>7. ASSUME NEW k \in 1..n
      PROVE  p[k] = CHOOSE i \in S : Cardinality({j \in S : j < i}) = k - 1
  <2>1. p[k] \in S /\ Cardinality({j \in S : j < p[k]}) = k - 1
    BY <1>5, <1>6
  <2>2. ASSUME NEW i \in S, Cardinality({j \in S : j < i}) = k - 1 PROVE i = p[k]
    <3>1. PICK l \in 1..n : p[l] = i
      BY <1>5
    <3>2. Cardinality({j \in S : j < i}) = l - 1
      BY <1>6, <3>1
    <3>3. l = k
      BY <1>1, <2>2, <3>2
    <3> QED BY <3>1, <3>3
  <2> QED BY <2>1, <2>2
<1>8. PICK q : q = Ascending(S)
  OBVIOUS
<1>9. q = p
  <2>1. q = [k \in 1..n |-> CHOOSE i \in S : Cardinality({j \in S : j < i}) = k - 1]
    BY <1>1, <1>8 DEF Ascending
  <2> QED BY <1>5, <1>7, <2>1
<1>10. q \in Seq(S) /\ Len(q) = n /\ DOMAIN q = 1..n
  BY <1>1, <1>5, <1>9
<1>11. ToSet(q) = S
  BY <1>5, <1>9, <1>10 DEF ToSet
<1>12. \A i, j \in 1..n : i < j => q[i] < q[j]
  BY <1>5, <1>9
<1> QED BY <1>1, <1>8, <1>10, <1>11, <1>12 DEF AscendingOf

-----------------------------------------------------------------------------
(* A loop that goes on from where it stopped *)

\* The lists a loop makes that goes on from s at next[s] with item[s] in its list.
Rounds(f, first, end, item, next) ==
  f = [s \in first..end |-> IF s = end THEN <<>> ELSE item[s] \o f[next[s]]]

\* There is such a function, whatever the items are, as every round goes on further.
LEMMA RoundsExist ==
  ASSUME NEW first \in Nat, NEW end \in Nat, first <= end, NEW item, NEW next,
         \A s \in first..(end - 1) : next[s] \in (s + 1)..end
  PROVE  \E f : Rounds(f, first, end, item, next)
<1> DEFINE G == {s \in first..end : \E f : Rounds(f, s, end, item, next)}
<1>1. end \in G
  <2>1. PICK f : f = [s \in end..end |-> <<>>]
    OBVIOUS
  <2>2. Rounds(f, end, end, item, next)
    <3>1. \A s \in end..end : s = end
      OBVIOUS
    <3> QED BY <2>1, <3>1 DEF Rounds
  <2>3. end \in first..end
    OBVIOUS
  <2> QED BY <2>2, <2>3
<1>2. ASSUME NEW s \in first..(end - 1), \A t \in (s + 1)..end : t \in G PROVE s \in G
  <2>1. s + 1 \in (s + 1)..end
    OBVIOUS
  <2>2. PICK f : Rounds(f, s + 1, end, item, next)
    BY <1>2, <2>1
  <2>3. PICK c : c = item[s] \o f[next[s]]
    OBVIOUS
  <2>4. PICK h : h = [t \in s..end |-> IF t = s THEN c ELSE f[t]]
    OBVIOUS
  <2>5. \A t \in (s + 1)..end : h[t] = f[t]
    BY <2>4
  <2>6. ASSUME NEW t \in s..end
        PROVE  h[t] = IF t = end THEN <<>> ELSE item[t] \o h[next[t]]
    <3>1. CASE t = s
      <4>1. s # end /\ next[s] \in (s + 1)..end
        OBVIOUS
      <4>2. h[t] = c
        BY <2>4, <3>1
      <4>3. h[next[s]] = f[next[s]]
        BY <2>5, <4>1
      <4> QED BY <2>3, <3>1, <4>1, <4>2, <4>3, Zenon
    <3>2. CASE t # s
      <4>1. t \in (s + 1)..end
        BY <3>2
      <4>2. h[t] = f[t]
        BY <2>5, <4>1
      <4>3. f[t] = IF t = end THEN <<>> ELSE item[t] \o f[next[t]]
        BY <2>2, <4>1, Zenon DEF Rounds
      <4>4. CASE t = end
        BY <4>2, <4>3, <4>4, Zenon
      <4>5. CASE t # end
        <5>1. t \in first..(end - 1)
          BY <4>1, <4>5
        <5>2. next[t] \in (t + 1)..end
          BY <5>1
        <5>3. next[t] \in (s + 1)..end
          BY <4>1, <5>2
        <5>4. h[next[t]] = f[next[t]]
          BY <2>5, <5>3
        <5> QED BY <4>2, <4>3, <4>5, <5>4, Zenon
      <4> QED BY <4>4, <4>5
    <3> QED BY <3>1, <3>2
  <2>7. Rounds(h, s, end, item, next)
    <3>1. DOMAIN h = s..end /\ h = [t \in s..end |-> h[t]]
      BY <2>4
    <3> QED BY <2>6, <3>1, Zenon DEF Rounds
  <2>8. s \in first..end
    OBVIOUS
  <2> QED BY <2>7, <2>8
<1> HIDE DEF G
<1>3. \A s \in first..end : s \in G
  BY <1>1, <1>2, DownwardAreGood
<1> USE DEF G
<1> QED BY <1>3

-----------------------------------------------------------------------------
(* A stretch of text *)

Texts == Seq(Letters)

\* b is where the first character of a word is, or the end.
SkipsTo(b, text, start, end) ==
  /\ b \in start..end /\ (b = end \/ ~Blank(text[b + 1]))
  /\ \A i \in start..(b - 1) : Blank(text[i + 1])

\* What SkipBlanks returns.
LEMMA SkipIs ==
  ASSUME NEW text, NEW start \in Nat, NEW end \in Nat, start <= end
  PROVE  SkipsTo(SkipBlanks(text, start, end), text, start, end)
<1> DEFINE S == {i \in start..end : i = end \/ ~Blank(text[i + 1])}
<1>1. S \in SUBSET Nat /\ end \in S
  OBVIOUS
<1>2. Min(S) \in S /\ \A y \in S : Min(S) <= y
  <2> HIDE DEF S
  <2> QED BY <1>1, MinIs
<1>3. PICK b : b = Min(S)
  OBVIOUS
<1>4. b \in S /\ \A y \in S : b <= y
  BY <1>2, <1>3
<1>5. SkipBlanks(text, start, end) = b
  BY <1>3 DEF SkipBlanks
<1>6. ASSUME NEW i \in start..(b - 1) PROVE Blank(text[i + 1])
  <2>1. i \in start..end /\ ~(b <= i) /\ i # end
    BY <1>4
  <2>2. i \notin S
    BY <1>4, <2>1
  <2> QED BY <2>1, <2>2
<1> QED BY <1>4, <1>5, <1>6 DEF SkipsTo

\* A round stops within the limit, and goes on unless it is at the end: as it begins with
\* a character of a word, the break it ends at is a later one.
LEMMA StopIs ==
  ASSUME NEW text, NEW start \in Nat, NEW end \in Nat, start <= end,
         start = end \/ ~Blank(text[start + 1])
  PROVE  /\ Stop(text, start, end) \in start..end
         /\ Stop(text, start, end) <= start + MaxChars
         /\ start < end => start < Stop(text, start, end)
<1> USE ChunkBounds
<1>1. PICK h : h = MaxChars \div 2 /\ h \in Nat
  OBVIOUS
<1>2. PICK stop : stop = Min({end, start + MaxChars})
  OBVIOUS
<1>3. /\ stop \in start..end /\ stop <= start + MaxChars
      /\ start < end => start < stop
  <2>1. PICK S : S = {end, start + MaxChars}
    OBVIOUS
  <2>2. S \in SUBSET Nat /\ S # {}
    BY <2>1
  <2>3. stop \in S /\ \A y \in S : stop <= y
    BY <1>2, <2>1, <2>2, MinIs, Zenon
  <2> QED BY <2>1, <2>3
<1>4. PICK B : B = {i \in (start + MaxChars \div 2)..(stop - 1) : text[i + 1] = "break"}
  OBVIOUS
<1>5. B \subseteq (start + h)..(stop - 1)
  BY <1>1, <1>4
<1>6. Stop(text, start, end) = IF stop < end /\ B # {} THEN Max(B) ELSE stop
  BY <1>2, <1>4 DEF Stop
<1>7. ASSUME B # {} PROVE Max(B) \in start..end /\ Max(B) <= start + MaxChars /\ start < Max(B)
  <2>1. B \in SUBSET (0..end)
    BY <1>1, <1>3, <1>5
  <2>2. Max(B) \in B
    BY <1>7, <2>1, MaxIs
  <2>3. PICK m : m = Max(B)
    OBVIOUS
  <2>4. m \in (start + h)..(stop - 1)
    BY <1>5, <2>2, <2>3
  <2>5. m \in start..end /\ m <= start + MaxChars /\ m < end
    BY <1>1, <1>3, <2>4
  <2>6. m # start
    <3>1. text[m + 1] = "break"
      BY <1>4, <2>2, <2>3
    <3>2. Blank(text[m + 1])
      BY <3>1 DEF Blank
    <3> QED BY <2>5, <3>2
  <2>7. start < m
    BY <2>5, <2>6
  <2> QED BY <2>3, <2>5, <2>7
<1> QED BY <1>3, <1>6, <1>7

\* l is after the last character of a word, or the start.
TrimsTo(l, text, start, stop) ==
  /\ l \in start..stop /\ (l > start => ~Blank(text[l]))
  /\ \A i \in (l + 1)..stop : Blank(text[i])

\* What Trimmed returns.
LEMMA TrimIs ==
  ASSUME NEW text, NEW start \in Nat, NEW stop \in Nat, start <= stop
  PROVE  TrimsTo(Trimmed(text, start, stop), text, start, stop)
<1> DEFINE S == {start} \union {i \in (start + 1)..stop : ~Blank(text[i])}
<1>1. S \in SUBSET (0..stop) /\ start \in S
  OBVIOUS
<1>2. Max(S) \in S /\ \A y \in S : y <= Max(S)
  <2> HIDE DEF S
  <2> QED BY <1>1, MaxIs
<1>3. PICK l : l = Max(S)
  OBVIOUS
<1>4. l \in S /\ \A y \in S : y <= l
  BY <1>2, <1>3
<1>5. Trimmed(text, start, stop) = l
  BY <1>3 DEF Trimmed
<1>6. ASSUME NEW i \in (l + 1)..stop PROVE Blank(text[i])
  <2>1. i \in (start + 1)..stop /\ ~(i <= l)
    BY <1>4
  <2>2. i \notin S
    BY <1>4, <2>1
  <2> QED BY <2>1, <2>2
<1> QED BY <1>4, <1>5, <1>6 DEF TrimsTo

Cuts == [start: Nat, end: Nat]
CutOrder == {x \in Cuts \X Cuts : x[1].end <= x[2].start}

\* A chunk of the stretch from a to b, without blanks at its ends.
WholeCut(r, text, a, b) ==
  /\ r \in Cuts /\ a <= r.start /\ r.end <= b /\ r.end - r.start \in 1..MaxChars
  /\ ~Blank(text[r.start + 1]) /\ ~Blank(text[r.end])

\* Chunks one after the other, and every character of a word in one.
CutWhole(q, text, a, b) ==
  /\ q \in Seq(Cuts) /\ InPairs(q, CutOrder) /\ \A r \in ToSet(q) : WholeCut(r, text, a, b)
  /\ \A c \in a..(b - 1) : ~Blank(text[c + 1]) => \E r \in ToSet(q) : c \in r.start..(r.end - 1)

\* Nothing is cut of nothing.
LEMMA EmptyCut ==
  ASSUME NEW text, NEW a \in Nat, NEW q, q = <<>>
  PROVE  CutWhole(q, text, a, a)
<1>1. q \in Seq(Cuts) /\ Len(q) = 0 /\ ToSet(q) = {}
  BY DEF ToSet
<1>2. 1..Len(q) = {} /\ a..(a - 1) = {}
  BY <1>1
<1> QED BY <1>1, <1>2 DEF CutWhole, InPairs

\* One round of the loop: the blanks before b are skipped, the round stops at stop, and
\* its chunk ends at l.
LEMMA RoundCuts ==
  ASSUME NEW text, NEW s \in Nat, NEW end \in Nat, s < end,
         NEW b, SkipsTo(b, text, s, end), NEW stop \in b..end, stop <= b + MaxChars,
         b < end => b < stop, NEW l, TrimsTo(l, text, b, stop),
         NEW first, first = IF l > b THEN <<[start |-> b, end |-> l]>> ELSE <<>>,
         NEW rest, CutWhole(rest, text, stop, end)
  PROVE  CutWhole(first \o rest, text, s, end)
<1> USE ChunkBounds
<1>1. /\ b \in s..end /\ b \in Nat /\ (b = end \/ ~Blank(text[b + 1]))
      /\ \A i \in s..(b - 1) : Blank(text[i + 1])
  BY DEF SkipsTo
<1>2. /\ l \in b..stop /\ l \in Nat /\ stop \in Nat /\ (l > b => ~Blank(text[l]))
      /\ \A i \in (l + 1)..stop : Blank(text[i])
  BY <1>1 DEF TrimsTo
<1>3. PICK r : r = [start |-> b, end |-> l]
  OBVIOUS
<1>4. r \in Cuts /\ r.start = b /\ r.end = l
  BY <1>1, <1>2, <1>3 DEF Cuts
<1>5. first \in Seq(Cuts) /\ InPairs(first, CutOrder) /\ ToSet(first) = IF l > b THEN {r} ELSE {}
  <2>1. CASE l > b
    <3>1. first = <<r>>
      BY <1>3, <2>1
    <3> QED BY <1>4, <2>1, <3>1, OneIs
  <2>2. CASE ~(l > b)
    <3>1. CutWhole(first, text, s, s)
      BY <2>2, EmptyCut
    <3>2. ToSet(first) = {}
      BY <2>2 DEF ToSet
    <3> QED BY <2>2, <3>1, <3>2 DEF CutWhole
  <2> QED BY <2>1, <2>2
<1>6. /\ rest \in Seq(Cuts) /\ InPairs(rest, CutOrder)
      /\ \A x \in ToSet(rest) : WholeCut(x, text, stop, end)
      /\ \A c \in stop..(end - 1) : ~Blank(text[c + 1]) =>
           \E x \in ToSet(rest) : c \in x.start..(x.end - 1)
  BY DEF CutWhole
<1>7. PICK q : q = first \o rest
  OBVIOUS
<1>8. q \in Seq(Cuts) /\ ToSet(q) = ToSet(first) \union ToSet(rest)
  <2>1. q \in Seq(Cuts)
    BY <1>5, <1>6, <1>7
  <2>2. ToSet(first \o rest) = ToSet(first) \union ToSet(rest)
    BY <1>5, <1>6, JoinedHas, ZenonT(60)
  <2> QED BY <1>7, <2>1, <2>2, ZenonT(60)
<1>9. InPairs(q, CutOrder)
  <2>1. ASSUME NEW x \in ToSet(first), NEW y \in ToSet(rest) PROVE <<x, y>> \in CutOrder
    <3>1. x = r
      BY <1>5
    <3>2. y \in Cuts /\ stop <= y.start
      BY <1>6 DEF WholeCut
    <3>3. x.end <= y.start
      <4>1. y.start \in Nat
        BY <3>2 DEF Cuts
      <4> QED BY <1>2, <1>4, <3>1, <3>2, <4>1
    <3>4. <<x, y>> \in Cuts \X Cuts /\ <<x, y>>[1] = x /\ <<x, y>>[2] = y
      BY <1>4, <3>1, <3>2
    <3> QED BY <3>3, <3>4 DEF CutOrder
  <2> QED BY <1>5, <1>6, <1>7, <2>1, JoinedPairs
<1>10. ASSUME NEW x \in ToSet(q) PROVE WholeCut(x, text, s, end)
  <2>1. CASE x \in ToSet(first)
    <3>1. x = r /\ l > b
      BY <1>5, <2>1
    <3>2. b < end
      BY <1>1, <1>2, <3>1
    <3>3. ~Blank(text[x.start + 1]) /\ ~Blank(text[x.end])
      BY <1>1, <1>2, <1>4, <3>1, <3>2
    <3>4. s <= b /\ l <= end /\ l - b \in 1..MaxChars
      BY <1>1, <1>2, <3>1
    <3> QED BY <1>4, <3>1, <3>3, <3>4 DEF WholeCut
  <2>2. CASE x \in ToSet(rest)
    <3>1. WholeCut(x, text, stop, end)
      BY <1>6, <2>2
    <3>2. x.start \in Nat /\ stop <= x.start
      BY <3>1 DEF WholeCut, Cuts
    <3>3. s <= x.start
      BY <1>1, <1>2, <3>2
    <3> QED BY <3>1, <3>3 DEF WholeCut
  <2> QED BY <1>8, <2>1, <2>2
<1>11. ASSUME NEW c \in s..(end - 1), ~Blank(text[c + 1])
       PROVE  \E x \in ToSet(q) : c \in x.start..(x.end - 1)
  <2>1. ~(c < b)
    <3> SUFFICES ASSUME c < b PROVE FALSE
      OBVIOUS
    <3>1. c \in s..(b - 1)
      BY <1>1
    <3> QED BY <1>1, <1>11, <3>1
  <2>2. CASE c < l
    <3>1. l > b /\ c \in b..(l - 1)
      BY <1>1, <1>2, <2>1, <2>2
    <3>2. r \in ToSet(q)
      BY <1>5, <1>8, <3>1
    <3> QED BY <1>4, <3>1, <3>2
  <2>3. CASE l <= c /\ c < stop
    <3>1. c + 1 \in (l + 1)..stop
      BY <1>1, <1>2, <2>3
    <3> QED BY <1>2, <1>11, <3>1
  <2>4. CASE stop <= c
    <3>1. c \in stop..(end - 1)
      BY <1>2, <2>4
    <3>2. PICK x \in ToSet(rest) : c \in x.start..(x.end - 1)
      BY <1>6, <1>11, <3>1
    <3> QED BY <1>8, <3>2
  <2> QED BY <1>1, <1>2, <2>2, <2>3, <2>4
<1> QED BY <1>7, <1>8, <1>9, <1>10, <1>11 DEF CutWhole

\* A stretch is cut without loss.
LEMMA RangesWhole ==
  ASSUME NEW text, NEW first \in Nat, NEW end \in Nat, first <= end
  PROVE  CutWhole(Ranges(text, first, end), text, first, end)
<1> DEFINE b(s) == SkipBlanks(text, s, end)
           stop(s) == Stop(text, b(s), end)
           l(s) == Trimmed(text, b(s), stop(s))
           cut(s) == IF l(s) > b(s) THEN <<[start |-> b(s), end |-> l(s)]>> ELSE <<>>
<1>1. ASSUME NEW s \in first..end
      PROVE  /\ SkipsTo(b(s), text, s, end) /\ b(s) \in s..end
             /\ stop(s) \in b(s)..end /\ stop(s) <= b(s) + MaxChars
             /\ b(s) < end => b(s) < stop(s)
             /\ TrimsTo(l(s), text, b(s), stop(s))
  <2>1. s \in Nat /\ s <= end
    OBVIOUS
  <2>2. PICK c : c = b(s)
    OBVIOUS
  <2>3. SkipsTo(c, text, s, end)
    BY <2>1, <2>2, SkipIs
  <2>4. c \in s..end /\ c \in Nat /\ c <= end /\ (c = end \/ ~Blank(text[c + 1]))
    BY <2>1, <2>3 DEF SkipsTo
  <2>5. PICK t : t = Stop(text, c, end)
    OBVIOUS
  <2>6. t \in c..end /\ t <= c + MaxChars /\ (c < end => c < t)
    BY <2>4, <2>5, StopIs
  <2>7. t \in Nat /\ c <= t
    BY <2>4, <2>6
  <2>8. TrimsTo(Trimmed(text, c, t), text, c, t)
    BY <2>4, <2>7, TrimIs
  <2> HIDE DEF b, cut
  <2> QED BY <2>2, <2>3, <2>4, <2>5, <2>6, <2>8
<1>2. PICK item : item = [s \in first..end |-> cut(s)]
  OBVIOUS
<1>3. PICK next : next = [s \in first..end |-> stop(s)]
  OBVIOUS
<1>4. \A s \in first..end : item[s] = cut(s) /\ next[s] = stop(s)
  <2> HIDE DEF cut, stop
  <2> QED BY <1>2, <1>3
<1> HIDE DEF b, stop, l, cut
<1>5. ASSUME NEW s \in first..(end - 1) PROVE next[s] \in (s + 1)..end
  <2>1. s \in first..end
    OBVIOUS
  <2>2. PICK c : c = b(s)
    OBVIOUS
  <2>3. PICK t : t = stop(s)
    OBVIOUS
  <2>4. c \in s..end /\ t \in c..end /\ (c < end => c < t)
    BY <1>1, <2>1, <2>2, <2>3
  <2>5. t \in (s + 1)..end
    BY <2>4
  <2> QED BY <1>4, <2>1, <2>3, <2>5
<1>6. PICK f : f = CHOOSE g : Rounds(g, first, end, item, next)
  OBVIOUS
<1>7. Rounds(f, first, end, item, next)
  <2>1. \E g : Rounds(g, first, end, item, next)
    BY <1>5, RoundsExist
  <2> QED BY <1>6, <2>1
<1>8. Ranges(text, first, end) = f[first]
  <2>1. \A g : Rounds(g, first, end, item, next)
               <=> g = [start \in first..end |-> IF start = end THEN <<>>
                                                 ELSE cut(start) \o g[stop(start)]]
    <3> SUFFICES ASSUME NEW g
                 PROVE  [s \in first..end |-> IF s = end THEN <<>> ELSE item[s] \o g[next[s]]]
                        = [s \in first..end |-> IF s = end THEN <<>> ELSE cut(s) \o g[stop(s)]]
      BY DEF Rounds
    <3> QED BY <1>4, Zenon
  <2>2. f = CHOOSE g : g = [start \in first..end |-> IF start = end THEN <<>>
                                                     ELSE cut(start) \o g[stop(start)]]
    BY <1>6, <2>1, Zenon
  <2>3. Ranges(text, first, end) =
          (CHOOSE g : g = [start \in first..end |-> IF start = end THEN <<>>
                                                   ELSE cut(start) \o g[stop(start)]])[first]
    BY DEF Ranges, cut, l, stop, b
  <2> QED BY <2>2, <2>3, Zenon
<1> DEFINE G == {s \in first..end : CutWhole(f[s], text, s, end)}
<1>9. end \in G
  <2>1. end \in first..end
    OBVIOUS
  <2>2. f[end] = <<>>
    BY <1>7, <2>1, Zenon DEF Rounds
  <2>3. CutWhole(f[end], text, end, end)
    BY <2>2, EmptyCut
  <2> QED BY <2>1, <2>3
<1>10. ASSUME NEW s \in first..(end - 1), \A t \in (s + 1)..end : t \in G PROVE s \in G
  <2>1. s \in first..end /\ s # end /\ s \in Nat /\ s < end
    OBVIOUS
  <2>2. f[s] = item[s] \o f[next[s]]
    BY <1>7, <2>1, Zenon DEF Rounds
  <2>3. PICK c : c = b(s)
    OBVIOUS
  <2>4. PICK t : t = stop(s)
    OBVIOUS
  <2>5. PICK e : e = l(s)
    OBVIOUS
  <2>6. /\ SkipsTo(c, text, s, end) /\ t \in c..end /\ t <= c + MaxChars
        /\ (c < end => c < t) /\ TrimsTo(e, text, c, t)
    BY <1>1, <2>1, <2>3, <2>4, <2>5
  <2>7. next[s] = t /\ item[s] = IF e > c THEN <<[start |-> c, end |-> e]>> ELSE <<>>
    BY <1>4, <2>1, <2>3, <2>4, <2>5 DEF cut
  <2>8. CutWhole(f[t], text, t, end)
    BY <1>5, <1>10, <2>7
  <2>9. CutWhole(item[s] \o f[t], text, s, end)
    <3> HIDE DEF G
    <3> QED BY <2>1, <2>6, <2>7, <2>8, RoundCuts
  <2> QED BY <2>1, <2>2, <2>7, <2>9
<1> HIDE DEF G
<1>11. \A s \in first..end : s \in G
  BY <1>9, <1>10, DownwardAreGood
<1> USE DEF G
<1>12. first \in first..end
  OBVIOUS
<1> QED BY <1>8, <1>11, <1>12

-----------------------------------------------------------------------------
(* Where sections begin *)

PageType == [complete: BOOLEAN, text: Seq(Letters)]
EntrySet == [page: PageNumbers, at: Nat]
EntryOrder == {x \in EntrySet \X EntrySet : x[1].page <= x[2].page}

\* Pages and their numbers.
LEMMA PagesAre ==
  ASSUME manual \in Manual
  PROVE  /\ manual.pages \in Seq(PageType) /\ Len(manual.pages) \in Nat
         /\ DOMAIN manual.pages = 1..Len(manual.pages)
         /\ manual.outline \in Seq([page: Nat, at: Nat])
         /\ \A k \in 1..Len(manual.pages) : k - 1 \in PageNumbers
         /\ \A p \in PageNumbers : /\ p \in Nat /\ p + 1 \in 1..Len(manual.pages)
                                   /\ Page(p) \in PageType
<1>1. manual.pages \in Seq(PageType) /\ manual.outline \in Seq([page: Nat, at: Nat])
  BY DEF Manual, PageType
<1>2. PICK q : q = manual.pages
  OBVIOUS
<1>3. PICK n : n = Len(q) /\ n \in Nat
  BY <1>1, <1>2, SMTT(30)
<1>4. DOMAIN q = 1..n /\ \A k \in 1..n : q[k] \in PageType
  BY <1>1, <1>2, <1>3
<1>5. PageNumbers = 0..(n - 1)
  BY <1>2, <1>3 DEF PageNumbers
<1>6. \A k \in 1..n : k - 1 \in PageNumbers
  BY <1>3, <1>5
<1>7. \A p \in PageNumbers : p \in Nat /\ p + 1 \in 1..n
  BY <1>3, <1>5
<1>8. \A p \in PageNumbers : Page(p) \in PageType
  BY <1>2, <1>4, <1>7 DEF Page
<1> QED BY <1>1, <1>2, <1>3, <1>4, <1>6, <1>7, <1>8

\* Places of a list, from the first to the last.
LEMMA PlacesAre ==
  ASSUME NEW T, NEW q \in Seq(T), NEW S \in SUBSET DOMAIN q
  PROVE  AscendingOf(Ascending(S), S) /\ Ascending(S) \in Seq(DOMAIN q)
<1>1. PICK n : n = Len(q) /\ n \in Nat
  OBVIOUS
<1>2. DOMAIN q = 1..n
  BY <1>1
<1>3. IsFiniteSet(1..n)
  BY <1>1, FS_Interval
<1>4. IsFiniteSet(S) /\ S \in SUBSET Nat
  BY <1>1, <1>2, <1>3, FS_Subset
<1>5. AscendingOf(Ascending(S), S)
  BY <1>4, AscendingIs
<1>6. PICK a : a = Ascending(S)
  OBVIOUS
<1>7. a \in Seq(S)
  BY <1>5, <1>6 DEF AscendingOf
<1>8. a \in Seq(DOMAIN q)
  BY <1>7
<1> QED BY <1>5, <1>6, <1>8

\* The outline without the entries whose page there is not.
LEMMA ValidAre ==
  ASSUME manual \in Manual
  PROVE  Valid \in Seq(EntrySet)
<1>1. PICK o : o = manual.outline
  OBVIOUS
<1>2. o \in Seq([page: Nat, at: Nat])
  BY <1>1, PagesAre
<1>3. PICK S : S = {i \in DOMAIN o : o[i].page \in PageNumbers}
  OBVIOUS
<1>4. PICK kept : kept = Ascending(S)
  OBVIOUS
<1>5. AscendingOf(kept, S)
  BY <1>2, <1>3, <1>4, PlacesAre
<1>6. kept \in Seq(S)
  BY <1>5 DEF AscendingOf
<1>7. PICK v : v = Valid
  OBVIOUS
<1>8. v = [k \in DOMAIN kept |-> o[kept[k]]]
  BY <1>1, <1>3, <1>4, <1>7, Zenon DEF Valid
<1>9. \A k \in 1..Len(kept) : v[k] \in EntrySet
  <2> SUFFICES ASSUME NEW k \in 1..Len(kept) PROVE v[k] \in EntrySet
    OBVIOUS
  <2>1. kept[k] \in S /\ k \in DOMAIN kept
    BY <1>6, MembersAre
  <2>2. PICK i : i = kept[k] /\ i \in DOMAIN o /\ o[i].page \in PageNumbers
    BY <1>3, <2>1
  <2>3. o[i] \in [page: Nat, at: Nat]
    <3>1. DOMAIN o = 1..Len(o)
      BY <1>2, MembersAre
    <3>2. i \in 1..Len(o)
      BY <2>2, <3>1
    <3> QED BY <1>2, <3>2, MembersAre
  <2>4. v[k] = o[i]
    BY <1>8, <2>1, <2>2
  <2> QED BY <2>2, <2>3, <2>4 DEF EntrySet
<1>10. v \in Seq(EntrySet)
  <2>1. DOMAIN v = DOMAIN kept /\ v = [k \in DOMAIN kept |-> v[k]]
    BY <1>8
  <2> QED BY <1>6, <1>9, <2>1, MappedIs
<1> QED BY <1>7, <1>10

\* An outline of which no entry jumps back does not jump back later.
LEMMA OrderedPairs ==
  ASSUME manual \in Manual, NEW v \in Seq(EntrySet), InPageOrder(v)
  PROVE  InPairs(v, EntryOrder)
<1>1. PICK n : n = Len(v) /\ n \in Nat
  OBVIOUS
<1>2. ASSUME NEW i \in 1..n
      PROVE  v[i] \in EntrySet /\ v[i].page \in Nat
  <2>1. v[i] \in EntrySet
    BY <1>1, MembersAre
  <2> QED BY <2>1, PagesAre DEF EntrySet
<1>3. \A i \in 1..(n - 1) : v[i].page <= v[i + 1].page
  BY <1>1 DEF InPageOrder
<1> DEFINE G == {j \in 0..n : \A i \in 1..n : i < j => v[i].page <= v[j].page}
<1>4. 0 \in G
  BY <1>1
<1>5. ASSUME NEW j \in 1..n, j - 1 \in G PROVE j \in G
  <2>1. ASSUME NEW i \in 1..n, i < j PROVE v[i].page <= v[j].page
    <3>1. j - 1 \in 1..(n - 1) /\ j - 1 \in 1..n /\ (j - 1) + 1 = j
      BY <1>1, <2>1
    <3>2. v[j - 1].page <= v[j].page
      BY <1>3, <3>1
    <3>3. i = j - 1 \/ i < j - 1
      BY <1>1, <2>1
    <3>4. v[i].page <= v[j - 1].page
      <4>1. CASE i = j - 1
        <5>1. v[i].page \in Nat
          BY <1>2
        <5> QED BY <4>1, <5>1
      <4>2. CASE i < j - 1
        BY <1>5, <4>2
      <4> QED BY <3>3, <4>1, <4>2
    <3>5. PICK a : a = v[i].page /\ a \in Nat
      BY <1>2
    <3>6. PICK b : b = v[j - 1].page /\ b \in Nat
      BY <1>2, <3>1
    <3>7. PICK c : c = v[j].page /\ c \in Nat
      BY <1>2
    <3>8. a <= b /\ b <= c
      BY <3>2, <3>4, <3>5, <3>6, <3>7
    <3>9. a <= c
      BY <3>5, <3>6, <3>7, <3>8
    <3> QED BY <3>5, <3>7, <3>9
  <2>2. j \in 0..n
    BY <1>1
  <2> QED BY <2>1, <2>2
<1> HIDE DEF G
<1>6. \A j \in 0..n : j \in G
  BY <1>1, <1>4, <1>5, NumbersAreGood
<1> USE DEF G
<1>7. ASSUME NEW i \in 1..n, NEW j \in 1..n, i < j PROVE <<v[i], v[j]>> \in EntryOrder
  <2>1. j \in 0..n
    BY <1>1
  <2>2. v[i].page <= v[j].page
    BY <1>6, <1>7, <2>1
  <2>3. PICK x : x = <<v[i], v[j]>>
    OBVIOUS
  <2>4. x \in EntrySet \X EntrySet /\ x[1] = v[i] /\ x[2] = v[j]
    BY <1>2, <2>3
  <2> QED BY <2>2, <2>3, <2>4 DEF EntryOrder
<1> QED BY <1>1, <1>7 DEF InPairs

\* The numbered headings of one page.
On(p) == IF ~Page(p).complete THEN <<>>
         ELSE LET starts == Ascending({i \in DOMAIN Page(p).text : Page(p).text[i] = "heading"})
              IN [k \in DOMAIN starts |-> [page |-> p, at |-> starts[k] - 1]]

\* They are entries of that page.
LEMMA OnPage ==
  ASSUME manual \in Manual, NEW p \in PageNumbers
  PROVE  On(p) \in Seq(EntrySet) /\ \A x \in ToSet(On(p)) : x.page = p
<1>1. p \in Nat /\ Page(p).text \in Seq(Letters)
  BY PagesAre DEF PageType
<1>2. CASE ~Page(p).complete
  <2>1. PICK z : z = <<>>
    OBVIOUS
  <2>2. z \in Seq(EntrySet) /\ ToSet(z) = {}
    BY <2>1 DEF ToSet
  <2>3. On(p) = z
    BY <1>2, <2>1 DEF On
  <2> QED BY <2>2, <2>3
<1>3. CASE Page(p).complete
  <2>1. PICK text : text = Page(p).text
    OBVIOUS
  <2>2. PICK S : S = {i \in DOMAIN text : text[i] = "heading"}
    OBVIOUS
  <2>3. PICK starts : starts = Ascending(S)
    OBVIOUS
  <2>4. AscendingOf(starts, S)
    BY <1>1, <2>1, <2>2, <2>3, PlacesAre
  <2>5. starts \in Seq(S)
    BY <2>4 DEF AscendingOf
  <2>6. PICK q : q = On(p)
    OBVIOUS
  <2>7. q = [k \in DOMAIN starts |-> [page |-> p, at |-> starts[k] - 1]]
    BY <1>3, <2>1, <2>2, <2>3, <2>6, Zenon DEF On
  <2>8. ASSUME NEW k \in 1..Len(starts)
        PROVE  q[k] \in EntrySet /\ q[k].page = p
    <3>1. starts[k] \in S /\ k \in DOMAIN starts
      BY <2>5, MembersAre
    <3>2. PICK i : i = starts[k] /\ i \in DOMAIN text
      BY <2>2, <3>1
    <3>3. i - 1 \in Nat
      <4>1. text \in Seq(Letters)
        BY <1>1, <2>1
      <4>2. DOMAIN text = 1..Len(text) /\ Len(text) \in Nat
        BY <4>1
      <4> QED BY <3>2, <4>2
    <3>4. q[k] = [page |-> p, at |-> i - 1]
      BY <2>7, <3>1, <3>2
    <3> QED BY <3>3, <3>4 DEF EntrySet
  <2>9. q \in Seq(EntrySet) /\ Len(q) = Len(starts)
    <3>1. DOMAIN q = DOMAIN starts /\ q = [k \in DOMAIN starts |-> q[k]]
      BY <2>7
    <3>2. \A k \in 1..Len(starts) : q[k] \in EntrySet
      BY <2>8
    <3>3. q \in Seq(EntrySet)
      BY <2>5, <3>1, <3>2, MappedIs
    <3>4. Len(q) = Len(starts)
      BY <2>5, <3>1, <3>2, MappedIs
    <3> QED BY <3>3, <3>4
  <2>10. \A x \in ToSet(q) : x.page = p
    BY <2>8, <2>9, MembersAre
  <2> QED BY <2>6, <2>9, <2>10
<1> QED BY <1>2, <1>3

\* The headings of all pages come in page order.
LEMMA HeadingsAre ==
  ASSUME manual \in Manual
  PROVE  Headings \in Seq(EntrySet) /\ InPairs(Headings, EntryOrder)
<1>1. PICK n : n = Len(manual.pages) /\ n \in Nat
  BY PagesAre
<1>2. PICK bs : bs = [k \in DOMAIN manual.pages |-> On(k - 1)]
  OBVIOUS
<1>3. DOMAIN manual.pages = 1..n
  BY <1>1, PagesAre
<1>4. \A k \in 1..n : bs[k] = On(k - 1) /\ k - 1 \in PageNumbers
  BY <1>1, <1>2, <1>3, PagesAre
<1>5. ASSUME NEW k \in 1..n
      PROVE  bs[k] \in Seq(EntrySet) /\ \A x \in ToSet(bs[k]) : x \in EntrySet /\ x.page = k - 1
  <2>1. bs[k] \in Seq(EntrySet) /\ \A x \in ToSet(bs[k]) : x.page = k - 1
    BY <1>4, OnPage
  <2> QED BY <2>1, MembersAre
<1>6. bs \in Seq(Seq(EntrySet)) /\ Len(bs) = n
  <2>1. bs = [k \in 1..n |-> On(k - 1)]
    BY <1>2, <1>3
  <2>2. bs \in [1..n -> Seq(EntrySet)]
    BY <1>4, <1>5, <2>1
  <2> QED BY <1>1, <2>2
<1>7. ASSUME NEW x \in EntrySet, NEW y \in EntrySet, x.page <= y.page
      PROVE  <<x, y>> \in EntryOrder
  <2>1. PICK z : z = <<x, y>>
    OBVIOUS
  <2>2. z \in EntrySet \X EntrySet /\ z[1] = x /\ z[2] = y
    BY <2>1
  <2> QED BY <1>7, <2>1, <2>2 DEF EntryOrder
<1>8. ASSUME NEW k \in 1..n PROVE InPairs(bs[k], EntryOrder)
  <2>1. ASSUME NEW i \in 1..Len(bs[k]), NEW j \in 1..Len(bs[k])
        PROVE  <<bs[k][i], bs[k][j]>> \in EntryOrder
    <3>1. bs[k][i] \in ToSet(bs[k]) /\ bs[k][j] \in ToSet(bs[k])
      BY <1>5, MembersAre
    <3>2. PICK x : x = bs[k][i]
      OBVIOUS
    <3>3. PICK y : y = bs[k][j]
      OBVIOUS
    <3>4. x \in EntrySet /\ y \in EntrySet /\ x.page = k - 1 /\ y.page = k - 1
      BY <1>5, <3>1, <3>2, <3>3
    <3>5. x.page <= y.page
      <4>1. k - 1 <= k - 1
        BY <1>1
      <4> QED BY <3>4, <4>1
    <3> QED BY <1>7, <3>2, <3>3, <3>4, <3>5
  <2> QED BY <2>1 DEF InPairs
<1>9. ASSUME NEW k \in 1..n, NEW l \in 1..n, k < l,
              NEW x \in ToSet(bs[k]), NEW y \in ToSet(bs[l])
      PROVE  <<x, y>> \in EntryOrder
  <2>1. x \in EntrySet /\ y \in EntrySet /\ x.page = k - 1 /\ y.page = l - 1
    BY <1>5
  <2>2. k - 1 <= l - 1
    BY <1>1, <1>9
  <2> QED BY <1>7, <2>1, <2>2
<1>10. FlattenSeq(bs) \in Seq(EntrySet)
  BY <1>6, FlattenHas
<1>11. InPairs(FlattenSeq(bs), EntryOrder)
  BY <1>6, <1>8, <1>9, FlattenPairs
<1>12. Headings = FlattenSeq(bs)
  BY <1>2, Zenon DEF Headings, On
<1> QED BY <1>10, <1>11, <1>12

\* The entries come in page order, from the outline or from the text.
LEMMA EntriesAre ==
  ASSUME manual \in Manual
  PROVE  Entries \in Seq(EntrySet) /\ InPairs(Entries, EntryOrder)
BY ValidAre, OrderedPairs, HeadingsAre DEF Entries

AnchorSet == [page: PageNumbers, offset: Nat]

\* Anchors are in page order and on their pages, and those of a page of which it is clear
\* where its sections begin one after the other.
AnchorsOf(a, n) ==
  /\ n \in Nat /\ a \in Seq(AnchorSet) /\ Len(a) = n /\ DOMAIN a = 1..n
  /\ \A i \in 1..n : /\ a[i] \in AnchorSet /\ a[i].page \in Nat /\ a[i].offset \in Nat
                     /\ a[i].offset <= Len(Page(a[i].page).text)
  /\ \A i, j \in 1..n : i < j => a[i].page <= a[j].page

ClearPage(a, n, p) ==
  \A i, j \in 1..n : i < j /\ a[i].page = p /\ a[j].page = p => a[i].offset < a[j].offset

\* The anchor of an entry is on its page, and within its text.
LEMMA AnchorIs ==
  ASSUME manual \in Manual, NEW n, n = Len(Entries), NEW a, a = Anchors
  PROVE  /\ n \in Nat /\ DOMAIN Entries = 1..n
         /\ \A i \in 1..n : /\ Entries[i] \in EntrySet /\ a[i] \in AnchorSet
                            /\ a[i].page = Entries[i].page /\ a[i].page \in Nat
                            /\ a[i].offset <= Len(Page(a[i].page).text)
<1>1. PICK e : e = Entries
  OBVIOUS
<1>2. e \in Seq(EntrySet)
  BY <1>1, EntriesAre
<1>3. n \in Nat /\ DOMAIN e = 1..n
  BY <1>1, <1>2
<1>4. a = [i \in 1..n |-> [page |-> e[i].page,
                           offset |-> IF Exact(e[i]) THEN e[i].at ELSE 0]]
  BY <1>1, <1>3, Zenon DEF Anchors
<1>5. ASSUME NEW i \in 1..n
      PROVE  /\ e[i] \in EntrySet /\ a[i] \in AnchorSet
             /\ a[i].page = e[i].page /\ a[i].page \in Nat
             /\ a[i].offset <= Len(Page(a[i].page).text)
  <2>1. PICK x : x = e[i]
    OBVIOUS
  <2>2. x \in EntrySet
    BY <1>1, <1>2, <2>1, MembersAre
  <2>3. x.page \in PageNumbers /\ x.at \in Nat
    BY <2>2 DEF EntrySet
  <2>4. PICK y : y = IF Exact(x) THEN x.at ELSE 0
    OBVIOUS
  <2>5. PICK len : len = Len(Page(x.page).text) /\ len \in Nat
    <3>1. Page(x.page).text \in Seq(Letters)
      BY <2>3, PagesAre DEF PageType
    <3> QED BY <3>1
  <2>6. y \in Nat /\ y <= len
    <3>1. CASE Exact(x)
      <4>1. x.at < len
        BY <2>5, <3>1 DEF Exact
      <4> QED BY <2>3, <2>4, <2>5, <3>1, <4>1
    <3>2. CASE ~Exact(x)
      BY <2>4, <2>5, <3>2
    <3> QED BY <3>1, <3>2
  <2>7. a[i] = [page |-> x.page, offset |-> y]
    BY <1>4, <2>1, <2>4
  <2>8. a[i].page = x.page /\ a[i].offset = y
    BY <2>7
  <2>9. a[i] \in AnchorSet
    BY <2>3, <2>6, <2>7 DEF AnchorSet
  <2>10. x.page \in Nat
    BY <2>3, PagesAre
  <2> QED BY <2>1, <2>2, <2>5, <2>6, <2>8, <2>9, <2>10
<1> QED BY <1>1, <1>3, <1>5

\* The anchors of a manual.
LEMMA AnchorsAre ==
  ASSUME manual \in Manual, NEW n, n = Len(Entries)
  PROVE  AnchorsOf(Anchors, n)
<1>1. PICK a : a = Anchors
  OBVIOUS
<1>2. /\ n \in Nat /\ DOMAIN Entries = 1..n
      /\ \A i \in 1..n : /\ Entries[i] \in EntrySet /\ a[i] \in AnchorSet
                         /\ a[i].page = Entries[i].page /\ a[i].page \in Nat
                         /\ a[i].offset <= Len(Page(a[i].page).text)
  BY <1>1, AnchorIs
<1>3. DOMAIN a = 1..n /\ a = [i \in 1..n |-> a[i]]
  BY <1>1, <1>2 DEF Anchors
<1>4. a \in Seq(AnchorSet) /\ Len(a) = n
  <2>1. a \in [1..n -> AnchorSet]
    BY <1>2, <1>3
  <2> QED BY <1>2, <2>1
<1>5. ASSUME NEW i \in 1..n, NEW j \in 1..n, i < j PROVE a[i].page <= a[j].page
  <2>1. InPairs(Entries, EntryOrder)
    BY EntriesAre
  <2>2. <<Entries[i], Entries[j]>> \in EntryOrder
    BY <1>2, <1>5, <2>1 DEF InPairs
  <2>3. PICK x : x = <<Entries[i], Entries[j]>>
    OBVIOUS
  <2>4. x[1] = Entries[i] /\ x[2] = Entries[j]
    BY <2>3
  <2>5. x[1].page <= x[2].page
    BY <2>2, <2>3 DEF EntryOrder
  <2> QED BY <1>2, <2>4, <2>5
<1>6. \A i \in 1..n : a[i].offset \in Nat
  BY <1>2 DEF AnchorSet
<1> QED BY <1>1, <1>2, <1>3, <1>4, <1>5, <1>6 DEF AnchorsOf

\* On a page that is not ambiguous the anchors come one after the other.
LEMMA ClearAre ==
  ASSUME manual \in Manual, NEW n, n = Len(Entries), NEW p \in PageNumbers, p \notin Ambiguous
  PROVE  ClearPage(Anchors, n, p)
<1>1. PICK a : a = Anchors
  OBVIOUS
<1>2. /\ n \in Nat /\ DOMAIN Entries = 1..n /\ \A i \in 1..n : a[i].page = Entries[i].page
  BY <1>1, AnchorIs
<1>3. /\ \A i \in 1..n : a[i].page \in Nat /\ a[i].offset \in Nat
      /\ \A i, j \in 1..n : i < j => a[i].page <= a[j].page
  BY <1>1, AnchorsAre DEF AnchorsOf
<1>30. p \in Nat
  BY PagesAre
<1>4. ASSUME NEW k \in 1..n, k + 1 \in 1..n, a[k].page = p, a[k + 1].page = p
      PROVE  a[k].offset < a[k + 1].offset
  <2>1. Entries[k].page = p /\ Entries[k + 1].page = p /\ k # k + 1
    BY <1>2, <1>4
  <2>2. ~(a[k].offset >= a[k + 1].offset)
    <3> SUFFICES ASSUME a[k].offset >= a[k + 1].offset PROVE p \in Ambiguous
      OBVIOUS
    <3>1. k + 1 \in DOMAIN Entries /\ k \in DOMAIN Entries
      BY <1>2, <1>4
    <3> QED BY <1>1, <2>1, <3>1, Zenon DEF Ambiguous
  <2> QED BY <1>3, <1>4, <2>2
<1> DEFINE G == {j \in 0..n : \A i \in 1..n : i < j /\ a[i].page = p /\ a[j].page = p
                                              => a[i].offset < a[j].offset}
<1>5. 0 \in G
  BY <1>2
<1>6. ASSUME NEW j \in 1..n, j - 1 \in G PROVE j \in G
  <2>1. ASSUME NEW i \in 1..n, i < j, a[i].page = p, a[j].page = p
        PROVE  a[i].offset < a[j].offset
    <3>1. PICK k : k = j - 1
      OBVIOUS
    <3>2. k \in 1..n /\ k + 1 = j /\ k < j /\ (i = k \/ i < k)
      BY <1>2, <2>1, <3>1
    <3>3. a[k].page = p
      <4>1. CASE i = k
        BY <2>1, <4>1
      <4>2. CASE i < k
        <5>1. a[i].page <= a[k].page /\ a[k].page <= a[j].page
          BY <1>3, <3>2, <4>2
        <5>2. a[k].page \in Nat
          BY <1>3, <3>2
        <5> QED BY <1>30, <2>1, <5>1, <5>2
      <4> QED BY <3>2, <4>1, <4>2
    <3>4. a[k].offset < a[j].offset
      <4> HIDE DEF G
      <4> QED BY <1>4, <2>1, <3>2, <3>3
    <3>5. CASE i = k
      BY <3>4, <3>5
    <3>6. CASE i < k
      <4>1. a[i].offset < a[k].offset
        BY <1>6, <2>1, <3>1, <3>3, <3>6
      <4>2. a[i].offset \in Nat /\ a[k].offset \in Nat /\ a[j].offset \in Nat
        BY <1>3, <3>2
      <4> QED BY <3>4, <4>1, <4>2
    <3> QED BY <3>2, <3>5, <3>6
  <2>2. j \in 0..n
    BY <1>2
  <2> QED BY <2>1, <2>2
<1> HIDE DEF G
<1>7. \A j \in 0..n : j \in G
  BY <1>2, <1>5, <1>6, NumbersAreGood
<1> USE DEF G
<1>8. ASSUME NEW i \in 1..n, NEW j \in 1..n, i < j, a[i].page = p, a[j].page = p
      PROVE  a[i].offset < a[j].offset
  <2>1. j \in 0..n
    BY <1>2
  <2> QED BY <1>7, <1>8, <2>1
<1> QED BY <1>1, <1>8 DEF ClearPage

\* The one that follows all others is the last.
LEMMA LastOfIs ==
  ASSUME NEW a, NEW n, AnchorsOf(a, n), NEW S \in SUBSET (1..n), NEW m \in S,
         \A j \in S \ {m} : Follows(a, m, j)
  PROVE  LastOf(a, S) = m
<1>1. ASSUME NEW i \in S, \A j \in S \ {i} : Follows(a, i, j), i # m PROVE FALSE
  <2>1. Follows(a, i, m) /\ Follows(a, m, i)
    BY <1>1
  <2>2. PICK x : x = a[i].page /\ x \in Nat
    BY DEF AnchorsOf
  <2>3. PICK y : y = a[i].offset /\ y \in Nat
    BY DEF AnchorsOf
  <2>4. PICK u : u = a[m].page /\ u \in Nat
    BY DEF AnchorsOf
  <2>5. PICK v : v = a[m].offset /\ v \in Nat
    BY DEF AnchorsOf
  <2>6. i \in Nat /\ m \in Nat
    BY DEF AnchorsOf
  <2> QED BY <2>1, <2>2, <2>3, <2>4, <2>5, <2>6 DEF Follows
<1>2. S # {}
  OBVIOUS
<1>3. LastOf(a, S) = CHOOSE i \in S : \A j \in S \ {i} : Follows(a, i, j)
  BY <1>2 DEF LastOf
<1> QED BY <1>1, <1>3

-----------------------------------------------------------------------------
(* Stretches of a page *)

SectionSet(sg) == {Carried(sg, p) : p \in PageNumbers} \union DOMAIN sg.anchors
StretchSet(sg) == [section: SectionSet(sg), from: Nat, to: Nat]

\* The stretches of a page leave out none of its text, and the section of a stretch is
\* that of its characters.
StretchesWhole(q, sg, p, len) ==
  /\ q \in Seq(StretchSet(sg)) /\ Len(q) >= 1
  /\ q[1].from = 0 /\ q[Len(q)].to = len
  /\ \A k \in 1..(Len(q) - 1) : q[k].to = q[k + 1].from
  /\ \A k \in 1..Len(q) : q[k].from <= q[k].to
  /\ \A k \in 1..Len(q) : \A c \in q[k].from..(q[k].to - 1) : SectionOf(sg, p, c) = q[k].section

\* Where n + 1 stretches begin, and their sections.
BeginsAt(sg, p, len, n, b, s) ==
  /\ b \in Seq(Nat) /\ Len(b) = n + 1 /\ b[1] = 0
  /\ s \in Seq(SectionSet(sg)) /\ Len(s) = n + 1
  /\ \A k \in 1..n : b[k] <= b[k + 1]
  /\ \A k \in 1..(n + 1) : b[k] <= len
  /\ \A k \in 1..(n + 1) : \A c \in Nat :
       b[k] <= c /\ c < len /\ (k <= n => c < b[k + 1]) => SectionOf(sg, p, c) = s[k]

FromTo(b, s, len) ==
  [k \in DOMAIN b |-> [section |-> s[k], from |-> b[k],
                       to |-> IF k < Len(b) THEN b[k + 1] ELSE len]]

\* Such stretches leave nothing out.
LEMMA StretchesOf ==
  ASSUME NEW sg, NEW p \in PageNumbers, NEW len \in Nat, NEW n \in Nat, NEW b, NEW s,
         BeginsAt(sg, p, len, n, b, s), NEW q, q = FromTo(b, s, len)
  PROVE  StretchesWhole(q, sg, p, len)
<1>0. /\ b \in Seq(Nat) /\ Len(b) = n + 1 /\ b[1] = 0
      /\ s \in Seq(SectionSet(sg)) /\ Len(s) = n + 1
      /\ \A k \in 1..n : b[k] <= b[k + 1]
      /\ \A k \in 1..(n + 1) : b[k] <= len
      /\ \A k \in 1..(n + 1) : \A c \in Nat :
           b[k] <= c /\ c < len /\ (k <= n => c < b[k + 1]) => SectionOf(sg, p, c) = s[k]
  BY Zenon DEF BeginsAt
<1>00. q = [k \in DOMAIN b |-> [section |-> s[k], from |-> b[k],
                                to |-> IF k < Len(b) THEN b[k + 1] ELSE len]]
  BY Zenon DEF FromTo
<1>1. DOMAIN b = 1..(n + 1)
  BY <1>0
<1>2. PICK t : t = [k \in 1..(n + 1) |-> IF k <= n THEN b[k + 1] ELSE len]
  OBVIOUS
<1>3. ASSUME NEW k \in 1..(n + 1)
      PROVE  /\ t[k] = (IF k <= n THEN b[k + 1] ELSE len) /\ t[k] \in Nat /\ b[k] \in Nat
             /\ b[k] <= t[k] /\ t[k] <= len
  <2>1. t[k] = IF k <= n THEN b[k + 1] ELSE len
    BY <1>2
  <2>2. b[k] \in Nat
    BY <1>0
  <2>3. CASE k <= n
    <3>1. k \in 1..n /\ k + 1 \in 1..(n + 1)
      BY <2>3
    <3>2. b[k + 1] \in Nat
      BY <1>0, <3>1
    <3> QED BY <1>0, <2>1, <2>2, <2>3, <3>1, <3>2
  <2>4. CASE ~(k <= n)
    BY <1>0, <2>1, <2>2, <2>4
  <2> QED BY <2>3, <2>4
<1>4. \A k \in 1..(n + 1) : k < Len(b) <=> k <= n
  BY <1>0
<1>5. \A k \in 1..(n + 1) : q[k] = [section |-> s[k], from |-> b[k], to |-> t[k]]
  <2> SUFFICES ASSUME NEW k \in 1..(n + 1)
               PROVE  q[k] = [section |-> s[k], from |-> b[k], to |-> t[k]]
    OBVIOUS
  <2>1. t[k] = IF k < Len(b) THEN b[k + 1] ELSE len
    BY <1>3, <1>4
  <2> QED BY <1>00, <1>1, <2>1, Zenon
<1>6. \A k \in 1..(n + 1) : q[k].section = s[k] /\ q[k].from = b[k] /\ q[k].to = t[k]
  <2> SUFFICES ASSUME NEW k \in 1..(n + 1)
               PROVE  q[k].section = s[k] /\ q[k].from = b[k] /\ q[k].to = t[k]
    OBVIOUS
  <2>1. PICK x : x = q[k]
    OBVIOUS
  <2>2. x = [section |-> s[k], from |-> b[k], to |-> t[k]]
    BY <1>5, <2>1, Zenon
  <2> QED BY <2>1, <2>2
<1>7. \A k \in 1..(n + 1) : s[k] \in SectionSet(sg)
  BY <1>0, MembersAre
<1>8. q \in Seq(StretchSet(sg)) /\ Len(q) = n + 1
  <2>1. \A k \in 1..(n + 1) : q[k] \in StretchSet(sg)
    <3> SUFFICES ASSUME NEW k \in 1..(n + 1) PROVE q[k] \in StretchSet(sg)
      OBVIOUS
    <3>1. b[k] \in Nat /\ t[k] \in Nat /\ s[k] \in SectionSet(sg)
      BY <1>3, <1>7
    <3>2. PICK Q : Q = SectionSet(sg)
      OBVIOUS
    <3>3. PICK x : x = q[k]
      OBVIOUS
    <3>4. x = [section |-> s[k], from |-> b[k], to |-> t[k]]
      BY <1>5, <3>3, Zenon
    <3>5. x \in [section: Q, from: Nat, to: Nat]
      BY <3>1, <3>2, <3>4
    <3> QED BY <3>2, <3>3, <3>5 DEF StretchSet
  <2>2. PICK Q : Q = StretchSet(sg)
    OBVIOUS
  <2>3. q \in [1..(n + 1) -> Q]
    BY <1>00, <1>1, <2>1, <2>2
  <2> QED BY <2>2, <2>3
<1>9. ASSUME NEW k \in 1..(n + 1), NEW c \in q[k].from..(q[k].to - 1)
      PROVE  SectionOf(sg, p, c) = q[k].section
  <2>1. b[k] \in Nat /\ t[k] \in Nat /\ t[k] <= len /\ c \in b[k]..(t[k] - 1)
    BY <1>3, <1>6
  <2>2. c \in Nat /\ b[k] <= c /\ c < len /\ c < t[k]
    BY <2>1
  <2>3. k <= n => c < b[k + 1]
    BY <1>3, <2>2
  <2>4. SectionOf(sg, p, c) = s[k]
    BY <1>0, <2>2, <2>3
  <2> QED BY <1>6, <2>4
<1>10. q[1].from = 0 /\ q[n + 1].to = len
  <2>1. 1 \in 1..(n + 1) /\ n + 1 \in 1..(n + 1) /\ ~(n + 1 <= n)
    OBVIOUS
  <2> QED BY <1>0, <1>3, <1>6, <2>1
<1>11. \A k \in 1..((n + 1) - 1) : q[k].to = q[k + 1].from
  <2> SUFFICES ASSUME NEW k \in 1..((n + 1) - 1) PROVE q[k].to = q[k + 1].from
    OBVIOUS
  <2>1. k \in 1..(n + 1) /\ k + 1 \in 1..(n + 1) /\ k <= n
    OBVIOUS
  <2> QED BY <1>3, <1>6, <2>1
<1>12. \A k \in 1..(n + 1) : q[k].from <= q[k].to
  BY <1>3, <1>6
<1>13. n + 1 >= 1
  OBVIOUS
<1> QED BY <1>8, <1>9, <1>10, <1>11, <1>12, <1>13 DEF StretchesWhole

\* The anchors at or before a character.
Before(a, p, c) ==
  {i \in DOMAIN a : a[i].page < p \/ (a[i].page = p /\ a[i].offset <= c)}

AnchorsOn(a, n, p) == {i \in 1..n : a[i].page = p}

\* On a page of which it is clear where its sections begin: local are the places of its
\* anchors.
LEMMA SectionsOfPage ==
  ASSUME NEW a, NEW n, AnchorsOf(a, n), NEW p \in Nat, ClearPage(a, n, p),
         NEW local, AscendingOf(local, AnchorsOn(a, n, p)),
         NEW k \in 1..Len(local), NEW c \in Nat, a[local[k]].offset <= c,
         k < Len(local) => c < a[local[k + 1]].offset
  PROVE  LastOf(a, Before(a, p, c)) = local[k]
<1>1. /\ n \in Nat /\ DOMAIN a = 1..n
      /\ \A i \in 1..n : a[i].page \in Nat /\ a[i].offset \in Nat
  BY DEF AnchorsOf
<1>20. PICK L : L = AnchorsOn(a, n, p)
  OBVIOUS
<1>21. L = {i \in 1..n : a[i].page = p}
  BY <1>20 DEF AnchorsOn
<1>22. AscendingOf(local, L)
  BY <1>20
<1>2. PICK m : m = Len(local) /\ m \in Nat
  <2>1. local \in Seq(L)
    BY <1>22 DEF AscendingOf
  <2> QED BY <2>1
<1>3. /\ \A i \in 1..m : local[i] \in L /\ local[i] \in 1..n /\ a[local[i]].page = p
      /\ \A i, j \in 1..m : i < j => local[i] < local[j]
      /\ \A i \in L : \E j \in 1..m : local[j] = i
  BY <1>2, <1>21, <1>22, MembersAre, ZenonT(60) DEF AscendingOf
<1>40. PICK S : S = Before(a, p, c)
  OBVIOUS
<1>4. S = {i \in DOMAIN a : a[i].page < p \/ (a[i].page = p /\ a[i].offset <= c)}
  BY <1>40 DEF Before
<1>5. PICK x : x = local[k]
  OBVIOUS
<1>6. x \in S /\ x \in 1..n /\ a[x].page = p /\ k \in 1..m /\ a[x].offset <= c
  BY <1>1, <1>2, <1>3, <1>4, <1>5
<1>7. S \in SUBSET (1..n)
  BY <1>1, <1>4
<1>8. ASSUME NEW j \in S \ {x} PROVE Follows(a, x, j)
  <2>1. j \in 1..n /\ (a[j].page < p \/ (a[j].page = p /\ a[j].offset <= c)) /\ a[j].page \in Nat
    BY <1>1, <1>4
  <2>2. CASE a[j].page < p
    BY <1>6, <2>1, <2>2 DEF Follows
  <2>3. CASE a[j].page = p /\ a[j].offset <= c
    <3>1. PICK i \in 1..m : local[i] = j
      BY <1>3, <1>21, <2>1, <2>3
    <3>2. i # k
      BY <1>5, <1>8, <3>1
    <3>3. ~(k < i)
      <4> SUFFICES ASSUME k < i PROVE FALSE
        OBVIOUS
      <4>1. k + 1 \in 1..m /\ k < m /\ (k + 1 = i \/ k + 1 < i)
        BY <1>2, <1>6
      <4>2. c < a[local[k + 1]].offset
        BY <1>2, <4>1
      <4>3. CASE k + 1 = i
        <5>1. c < a[j].offset /\ a[j].offset \in Nat
          BY <1>1, <2>1, <3>1, <4>2, <4>3
        <5> QED BY <2>3, <5>1
      <4>4. CASE k + 1 < i
        <5>1. local[k + 1] < j /\ local[k + 1] \in 1..n /\ a[local[k + 1]].page = p
          BY <1>3, <3>1, <4>1, <4>4
        <5>2. PICK y : y = local[k + 1]
          OBVIOUS
        <5>3. a[y].offset < a[j].offset /\ c < a[y].offset
          BY <2>1, <2>3, <4>2, <5>1, <5>2 DEF ClearPage
        <5>4. a[y].offset \in Nat /\ a[j].offset \in Nat
          BY <1>1, <2>1, <5>1, <5>2
        <5> QED BY <2>3, <5>3, <5>4
      <4> QED BY <4>1, <4>3, <4>4
    <3>4. i < k
      BY <1>2, <1>6, <3>2, <3>3
    <3>5. j < x
      BY <1>3, <1>5, <1>6, <3>1, <3>4
    <3>6. a[j].offset < a[x].offset
      BY <1>6, <2>1, <2>3, <3>5 DEF ClearPage
    <3>7. a[x].offset \in Nat /\ a[j].offset \in Nat
      BY <1>1, <1>6, <2>1
    <3> QED BY <1>6, <2>3, <3>6, <3>7 DEF Follows
  <2> QED BY <2>1, <2>2, <2>3
<1>9. LastOf(a, S) = x
  BY <1>6, <1>7, <1>8, LastOfIs
<1> QED BY <1>5, <1>9, <1>40

\* The stretches of a page, ambiguous or not, leave nothing out.
LEMMA StretchesOfPage ==
  ASSUME manual \in Manual, NEW p \in PageNumbers, NEW sg, sg = Sectioning
  PROVE  StretchesWhole(Stretches(sg, p), sg, p, Len(Page(p).text))
<1>1. PICK n : n = Len(Entries)
  OBVIOUS
<1>2. PICK a : a = Anchors
  OBVIOUS
<1>3. sg.anchors = a /\ sg.ambiguous = Ambiguous
  BY <1>2 DEF Sectioning
<1>4. AnchorsOf(a, n)
  BY <1>1, <1>2, AnchorsAre
<1>5. /\ n \in Nat /\ DOMAIN a = 1..n /\ a \in Seq(AnchorSet)
      /\ \A i \in 1..n : /\ a[i].page \in Nat /\ a[i].offset \in Nat
                         /\ a[i].offset <= Len(Page(a[i].page).text)
  BY <1>4 DEF AnchorsOf
<1>6. PICK len : len = Len(Page(p).text) /\ len \in Nat
  <2>1. Page(p).text \in Seq(Letters)
    BY PagesAre DEF PageType
  <2> QED BY <2>1
<1>7. p \in Nat
  BY PagesAre
<1>8. PICK first : first = Carried(sg, p)
  OBVIOUS
<1>9. first \in SectionSet(sg) /\ \A i \in 1..n : i \in SectionSet(sg)
  BY <1>3, <1>5, <1>8 DEF SectionSet
<1>10. PICK local : local = IF p \in Ambiguous THEN <<>>
                            ELSE Ascending({i \in DOMAIN a : a[i].page = p})
  OBVIOUS
<1>11. PICK offsets : offsets = [k \in DOMAIN local |-> a[local[k]].offset]
  OBVIOUS
<1>12. PICK b : b = <<0>> \o offsets
  OBVIOUS
<1>13. PICK s : s = <<first>> \o local
  OBVIOUS
<1>14. Stretches(sg, p) = FromTo(b, s, len)
  BY <1>3, <1>6, <1>8, <1>10, <1>11, <1>12, <1>13, ZenonT(60) DEF Stretches, FromTo
<1>150. PICK L : L = AnchorsOn(a, n, p)
  OBVIOUS
<1>15. L = {i \in 1..n : a[i].page = p}
  BY <1>150 DEF AnchorsOn
<1>16. /\ local \in Seq(1..n)
       /\ p \in Ambiguous => Len(local) = 0
       /\ p \notin Ambiguous => AscendingOf(local, L)
       /\ \A k \in 1..Len(local) : a[local[k]].page = p
  <2>1. CASE p \in Ambiguous
    <3>1. local = <<>>
      BY <1>10, <2>1
    <3> QED BY <2>1, <3>1
  <2>2. CASE p \notin Ambiguous
    <3>1. local = Ascending(L)
      BY <1>5, <1>10, <1>15, <2>2
    <3>2. L \in SUBSET DOMAIN a
      BY <1>5, <1>15
    <3>3. AscendingOf(local, L) /\ local \in Seq(1..n)
      BY <1>5, <3>1, <3>2, PlacesAre
    <3>4. local \in Seq(L)
      BY <3>3 DEF AscendingOf
    <3>5. \A k \in 1..Len(local) : local[k] \in L
      BY <3>4, MembersAre
    <3> QED BY <1>15, <2>2, <3>3, <3>5
  <2> QED BY <2>1, <2>2
<1>17. PICK m : m = Len(local) /\ m \in Nat
  BY <1>16
<1>18. \A k \in 1..m : local[k] \in 1..n
  BY <1>16, <1>17, MembersAre
<1>19. offsets \in Seq(Nat) /\ Len(offsets) = m /\ \A k \in 1..m : offsets[k] = a[local[k]].offset
  <2>1. DOMAIN local = 1..m
    BY <1>16, <1>17
  <2>2. \A k \in 1..m : offsets[k] = a[local[k]].offset
    BY <1>11, <2>1
  <2>3. \A k \in 1..m : offsets[k] \in Nat
    BY <1>5, <1>18, <2>2
  <2>4. offsets \in [1..m -> Nat]
    BY <1>11, <2>1, <2>3
  <2>5. offsets \in Seq(Nat) /\ Len(offsets) = m
    BY <1>17, <2>4
  <2> QED BY <2>2, <2>5
<1>20. /\ b \in Seq(Nat) /\ Len(b) = m + 1 /\ b[1] = 0
       /\ \A k \in 1..m : b[k + 1] = a[local[k]].offset
  <2>1. 0 \in Nat
    OBVIOUS
  <2>2. /\ b \in Seq(Nat) /\ Len(b) = Len(offsets) + 1 /\ b[1] = 0
        /\ \A k \in 1..Len(offsets) : b[k + 1] = offsets[k]
    BY <1>12, <1>19, <2>1, JoinedFirst
  <2> QED BY <1>19, <2>2
<1>21. /\ s \in Seq(SectionSet(sg)) /\ Len(s) = m + 1 /\ s[1] = first
       /\ \A k \in 1..m : s[k + 1] = local[k]
  <2>1. PICK T : T = SectionSet(sg)
    OBVIOUS
  <2>2. local \in Seq(T)
    <3>1. local \in [1..m -> T]
      BY <1>9, <1>16, <1>17, <1>18, <2>1
    <3> QED BY <1>17, <3>1
  <2>3. /\ s \in Seq(T) /\ Len(s) = Len(local) + 1 /\ s[1] = first
        /\ \A k \in 1..Len(local) : s[k + 1] = local[k]
    BY <1>9, <1>13, <2>1, <2>2, JoinedFirst
  <2> QED BY <1>17, <2>1, <2>3
<1>22. \A k \in 1..m : a[local[k]].offset <= len /\ a[local[k]].offset \in Nat
  BY <1>5, <1>6, <1>16, <1>17, <1>18
<1>23. \A k \in 1..(m + 1) : b[k] <= len
  <2> SUFFICES ASSUME NEW k \in 1..(m + 1) PROVE b[k] <= len
    OBVIOUS
  <2>1. CASE k = 1
    BY <1>6, <1>20, <2>1
  <2>2. CASE k # 1
    <3>1. PICK i : i = k - 1
      OBVIOUS
    <3>2. i \in 1..m /\ i + 1 = k
      BY <1>17, <2>2, <3>1
    <3> QED BY <1>20, <1>22, <3>2
  <2> QED BY <2>1, <2>2
<1>24. \A k \in 1..m : b[k] <= b[k + 1]
  <2> SUFFICES ASSUME NEW k \in 1..m PROVE b[k] <= b[k + 1]
    OBVIOUS
  <2>1. b[k + 1] = a[local[k]].offset /\ a[local[k]].offset \in Nat
    BY <1>20, <1>22
  <2>2. CASE k = 1
    BY <1>20, <2>1, <2>2
  <2>3. CASE k # 1
    <3>1. PICK i : i = k - 1
      OBVIOUS
    <3>2. i \in 1..m /\ i + 1 = k /\ i < k
      BY <1>17, <2>3, <3>1
    <3>3. b[k] = a[local[i]].offset /\ a[local[i]].offset \in Nat
      BY <1>20, <1>22, <3>2
    <3>4. p \notin Ambiguous
      BY <1>16, <1>17
    <3>5. local[i] < local[k]
      BY <1>16, <1>17, <3>2, <3>4 DEF AscendingOf
    <3>6. ClearPage(a, n, p)
      BY <1>1, <1>2, <3>4, ClearAre
    <3>7. a[local[i]].offset < a[local[k]].offset
      BY <1>16, <1>17, <1>18, <3>2, <3>5, <3>6 DEF ClearPage
    <3> QED BY <2>1, <3>3, <3>7
  <2> QED BY <2>2, <2>3
<1>25. ASSUME NEW k \in 1..(m + 1), NEW c \in Nat, b[k] <= c, c < len, k <= m => c < b[k + 1]
       PROVE  SectionOf(sg, p, c) = s[k]
  <2>1. CASE p \in Ambiguous
    <3>1. m = 0 /\ k = 1
      BY <1>16, <1>17, <2>1
    <3>2. SectionOf(sg, p, c) = OwnSection /\ first = OwnSection
      BY <1>3, <1>8, <2>1 DEF SectionOf, Carried
    <3> QED BY <1>21, <3>1, <3>2
  <2>2. CASE p \notin Ambiguous
    <3>1. ClearPage(a, n, p) /\ AscendingOf(local, L)
      BY <1>1, <1>2, <1>16, <2>2, ClearAre
    <3>2. SectionOf(sg, p, c) = LastOf(a, Before(a, p, c))
      BY <1>3, <2>2, Zenon DEF SectionOf, Before
    <3>3. CASE k = 1
      <4>1. ASSUME NEW i \in 1..n, a[i].page = p PROVE ~(a[i].offset <= c)
        <5>1. i \in L
          BY <1>15, <4>1
        <5>2. local \in Seq(L) /\ ToSet(local) = L
          BY <3>1 DEF AscendingOf
        <5>3. PICK j \in 1..m : local[j] = i
          BY <1>17, <5>1, <5>2, MembersAre
        <5>4. 1 \in 1..m /\ 1 <= m
          BY <1>17
        <5>5. c < a[local[1]].offset
          BY <1>20, <1>25, <3>3, <5>4
        <5>6. a[local[1]].offset \in Nat /\ a[i].offset \in Nat
          BY <1>22, <5>3, <5>4
        <5>7. CASE j = 1
          BY <5>3, <5>5, <5>6, <5>7
        <5>8. CASE j # 1
          <6>1. 1 < j
            BY <1>17, <5>8
          <6>2. local[1] < local[j]
            BY <1>17, <3>1, <5>4, <6>1 DEF AscendingOf
          <6>3. a[local[1]].offset < a[i].offset
            BY <1>16, <1>17, <1>18, <3>1, <4>1, <5>3, <5>4, <6>2 DEF ClearPage
          <6> QED BY <5>5, <5>6, <6>3
        <5> QED BY <5>7, <5>8
      <4>2. Before(a, p, c) = {i \in DOMAIN a : a[i].page < p}
        BY <1>5, <4>1 DEF Before
      <4>3. first = LastOf(a, {i \in DOMAIN a : a[i].page < p})
        BY <1>3, <1>8, <2>2 DEF Carried
      <4> QED BY <1>21, <3>2, <3>3, <4>2, <4>3
    <3>4. CASE k # 1
      <4>1. PICK i : i = k - 1
        OBVIOUS
      <4>2. i \in 1..m /\ i + 1 = k /\ (i < m => k <= m /\ k \in 1..m)
        BY <1>17, <3>4, <4>1
      <4>3. a[local[i]].offset <= c
        BY <1>20, <1>25, <4>2
      <4>4. i < m => c < a[local[i + 1]].offset
        BY <1>20, <1>25, <4>2
      <4>5. i \in 1..Len(local) /\ (i < Len(local) => c < a[local[i + 1]].offset)
        BY <1>17, <4>2, <4>4
      <4>6. LastOf(a, Before(a, p, c)) = local[i]
        BY <1>4, <1>7, <1>150, <3>1, <4>3, <4>5, SectionsOfPage
      <4> QED BY <1>21, <3>2, <4>2, <4>6
    <3> QED BY <3>3, <3>4
  <2> QED BY <2>1, <2>2
<1>26. \A k \in 1..(m + 1) : \A c \in Nat :
         b[k] <= c /\ c < len /\ (k <= m => c < b[k + 1]) => SectionOf(sg, p, c) = s[k]
  BY <1>25
<1>27. PICK q : q = Stretches(sg, p)
  OBVIOUS
<1>28. StretchesWhole(q, sg, p, len)
  <2>1. BeginsAt(sg, p, len, m, b, s)
    BY <1>20, <1>21, <1>23, <1>24, <1>26, Zenon DEF BeginsAt
  <2> QED BY <1>6, <1>14, <1>17, <1>27, <2>1, StretchesOf
<1> QED BY <1>6, <1>27, <1>28

-----------------------------------------------------------------------------
(* The chunks of a stretch *)

ChunkSet(sg) == [page: PageNumbers, section: SectionSet(sg), start: Nat, end: Nat]
ChunkOrder(sg) ==
  {x \in ChunkSet(sg) \X ChunkSet(sg) :
     \/ x[1].page < x[2].page
     \/ x[1].page = x[2].page /\ x[1].end <= x[2].start}

\* A chunk of a complete page, not empty, not too long, and without blanks at its ends.
WholeChunk(x, sg) ==
  /\ x \in ChunkSet(sg) /\ Page(x.page).complete /\ x.end - x.start \in 1..MaxChars
  /\ ~Blank(Page(x.page).text[x.start + 1]) /\ ~Blank(Page(x.page).text[x.end])

\* Chunks of one page, or of an earlier and a later one.
LEMMA InOrderIf ==
  ASSUME NEW sg, NEW x \in ChunkSet(sg), NEW y \in ChunkSet(sg),
         x.page < y.page \/ (x.page = y.page /\ x.end <= y.start)
  PROVE  <<x, y>> \in ChunkOrder(sg)
<1>1. PICK z : z = <<x, y>>
  OBVIOUS
<1>2. PICK C : C = ChunkSet(sg)
  OBVIOUS
<1>3. z \in C \X C /\ z[1] = x /\ z[2] = y
  BY <1>1, <1>2
<1> QED BY <1>1, <1>2, <1>3 DEF ChunkOrder

\* The chunks of a stretch.
CutOf(p, st) ==
  LET ranges == Ranges(Page(p).text, st.from, st.to) IN
  [n \in DOMAIN ranges |-> [page |-> p, section |-> st.section,
                            start |-> ranges[n].start, end |-> ranges[n].end]]

\* They are in the section of the stretch, and leave out no word of it.
StretchCut(q, sg, p, st) ==
  /\ q \in Seq(ChunkSet(sg)) /\ InPairs(q, ChunkOrder(sg))
  /\ \A x \in ToSet(q) : /\ WholeChunk(x, sg) /\ x.page = p /\ x.section = st.section
                         /\ st.from <= x.start /\ x.end <= st.to
  /\ \A c \in st.from..(st.to - 1) : ~Blank(Page(p).text[c + 1]) =>
       \E x \in ToSet(q) : c \in x.start..(x.end - 1)

\* A stretch is cut into chunks of its section, without loss.
LEMMA StretchIsCut ==
  ASSUME manual \in Manual, NEW p \in PageNumbers, Page(p).complete, NEW sg,
         NEW st \in StretchSet(sg), st.from <= st.to
  PROVE  StretchCut(CutOf(p, st), sg, p, st)
<1>1. PICK text : text = Page(p).text
  OBVIOUS
<1>2. PICK a : a = st.from /\ a \in Nat
  BY DEF StretchSet
<1>3. PICK b : b = st.to /\ b \in Nat
  BY DEF StretchSet
<1>4. PICK s : s = st.section /\ s \in SectionSet(sg)
  BY DEF StretchSet
<1>5. PICK r : r = Ranges(text, a, b)
  OBVIOUS
<1>6. CutWhole(r, text, a, b)
  BY <1>2, <1>3, <1>5, RangesWhole
<1>7. r \in Seq(Cuts)
  BY <1>6 DEF CutWhole
<1>8. PICK m : m = Len(r) /\ m \in Nat
  BY <1>7
<1>9. DOMAIN r = 1..m
  BY <1>7, <1>8
<1>10. PICK q : q = CutOf(p, st)
  OBVIOUS
<1>11. q = [n \in 1..m |-> [page |-> p, section |-> s, start |-> r[n].start, end |-> r[n].end]]
  BY <1>1, <1>2, <1>3, <1>4, <1>5, <1>9, <1>10, Zenon DEF CutOf
<1>12. ASSUME NEW n \in 1..m
       PROVE  /\ q[n].page = p /\ q[n].section = s
              /\ q[n].start = r[n].start /\ q[n].end = r[n].end
              /\ q[n].start \in Nat /\ q[n].end \in Nat /\ q[n] \in ChunkSet(sg)
              /\ r[n] \in ToSet(r) /\ r[n] \in Cuts
  <2>1. r[n] \in Cuts /\ r[n] \in ToSet(r)
    BY <1>7, <1>8, MembersAre
  <2>2. PICK i : i = r[n].start /\ i \in Nat
    BY <2>1 DEF Cuts
  <2>3. PICK j : j = r[n].end /\ j \in Nat
    BY <2>1 DEF Cuts
  <2>4. PICK x : x = q[n]
    OBVIOUS
  <2>5. x = [page |-> p, section |-> s, start |-> i, end |-> j]
    BY <1>11, <2>2, <2>3, <2>4
  <2>6. PICK Q : Q = SectionSet(sg)
    OBVIOUS
  <2>7. PICK P : P = PageNumbers
    OBVIOUS
  <2>8. x \in [page: P, section: Q, start: Nat, end: Nat]
    BY <1>4, <2>2, <2>3, <2>5, <2>6, <2>7
  <2>9. x \in ChunkSet(sg)
    BY <2>6, <2>7, <2>8 DEF ChunkSet
  <2> QED BY <2>1, <2>2, <2>3, <2>4, <2>5, <2>9
<1>13. q \in Seq(ChunkSet(sg)) /\ Len(q) = m
  <2>1. PICK C : C = ChunkSet(sg)
    OBVIOUS
  <2>2. q \in [1..m -> C]
    BY <1>11, <1>12, <2>1
  <2>3. q \in Seq(C) /\ Len(q) = m
    BY <1>8, <2>2
  <2> QED BY <2>1, <2>3
<1>14. InPairs(q, ChunkOrder(sg))
  <2>1. ASSUME NEW i \in 1..m, NEW j \in 1..m, i < j
        PROVE  <<q[i], q[j]>> \in ChunkOrder(sg)
    <3>1. <<r[i], r[j]>> \in CutOrder
      BY <1>6, <1>8, <2>1 DEF CutWhole, InPairs
    <3>2. PICK z : z = <<r[i], r[j]>>
      OBVIOUS
    <3>3. z[1] = r[i] /\ z[2] = r[j] /\ z[1].end <= z[2].start
      BY <3>1, <3>2 DEF CutOrder
    <3>4. PICK x : x = q[i]
      OBVIOUS
    <3>5. PICK y : y = q[j]
      OBVIOUS
    <3>6. x.page = y.page /\ x.end <= y.start /\ x \in ChunkSet(sg) /\ y \in ChunkSet(sg)
      BY <1>12, <3>3, <3>4, <3>5
    <3> QED BY <3>4, <3>5, <3>6, InOrderIf
  <2> QED BY <1>13, <2>1 DEF InPairs
<1>15. ASSUME NEW x \in ToSet(q)
       PROVE  /\ WholeChunk(x, sg) /\ x.page = p /\ x.section = s
              /\ a <= x.start /\ x.end <= b
  <2>1. PICK n \in 1..m : q[n] = x
    BY <1>13, MembersAre
  <2>2. WholeCut(r[n], text, a, b)
    BY <1>6, <1>12 DEF CutWhole
  <2>3. /\ x.page = p /\ x.section = s /\ x.start = r[n].start /\ x.end = r[n].end
        /\ x \in ChunkSet(sg)
    BY <1>12, <2>1
  <2>4. /\ a <= x.start /\ x.end <= b /\ x.end - x.start \in 1..MaxChars
        /\ ~Blank(text[x.start + 1]) /\ ~Blank(text[x.end])
    BY <2>2, <2>3 DEF WholeCut
  <2> QED BY <1>1, <2>3, <2>4 DEF WholeChunk
<1>16. ASSUME NEW c \in a..(b - 1), ~Blank(text[c + 1])
       PROVE  \E x \in ToSet(q) : c \in x.start..(x.end - 1)
  <2>1. PICK y \in ToSet(r) : c \in y.start..(y.end - 1)
    BY <1>6, <1>16 DEF CutWhole
  <2>2. PICK n \in 1..m : r[n] = y
    BY <1>7, <1>8, MembersAre
  <2>3. q[n] \in ToSet(q)
    BY <1>13, MembersAre
  <2>4. q[n].start = y.start /\ q[n].end = y.end
    BY <1>12, <2>2
  <2> QED BY <2>1, <2>3, <2>4
<1>17. StretchCut(q, sg, p, st)
  BY <1>1, <1>2, <1>3, <1>4, <1>13, <1>14, <1>15, <1>16 DEF StretchCut
<1> QED BY <1>10, <1>17

-----------------------------------------------------------------------------
(* A page *)

\* Stretches come one after the other, and each character is in one.
LEMMA StretchesCover ==
  ASSUME NEW q, NEW sg, NEW p, NEW len \in Nat, StretchesWhole(q, sg, p, len)
  PROVE  /\ \A k, l \in 1..Len(q) : k < l => q[k].to <= q[l].from
         /\ \A c \in 0..(len - 1) : \E k \in 1..Len(q) : c \in q[k].from..(q[k].to - 1)
<1>1. PICK n : n = Len(q) /\ n \in Nat /\ n >= 1
  BY DEF StretchesWhole
<1>2. ASSUME NEW k \in 1..n
      PROVE  q[k].from \in Nat /\ q[k].to \in Nat /\ q[k].from <= q[k].to
  <2>1. q[k] \in StretchSet(sg)
    BY <1>1, MembersAre DEF StretchesWhole
  <2> QED BY <1>1, <2>1 DEF StretchesWhole, StretchSet
<1>3. /\ \A k \in 1..(n - 1) : q[k].to = q[k + 1].from
      /\ q[1].from = 0 /\ q[n].to = len
  BY <1>1 DEF StretchesWhole
<1> DEFINE G == {l \in 0..n : \A k \in 1..n : k < l => q[k].to <= q[l].from}
<1>4. 0 \in G
  BY <1>1
<1>5. ASSUME NEW l \in 1..n, l - 1 \in G PROVE l \in G
  <2>1. ASSUME NEW k \in 1..n, k < l PROVE q[k].to <= q[l].from
    <3>1. PICK m : m = l - 1
      OBVIOUS
    <3>2. m \in 1..(n - 1) /\ m \in 1..n /\ m + 1 = l /\ (k = m \/ k < m)
      BY <1>1, <2>1, <3>1
    <3>3. q[m].to = q[l].from
      BY <1>3, <3>2
    <3>4. CASE k = m
      BY <1>2, <3>3, <3>4
    <3>5. CASE k < m
      <4>1. q[k].to <= q[m].from
        BY <1>5, <3>1, <3>5
      <4>2. PICK u : u = q[k].to /\ u \in Nat
        BY <1>2
      <4>3. PICK v : v = q[m].from /\ v \in Nat
        BY <1>2, <3>2
      <4>4. PICK w : w = q[m].to /\ w \in Nat /\ v <= w
        BY <1>2, <3>2, <4>3
      <4> QED BY <3>3, <4>1, <4>2, <4>3, <4>4
    <3> QED BY <3>2, <3>4, <3>5
  <2>2. l \in 0..n
    BY <1>1
  <2> QED BY <2>1, <2>2
<1> HIDE DEF G
<1>6. \A l \in 0..n : l \in G
  BY <1>1, <1>4, <1>5, NumbersAreGood
<1> USE DEF G
<1>7. ASSUME NEW k \in 1..n, NEW l \in 1..n, k < l PROVE q[k].to <= q[l].from
  <2>1. l \in 0..n
    BY <1>1
  <2> QED BY <1>6, <1>7, <2>1
<1> HIDE DEF G
<1>8. ASSUME NEW c \in 0..(len - 1) PROVE \E k \in 1..n : c \in q[k].from..(q[k].to - 1)
  <2>1. PICK S : S = {k \in 1..n : q[k].from <= c}
    OBVIOUS
  <2>2. S \in SUBSET (0..n) /\ 1 \in S
    BY <1>1, <1>3, <2>1
  <2>3. PICK k \in S : \A l \in S : l <= k
    BY <1>1, <2>2, GreatestExists
  <2>4. k \in 1..n /\ q[k].from <= c
    BY <2>1
  <2>5. c < q[k].to
    <3>1. CASE k = n
      BY <1>3, <3>1
    <3>2. CASE k # n
      <4>1. k \in 1..(n - 1) /\ k + 1 \in 1..n /\ ~(k + 1 <= k)
        BY <1>1, <2>4, <3>2
      <4>2. ~(q[k + 1].from <= c)
        BY <2>1, <2>3, <4>1
      <4>3. q[k + 1].from \in Nat
        BY <1>2, <4>1
      <4> QED BY <1>3, <4>1, <4>2, <4>3
    <3> QED BY <3>1, <3>2
  <2>6. q[k].from \in Nat /\ q[k].to \in Nat
    BY <1>2, <2>4
  <2> QED BY <2>4, <2>5, <2>6
<1> QED BY <1>1, <1>7, <1>8

\* The chunks of a page are in order, and those of a complete page leave out no word of it.
PageWhole(q, sg, p) ==
  /\ q \in Seq(ChunkSet(sg)) /\ InPairs(q, ChunkOrder(sg))
  /\ \A x \in ToSet(q) : WholeChunk(x, sg) /\ x.page = p
  /\ Page(p).complete =>
       \A c \in 0..(Len(Page(p).text) - 1) : ~Blank(Page(p).text[c + 1]) =>
         \E x \in ToSet(q) : c \in x.start..(x.end - 1) /\ x.section = SectionOf(sg, p, c)

\* A complete page is cut without loss, and of others there are no chunks.
LEMMA PageIsCut ==
  ASSUME manual \in Manual, NEW p \in PageNumbers, NEW sg, sg = Sectioning
  PROVE  PageWhole(ChunksOfPage(sg, p), sg, p)
<1>1. CASE ~Page(p).complete
  <2>1. PICK z : z = <<>>
    OBVIOUS
  <2>2. z \in Seq(ChunkSet(sg)) /\ ToSet(z) = {} /\ Len(z) = 0
    BY <2>1 DEF ToSet
  <2>3. 1..Len(z) = {}
    BY <2>2
  <2>4. InPairs(z, ChunkOrder(sg))
    BY <2>3 DEF InPairs
  <2>5. ChunksOfPage(sg, p) = z
    BY <1>1, <2>1, Zenon DEF ChunksOfPage
  <2>6. PageWhole(z, sg, p)
    BY <1>1, <2>2, <2>4, Zenon DEF PageWhole
  <2> QED BY <2>5, <2>6
<1>2. CASE Page(p).complete
  <2>1. PICK st : st = Stretches(sg, p)
    OBVIOUS
  <2>2. PICK text : text = Page(p).text
    OBVIOUS
  <2>3. PICK len : len = Len(text) /\ len \in Nat
    <3>1. text \in Seq(Letters)
      BY <2>2, PagesAre DEF PageType
    <3> QED BY <3>1
  <2>4. StretchesWhole(st, sg, p, len)
    BY <2>1, <2>2, <2>3, StretchesOfPage
  <2>5. PICK n : n = Len(st) /\ n \in Nat
    BY <2>4 DEF StretchesWhole
  <2>6. /\ DOMAIN st = 1..n /\ \A k \in 1..n : st[k] \in StretchSet(sg)
        /\ \A k \in 1..n : st[k].from \in Nat /\ st[k].to \in Nat /\ st[k].from <= st[k].to
    <3>1. st \in Seq(StretchSet(sg)) /\ \A k \in 1..n : st[k].from <= st[k].to
      BY <2>4, <2>5 DEF StretchesWhole
    <3>2. DOMAIN st = 1..n /\ \A k \in 1..n : st[k] \in StretchSet(sg)
      BY <2>5, <3>1, MembersAre
    <3>3. \A k \in 1..n : st[k].from \in Nat /\ st[k].to \in Nat
      BY <3>2 DEF StretchSet
    <3> QED BY <3>1, <3>2, <3>3
  <2>7. PICK bs : bs = [k \in DOMAIN st |-> CutOf(p, st[k])]
    OBVIOUS
  <2>8. ChunksOfPage(sg, p) = FlattenSeq(bs)
    BY <1>2, <2>1, <2>7, Zenon DEF ChunksOfPage, CutOf
  <2>9. \A k \in 1..n : bs[k] = CutOf(p, st[k])
    BY <2>6, <2>7
  <2>10. ASSUME NEW k \in 1..n PROVE StretchCut(bs[k], sg, p, st[k])
    BY <1>2, <2>6, <2>9, StretchIsCut
  <2>11. PICK C : C = ChunkSet(sg)
    OBVIOUS
  <2>12. PICK R : R = ChunkOrder(sg)
    OBVIOUS
  <2>13. \A k \in 1..n : bs[k] \in Seq(C) /\ InPairs(bs[k], R)
    BY <2>10, <2>11, <2>12 DEF StretchCut
  <2>14. bs \in Seq(Seq(C)) /\ Len(bs) = n
    <3>1. bs \in [1..n -> Seq(C)]
      BY <2>6, <2>7, <2>13
    <3> QED BY <2>5, <3>1
  <2>15. PICK q : q = FlattenSeq(bs)
    OBVIOUS
  <2>16. q \in Seq(C) /\ \A x : x \in ToSet(q) <=> \E k \in 1..n : x \in ToSet(bs[k])
    BY <2>14, <2>15, FlattenHas
  <2>17. /\ \A k, l \in 1..n : k < l => st[k].to <= st[l].from
         /\ \A c \in 0..(len - 1) : \E k \in 1..n : c \in st[k].from..(st[k].to - 1)
    BY <2>3, <2>4, <2>5, StretchesCover
  <2>18. ASSUME NEW k \in 1..n, NEW x \in ToSet(bs[k])
         PROVE  /\ WholeChunk(x, sg) /\ x.page = p /\ x.section = st[k].section
                /\ st[k].from <= x.start /\ x.end <= st[k].to
                /\ x \in C /\ x.start \in Nat /\ x.end \in Nat
    <3>1. /\ WholeChunk(x, sg) /\ x.page = p /\ x.section = st[k].section
          /\ st[k].from <= x.start /\ x.end <= st[k].to
      BY <2>10 DEF StretchCut
    <3>2. x \in ChunkSet(sg)
      BY <3>1 DEF WholeChunk
    <3>3. x.start \in Nat /\ x.end \in Nat
      BY <3>2 DEF ChunkSet
    <3> QED BY <2>11, <3>1, <3>2, <3>3
  <2>19. ASSUME NEW k \in 1..n, NEW l \in 1..n, k < l,
              NEW x \in ToSet(bs[k]), NEW y \in ToSet(bs[l])
         PROVE  <<x, y>> \in R
    <3>1. PICK u : u = st[k].to /\ u \in Nat
      BY <2>6
    <3>2. PICK v : v = st[l].from /\ v \in Nat
      BY <2>6
    <3>3. u <= v
      BY <2>17, <2>19, <3>1, <3>2
    <3>4. x.end <= u /\ x.end \in Nat /\ x.page = p /\ x \in C
      BY <2>18, <3>1
    <3>5. v <= y.start /\ y.start \in Nat /\ y.page = p /\ y \in C
      BY <2>18, <3>2
    <3>6. x.end <= y.start
      BY <3>1, <3>2, <3>3, <3>4, <3>5
    <3> QED BY <2>11, <2>12, <3>4, <3>5, <3>6, InOrderIf
  <2>20. InPairs(q, R)
    BY <2>13, <2>14, <2>15, <2>19, FlattenPairs
  <2>21. ASSUME NEW x \in ToSet(q) PROVE WholeChunk(x, sg) /\ x.page = p
    <3>1. PICK k \in 1..n : x \in ToSet(bs[k])
      BY <2>16
    <3> QED BY <2>18, <3>1
  <2>22. ASSUME NEW c \in 0..(len - 1), ~Blank(text[c + 1])
         PROVE  \E x \in ToSet(q) : c \in x.start..(x.end - 1) /\ x.section = SectionOf(sg, p, c)
    <3>1. PICK k \in 1..n : c \in st[k].from..(st[k].to - 1)
      BY <2>17
    <3>2. PICK x \in ToSet(bs[k]) : c \in x.start..(x.end - 1)
      BY <2>2, <2>10, <2>22, <3>1 DEF StretchCut
    <3>3. x.section = st[k].section
      BY <2>18
    <3>4. SectionOf(sg, p, c) = st[k].section
      BY <2>4, <2>5, <3>1 DEF StretchesWhole
    <3>5. x \in ToSet(q)
      BY <2>16
    <3> QED BY <3>2, <3>3, <3>4, <3>5
  <2>23. PageWhole(q, sg, p)
    BY <2>2, <2>3, <2>11, <2>12, <2>16, <2>20, <2>21, <2>22 DEF PageWhole
  <2> QED BY <2>8, <2>15, <2>23
<1> QED BY <1>1, <1>2

-----------------------------------------------------------------------------
(* A manual *)

\* The chunks of a manual are in order, and leave out no word of the complete pages.
ManualWhole(q, sg) ==
  /\ q \in Seq(ChunkSet(sg)) /\ InPairs(q, ChunkOrder(sg))
  /\ \A x \in ToSet(q) : WholeChunk(x, sg)
  /\ \A p \in PageNumbers : Page(p).complete =>
       \A c \in 0..(Len(Page(p).text) - 1) : ~Blank(Page(p).text[c + 1]) =>
         \E x \in ToSet(q) : /\ x.page = p /\ c \in x.start..(x.end - 1)
                             /\ x.section = SectionOf(sg, p, c)

\* What build_chunks makes of a manual: its pages, one after the other.
LEMMA ManualIsCut ==
  ASSUME manual \in Manual, NEW sg, sg = Sectioning
  PROVE  ManualWhole(BuildChunks(sg), sg)
<1>1. PICK n : n = Len(manual.pages) /\ n \in Nat
  BY PagesAre
<1>2. DOMAIN manual.pages = 1..n /\ \A k \in 1..n : k - 1 \in PageNumbers
  BY <1>1, PagesAre
<1>3. \A p \in PageNumbers : p \in Nat /\ p + 1 \in 1..n
  BY <1>1, PagesAre
<1>4. PICK bs : bs = [k \in DOMAIN manual.pages |-> ChunksOfPage(sg, k - 1)]
  OBVIOUS
<1>5. BuildChunks(sg) = FlattenSeq(bs)
  BY <1>4, Zenon DEF BuildChunks
<1>6. ASSUME NEW k \in 1..n PROVE PageWhole(bs[k], sg, k - 1)
  <2>1. bs[k] = ChunksOfPage(sg, k - 1) /\ k - 1 \in PageNumbers
    BY <1>2, <1>4
  <2> QED BY <2>1, PageIsCut
<1>7. PICK C : C = ChunkSet(sg)
  OBVIOUS
<1>8. PICK R : R = ChunkOrder(sg)
  OBVIOUS
<1>9. \A k \in 1..n : bs[k] \in Seq(C) /\ InPairs(bs[k], R)
  BY <1>6, <1>7, <1>8 DEF PageWhole
<1>10. bs \in Seq(Seq(C)) /\ Len(bs) = n
  <2>1. bs \in [1..n -> Seq(C)]
    BY <1>2, <1>4, <1>9
  <2> QED BY <1>1, <2>1
<1>11. PICK q : q = FlattenSeq(bs)
  OBVIOUS
<1>12. q \in Seq(C) /\ \A x : x \in ToSet(q) <=> \E k \in 1..n : x \in ToSet(bs[k])
  BY <1>10, <1>11, FlattenHas
<1>13. ASSUME NEW k \in 1..n, NEW x \in ToSet(bs[k])
       PROVE  WholeChunk(x, sg) /\ x.page = k - 1 /\ x \in C
  <2>1. WholeChunk(x, sg) /\ x.page = k - 1
    BY <1>6 DEF PageWhole
  <2> QED BY <1>7, <2>1 DEF WholeChunk
<1>14. ASSUME NEW k \in 1..n, NEW l \in 1..n, k < l,
              NEW x \in ToSet(bs[k]), NEW y \in ToSet(bs[l])
       PROVE  <<x, y>> \in R
  <2>1. x.page = k - 1 /\ y.page = l - 1 /\ x \in C /\ y \in C
    BY <1>13
  <2>2. k - 1 < l - 1
    BY <1>1, <1>14
  <2>3. x.page < y.page
    BY <2>1, <2>2
  <2> QED BY <1>7, <1>8, <2>1, <2>3, InOrderIf
<1>15. InPairs(q, R)
  BY <1>9, <1>10, <1>11, <1>14, FlattenPairs
<1>16. ASSUME NEW x \in ToSet(q) PROVE WholeChunk(x, sg)
  <2>1. PICK k \in 1..n : x \in ToSet(bs[k])
    BY <1>12
  <2> QED BY <1>13, <2>1
<1>17. ASSUME NEW p \in PageNumbers, Page(p).complete, NEW c \in 0..(Len(Page(p).text) - 1),
              ~Blank(Page(p).text[c + 1])
       PROVE  \E x \in ToSet(q) : /\ x.page = p /\ c \in x.start..(x.end - 1)
                                  /\ x.section = SectionOf(sg, p, c)
  <2>1. PICK k : k = p + 1
    OBVIOUS
  <2>2. k \in 1..n /\ k - 1 = p
    BY <1>1, <1>3, <2>1
  <2>3. PageWhole(bs[k], sg, p)
    BY <1>6, <2>2
  <2>4. PICK x \in ToSet(bs[k]) : c \in x.start..(x.end - 1) /\ x.section = SectionOf(sg, p, c)
    BY <1>17, <2>3 DEF PageWhole
  <2>5. x \in ToSet(q) /\ x.page = p
    BY <1>12, <1>13, <2>2
  <2> QED BY <2>4, <2>5
<1>18. ManualWhole(q, sg)
  BY <1>7, <1>8, <1>12, <1>15, <1>16, <1>17 DEF ManualWhole
<1> QED BY <1>5, <1>11, <1>18

\* Whatever pages are complete, its chunks are exact.
LEMMA ManualIsExact ==
  ASSUME manual \in Manual
  PROVE  ChunksAreExact
<1>1. PICK sg : sg = Sectioning
  OBVIOUS
<1>2. PICK q : q = BuildChunks(sg)
  OBVIOUS
<1>3. /\ q \in Seq(ChunkSet(sg)) /\ InPairs(q, ChunkOrder(sg))
      /\ \A x \in ToSet(q) : WholeChunk(x, sg)
      /\ \A p \in PageNumbers : Page(p).complete =>
           \A c \in 0..(Len(Page(p).text) - 1) : ~Blank(Page(p).text[c + 1]) =>
             \E x \in ToSet(q) : /\ x.page = p /\ c \in x.start..(x.end - 1)
                                 /\ x.section = SectionOf(sg, p, c)
  <2>1. ManualWhole(q, sg)
    BY <1>1, <1>2, ManualIsCut
  <2> QED BY <2>1 DEF ManualWhole
<1>4. PICK n : n = Len(q) /\ n \in Nat
  BY <1>3
<1>5. /\ DOMAIN q = 1..n /\ \A k \in 1..n : q[k] \in ToSet(q)
      /\ \A x \in ToSet(q) : \E k \in 1..n : q[k] = x
  BY <1>3, <1>4, MembersAre
<1>6. NothingIsLost(sg, q)
  <2> SUFFICES ASSUME NEW p \in PageNumbers, Page(p).complete,
                      NEW c \in 0..(Len(Page(p).text) - 1), ~Blank(Page(p).text[c + 1])
               PROVE  \E k \in DOMAIN q : /\ q[k].page = p /\ c \in q[k].start..(q[k].end - 1)
                                          /\ q[k].section = SectionOf(sg, p, c)
    BY Zenon DEF NothingIsLost
  <2>1. PICK x \in ToSet(q) : /\ x.page = p /\ c \in x.start..(x.end - 1)
                              /\ x.section = SectionOf(sg, p, c)
    BY <1>3
  <2>2. PICK k \in DOMAIN q : q[k] = x
    BY <1>5
  <2> QED BY <2>1, <2>2
<1>7. WellCut(q)
  <2>1. ASSUME NEW k \in DOMAIN q
        PROVE  /\ Page(q[k].page).complete /\ q[k].end - q[k].start \in 1..MaxChars
               /\ ~Blank(Page(q[k].page).text[q[k].start + 1])
               /\ ~Blank(Page(q[k].page).text[q[k].end])
    <3>1. WholeChunk(q[k], sg)
      BY <1>3, <1>5
    <3> QED BY <3>1, Zenon DEF WholeChunk
  <2>2. ASSUME NEW k \in DOMAIN q, k > 1
        PROVE  \/ q[k - 1].page < q[k].page
               \/ q[k - 1].page = q[k].page /\ q[k - 1].end <= q[k].start
    <3>1. k - 1 \in 1..n /\ k \in 1..n /\ k - 1 < k
      BY <1>4, <1>5, <2>2
    <3>2. PICK j : j = k - 1
      OBVIOUS
    <3>3. <<q[j], q[k]>> \in ChunkOrder(sg)
      BY <1>3, <1>4, <3>1, <3>2 DEF InPairs
    <3>4. PICK z : z = <<q[j], q[k]>>
      OBVIOUS
    <3>5. z[1] = q[j] /\ z[2] = q[k]
      BY <3>4
    <3>6. \/ z[1].page < z[2].page
          \/ z[1].page = z[2].page /\ z[1].end <= z[2].start
      BY <3>3, <3>4 DEF ChunkOrder
    <3> QED BY <3>2, <3>5, <3>6
  <2> QED BY <2>1, <2>2, Zenon DEF WellCut
<1> QED BY <1>1, <1>2, <1>6, <1>7, Zenon DEF ChunksAreExact

\* An attempt of the extraction changes only which pages are complete.
LEMMA ManualStays ==
  ASSUME manual \in Manual, [ChunkNext]_manual
  PROVE  manual' \in Manual
<1>1. CASE UNCHANGED manual
  BY <1>1
<1>2. ASSUME NEW p \in PageNumbers, CompletePage(p) PROVE manual' \in Manual
  <2>1. PICK q : q = manual.pages
    OBVIOUS
  <2>2. PICK o : o = manual.outline
    OBVIOUS
  <2>3. PICK i : i = p + 1
    OBVIOUS
  <2>4. PICK n : n = Len(q) /\ n \in Nat
    BY <2>1, PagesAre
  <2>5. q \in [1..n -> PageType] /\ q \in Seq(PageType) /\ i \in 1..n
    BY <2>1, <2>3, <2>4, PagesAre
  <2>6. PICK r : r = [q EXCEPT ![i] = [@ EXCEPT !.complete = TRUE]]
    OBVIOUS
  <2>7. manual = [pages |-> q, outline |-> o] /\ o \in Seq([page: Nat, at: Nat])
    BY <2>1, <2>2 DEF Manual
  <2>8. manual' = [pages |-> r, outline |-> o]
    BY <1>2, <2>3, <2>6, <2>7 DEF CompletePage
  <2>9. [q[i] EXCEPT !.complete = TRUE] \in PageType
    BY <2>5 DEF PageType
  <2>10. r \in [1..n -> PageType]
    BY <2>5, <2>6, <2>9
  <2>11. r \in Seq(PageType)
    BY <2>4, <2>10
  <2> QED BY <2>7, <2>8, <2>11 DEF Manual, PageType
<1> QED BY <1>1, <1>2 DEF ChunkNext

\* No manual, or one of those that may be cut.
LEMMA ManualAtFirst ==
  ASSUME ChunkInit
  PROVE  manual \in Manual
<1>1. CASE manual = NoManual
  <2>1. PICK z : z = <<>>
    OBVIOUS
  <2>2. z \in Seq([complete: BOOLEAN, text: Seq(Letters)]) /\ z \in Seq([page: Nat, at: Nat])
    BY <2>1
  <2> QED BY <1>1, <2>1, <2>2 DEF NoManual, Manual
<1>2. CASE manual \in Manuals
  BY <1>2, ManualsAreManuals
<1> QED BY <1>1, <1>2 DEF ChunkInit

\* No text of a manual is lost, cut twice or filed under a heading it does not follow.
THEOREM ChunksHold == ChunkSpec => []ChunksAreExact
<1>1. ChunkInit => manual \in Manual
  BY ManualAtFirst
<1>2. manual \in Manual /\ [ChunkNext]_manual => (manual \in Manual)'
  BY ManualStays
<1>3. manual \in Manual => ChunksAreExact
  BY ManualIsExact
<1> QED BY <1>1, <1>2, <1>3, PTL DEF ChunkSpec
=============================================================================
