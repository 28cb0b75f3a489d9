------------------------------ MODULE Chunking ------------------------------
(***************************************************************************)
(* How the text of a manual is cut: build_chunks of documents/chunking.py. *)
(* The outline of the PDF, or else the numbered headings of its text, say  *)
(* where sections begin; a page is cut at those places into stretches, and *)
(* a stretch into chunks that are not too long.  "Source-preserving": what *)
(* a search finds is the manufacturer's text, under the right heading.     *)
(*                                                                         *)
(* Offsets and pages count from 0, as in the code; a stretch from i to j   *)
(* is the characters i .. j-1.                                             *)
(***************************************************************************)
EXTENDS Naturals, FiniteSets, SequencesExt

CONSTANTS
  MaxChars,     \* MAX_CHUNK_CHARS
  Manuals       \* the manuals that may be cut, before any page is complete

VARIABLE
  manual        \* its pages, and the entries of its outline

\* A character is part of a word, the first of a numbered heading, a blank a chunk
\* may end at (space, newline), or another blank.
Letters == {"word", "heading", "break", "tab"}

\* Pages are complete or not.  The title of an entry of the outline is found once in
\* the text of its page, at "at", or not (an offset beyond the text).
Manual ==
  [pages: Seq([complete: BOOLEAN, text: Seq(Letters)]), outline: Seq([page: Nat, at: Nat])]

ASSUME ChunkBounds == MaxChars \in Nat /\ MaxChars >= 1
ASSUME ManualsAreManuals == Manuals \subseteq Manual

-----------------------------------------------------------------------------
(* A stretch of text: add_range *)

Blank(c) == c \in {"break", "tab"}

SkipBlanks(text, start, end) ==
  Min({i \in start..end : i = end \/ ~Blank(text[i + 1])})

\* Within the limit, and at the last break of its second half when there is one.
Stop(text, start, end) ==
  LET stop == Min({end, start + MaxChars})
      breaks == {i \in (start + MaxChars \div 2)..(stop - 1) : text[i + 1] = "break"} IN
  IF stop < end /\ breaks # {} THEN Max(breaks) ELSE stop

Trimmed(text, start, stop) ==
  Max({start} \union {i \in (start + 1)..stop : ~Blank(text[i])})

\* The loop: the next round begins where this one stopped.
Ranges(text, first, end) ==
  LET from[start \in first..end] ==
        LET begin == SkipBlanks(text, start, end)
            stop == Stop(text, begin, end)
            last == Trimmed(text, begin, stop) IN
        IF start = end THEN <<>>
        ELSE (IF last > begin THEN <<[start |-> begin, end |-> last]>> ELSE <<>>) \o from[stop]
  IN from[first]

-----------------------------------------------------------------------------
(* Where sections begin *)

PageNumbers == 0..(Len(manual.pages) - 1)
Page(p) == manual.pages[p + 1]

\* Some numbers, from the least to the greatest.
Ascending(S) ==
  [k \in 1..Cardinality(S) |-> CHOOSE i \in S : Cardinality({j \in S : j < i}) = k - 1]

InPageOrder(entries) == \A i \in 1..(Len(entries) - 1) : entries[i].page <= entries[i + 1].page

\* Without an outline, or with one that jumps back, the numbered headings of the
\* complete pages, in reading order.
Headings ==
  LET starts(text) == Ascending({i \in DOMAIN text : text[i] = "heading"})
      on(p) == IF ~Page(p).complete THEN <<>>
               ELSE [k \in DOMAIN starts(Page(p).text) |->
                       [page |-> p, at |-> starts(Page(p).text)[k] - 1]]
  IN FlattenSeq([k \in DOMAIN manual.pages |-> on(k - 1)])

\* The entries of the outline whose page there is.
Valid ==
  LET kept == Ascending({i \in DOMAIN manual.outline : manual.outline[i].page \in PageNumbers})
  IN [k \in DOMAIN kept |-> manual.outline[kept[k]]]

Entries == IF Valid # <<>> /\ InPageOrder(Valid) THEN Valid ELSE Headings

Exact(e) == e.at < Len(Page(e.page).text)

\* Where the section of each entry begins; without its title, at the top of the page.
Anchors ==
  LET entries == Entries IN
  [i \in DOMAIN entries |->
     [page |-> entries[i].page,
      offset |-> IF Exact(entries[i]) THEN entries[i].at ELSE 0]]

\* Pages of which it is not clear where their sections begin.
Ambiguous ==
  LET entries == Entries
      anchors == Anchors
      SamePage(i, j) == i # j /\ entries[i].page = entries[j].page IN
  {entries[i].page : i \in {k \in DOMAIN entries :
     \/ ~Exact(entries[k]) /\ \E j \in DOMAIN entries : SamePage(k, j)
     \/ /\ k + 1 \in DOMAIN entries /\ SamePage(k, k + 1)
        /\ anchors[k].offset >= anchors[k + 1].offset}}

-----------------------------------------------------------------------------
(* The cut *)

Sectioning == [anchors |-> Anchors, ambiguous |-> Ambiguous]

\* The section made for the text of a page that has no other.
OwnSection == 0

\* The order of anchors after sorting: by page and offset, and stable.
Follows(anchors, i, j) ==
  \/ anchors[i].page > anchors[j].page
  \/ /\ anchors[i].page = anchors[j].page
     /\ anchors[i].offset > anchors[j].offset \/ (anchors[i].offset = anchors[j].offset /\ i > j)

LastOf(anchors, S) ==
  IF S = {} THEN OwnSection ELSE CHOOSE i \in S : \A j \in S \ {i} : Follows(anchors, i, j)

\* Mutant: a section ends with its page.
CarriedNever(sectioning, p) == OwnSection

\* The section that goes on from the pages before.
Carried(sectioning, p) ==
  LET anchors == sectioning.anchors IN
  IF p \in sectioning.ambiguous THEN OwnSection
  ELSE LastOf(anchors, {i \in DOMAIN anchors : anchors[i].page < p})

Stretches(sectioning, p) ==
  LET anchors == sectioning.anchors
      local == IF p \in sectioning.ambiguous THEN <<>>
               ELSE Ascending({i \in DOMAIN anchors : anchors[i].page = p})
      begins == <<0>> \o [k \in DOMAIN local |-> anchors[local[k]].offset]
      sections == <<Carried(sectioning, p)>> \o local IN
  [k \in DOMAIN begins |->
     [section |-> sections[k], from |-> begins[k],
      to |-> IF k < Len(begins) THEN begins[k + 1] ELSE Len(Page(p).text)]]

\* Pages that are not complete are left out.
ChunksOfPage(sectioning, p) ==
  LET stretches == Stretches(sectioning, p)
      cut(k) == LET ranges == Ranges(Page(p).text, stretches[k].from, stretches[k].to) IN
                [n \in DOMAIN ranges |->
                   [page |-> p, section |-> stretches[k].section,
                    start |-> ranges[n].start, end |-> ranges[n].end]] IN
  IF Page(p).complete THEN FlattenSeq([k \in DOMAIN stretches |-> cut(k)]) ELSE <<>>

BuildChunks(sectioning) ==
  FlattenSeq([k \in DOMAIN manual.pages |-> ChunksOfPage(sectioning, k - 1)])

-----------------------------------------------------------------------------
(* The manuals *)

NoManual == [pages |-> <<>>, outline |-> <<>>]

\* An attempt of the extraction completes a page; an index may be built between two.
CompletePage(p) ==
  /\ ~Page(p).complete
  /\ manual' = [manual EXCEPT !.pages[p + 1].complete = TRUE]

ChunkInit == manual \in {NoManual} \union Manuals
ChunkNext == \E p \in PageNumbers : CompletePage(p)
ChunkSpec == ChunkInit /\ [][ChunkNext]_manual

-----------------------------------------------------------------------------
(* Properties *)

\* What a reader would say: a character is under the last heading at or before it,
\* and under none but its page where headings are ambiguous.
SectionOf(sectioning, p, c) ==
  LET anchors == sectioning.anchors IN
  IF p \in sectioning.ambiguous THEN OwnSection
  ELSE LastOf(anchors, {i \in DOMAIN anchors :
         anchors[i].page < p \/ (anchors[i].page = p /\ anchors[i].offset <= c)})

\* Every character of a word of every complete page is in one chunk, and that is in
\* the section a reader would say.
NothingIsLost(sectioning, chunks) ==
  \A p \in PageNumbers : Page(p).complete =>
    \A c \in 0..(Len(Page(p).text) - 1) : ~Blank(Page(p).text[c + 1]) =>
      \E k \in DOMAIN chunks :
        /\ chunks[k].page = p /\ c \in chunks[k].start..(chunks[k].end - 1)
        /\ chunks[k].section = SectionOf(sectioning, p, c)

\* Chunks are not empty and not too long, follow each other without overlap, begin
\* and end with a character of a word, and are of complete pages.
WellCut(chunks) ==
  \A k \in DOMAIN chunks :
    LET c == chunks[k]
        text == Page(c.page).text IN
    /\ Page(c.page).complete
    /\ c.end - c.start \in 1..MaxChars
    /\ ~Blank(text[c.start + 1]) /\ ~Blank(text[c.end])
    /\ k > 1 => \/ chunks[k - 1].page < c.page
                \/ chunks[k - 1].page = c.page /\ chunks[k - 1].end <= c.start

\* No character of a manual is lost or found twice, and none is filed under a heading
\* it does not follow, whatever the outline says and whichever pages are complete.
ChunksAreExact ==
  \A sectioning \in {Sectioning} : \A chunks \in {BuildChunks(sectioning)} :
    NothingIsLost(sectioning, chunks) /\ WellCut(chunks)
=============================================================================
