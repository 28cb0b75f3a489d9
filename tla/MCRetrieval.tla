---------------------------- MODULE MCRetrieval ----------------------------
(* Instances of DocumentEditions, Retrieval and Chunking for TLC.          *)
EXTENDS Retrieval, Chunking

CONSTANTS
  MaxText,      \* bound: characters of the page of a manual of one page
  MaxShort      \* bound: characters of each page of a manual of two

\* No definition names a particular document, file or bike.
Symmetry == Permutations(Docs) \union Permutations(Files) \union Permutations(Bikes)

\* The second chunk is longer than the first: it fits next to a first, not to a second.
Sizes == [k \in Chunks |-> k]

\* Manuals of one page with any text, and of two short ones with any outline.
SmallManuals ==
  [pages: SeqOf([complete: {FALSE}, text: BoundedSeq(Letters, MaxText)], 1), outline: {<<>>}]
    \union
  [pages: SeqOf([complete: {FALSE}, text: BoundedSeq({"word", "break"}, MaxShort)], 2),
   outline: BoundedSeq([page: 0..2, at: 0..MaxShort], 2)]

\* The library and searches in it, of which texts are no part; or the text of a manual
\* in an empty library.
LibraryOrManual == SearchInit /\ ChunkInit

LibraryStep == manual = NoManual /\ SearchNext /\ UNCHANGED manual

ManualStep == ChunkNext /\ UNCHANGED searchVars

EditionsSpec == LibraryOrManual /\ [][LibraryStep \/ ManualStep]_<<searchVars, manual>>
=============================================================================
