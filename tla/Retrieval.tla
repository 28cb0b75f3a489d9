------------------------------ MODULE Retrieval ------------------------------
(***************************************************************************)
(* A search in the manuals of one bike, while the documents it searches    *)
(* change: candidates, fusion, reranking, neighbours, the budget, and the  *)
(* two checks that the passages are still there as they were read.         *)
(*                                                                         *)
(* The search takes no lock and each of its statements sees what is        *)
(* committed at that moment; calls of the embedding model and the reranker *)
(* lie between them.  The documents are those of DocumentEditions.  Of     *)
(* DocumentIndex only the attempt is left whose chunks a search can find.  *)
(***************************************************************************)
EXTENDS DocumentEditions, Sequences, FiniteSets, SequencesExt

CONSTANTS
  Chunks,         \* positions of the chunks of a document, in one section
  Shared,         \* the chunks whose text is the same in all contents
  Size,           \* the length of the text of each chunk
  CandidateLimit, \* candidates a statement returns (50)
  RerankLimit,    \* candidates that are reranked (40)
  MaxMatches,     \* matches that are selected (8: five, and three close to them)
  MaxPassages,    \* MAX_PASSAGES
  Capacity,       \* CONTEXT_CHAR_LIMIT
  SearchDocs,     \* bound: ids used when a search begins
  MaxChanges,     \* bound: changes of the documents during a search
  NoSearch        \* no search is in progress

ASSUME ChunkSizes == /\ Chunks \subseteq Nat /\ Shared \subseteq Chunks
                     /\ Size \in [Chunks -> 1..Capacity]
ASSUME FiniteLibrary == IsFiniteSet(Docs) /\ IsFiniteSet(Chunks)
ASSUME SearchLimits == /\ {CandidateLimit, RerankLimit, MaxMatches} \subseteq Nat \ {0}
                       /\ {Capacity, SearchDocs, MaxChanges} \subseteq Nat /\ MaxPassages \in Nat \ {0}

VARIABLES
  index,   \* the attempt whose chunks of a document are searchable, 0 if none
  search   \* the search in progress

searchVars == <<vars, index, search>>

-----------------------------------------------------------------------------
(* RetrievalRepository *)

Searching == search # NoSearch
At(stage) == Searching /\ search.stage = stage

\* _eligible, with and without reference editions.
Eligible(d, b, refs) ==
  /\ d \in Rows /\ doc[d].bike = b /\ doc[d].confirmed
  /\ doc[d].status \in {"active", "archived"}
  /\ doc[d].file \in file \ infected
  /\ index[d] # 0
  /\ refs \/ (doc[d].status = "active" /\ (doc[d].primary \/ doc[d].type = "supporting_document"))

\* A passage is a copy of a chunk and of what its document says of itself.
Passage(d, k) == [doc |-> d, chunk |-> k, attempt |-> index[d], hash |-> doc[d].hash,
                  type |-> doc[d].type, rev |-> doc[d].rev, primary |-> doc[d].primary,
                  status |-> doc[d].status]

PassagesOf(b, refs) ==
  {Passage(d, k) : d \in {e \in Docs : Eligible(e, b, refs)}, k \in Chunks}

Passages == PassagesOf(search.bike, search.refs)

\* A statement returns as many rows as there are, up to the limit.
Statement == {rows \in SUBSET Passages :
                Cardinality(rows) = Min({CandidateLimit, Cardinality(Passages)})}

\* The identity of a chunk is computed from its document and place, not the attempt.
SameRow(p, q) == p.doc = q.doc /\ p.chunk = q.chunk

\* neighbors: the chunks before and after, in the same section.
Adjacent(p) == {q \in Passages : /\ q.doc = p.doc
                                 /\ q.chunk = p.chunk + 1 \/ q.chunk + 1 = p.chunk}

\* revalidate: what is still eligible, exactly as it was read.
Recheck(passages) == passages \intersect Passages

-----------------------------------------------------------------------------
(* retrieval/ranking.py *)

\* The same text, or intersecting spans of the same bytes.
Overlaps(p, q) == p.chunk = q.chunk /\ (p.hash = q.hash \/ p.chunk \in Shared)

\* Of the candidates of both statements the copy read last is kept.
Found(vector, keyword) == {p \in vector : ~\E q \in keyword : SameRow(p, q)} \union keyword

\* One of the passages that overlap is kept, the primary manual before others.
Fuse(kept, p) ==
  LET same == {i \in DOMAIN kept : Overlaps(kept[i], p)} IN
  IF same = {} THEN Append(kept, p)
  ELSE IF p.primary /\ ~kept[Min(same)].primary THEN [kept EXCEPT ![Min(same)] = p]
  ELSE kept

\* By reciprocal ranks a passage of both statements comes before one of a single
\* statement; the order is open otherwise.
Orders(vector, keyword) ==
  LET Both(p) == (\E q \in vector : SameRow(p, q)) /\ \E q \in keyword : SameRow(p, q)
  IN  {order \in SetToSeqs(Found(vector, keyword)) :
         \A i, j \in DOMAIN order : i < j /\ Both(order[j]) => Both(order[i])}

\* fuse: without overlaps, by rank again, cut to what the reranker takes.
Fused(order) ==
  LET kept == ToSet(FoldLeft(Fuse, <<>>, order))
      Rank(i) == Cardinality({j \in 1..i : order[j] \in kept})
  IN  {order[i] : i \in {j \in DOMAIN order : order[j] \in kept /\ Rank(j) <= RerankLimit}}

\* select_matches: relevant candidates by the score of the reranker.
Selections(candidates) ==
  {m \in SetToAllKPermutations(candidates) : Len(m) <= MaxMatches}

Match(p) == [passage |-> p, of |-> p]
Neighbour(p, q) == [passage |-> q, of |-> p]
Chars(items) == FoldLeft(LAMBDA sum, item : sum + Size[item.passage.chunk], 0, items)

Keep(result, item) ==
  IF \/ Len(result) >= MaxPassages
     \/ item.of # item.passage /\ ~\E other \in ToSet(result) : SameRow(other.passage, item.of)
     \/ Chars(result) + Size[item.passage.chunk] > Capacity
     \/ \E other \in ToSet(result) : Overlaps(other.passage, item.passage)
  THEN result ELSE Append(result, item)

\* within_budget: whole passages, the matches first.
WithinBudget(items) == FoldLeft(Keep, <<>>, items)

-----------------------------------------------------------------------------
(* RetrievalService.search *)

NoIndex == [d \in Docs |-> 0]

SearchInit == Init /\ index = NoIndex /\ search = NoSearch

\* A search of a bike; what is indexed by then is whatever the jobs have left.
\* has_sources: without a passage the answer is no_indexed_sources, and no step here.
\* Bounds: few ids are used, every file is there and as it was registered.
Begin(b, refs) ==
  /\ ~Searching /\ Cardinality({d \in Docs : doc[d] # Unused}) <= SearchDocs
  /\ file = Files /\ infected = {} /\ \A d \in Rows : Sound(d)
  /\ UNCHANGED vars
  /\ \E indexed \in SUBSET {d \in Rows : doc[d].confirmed} : index' = [d \in Docs |-> IF d \in indexed THEN 1 ELSE 0]
  /\ PassagesOf(b, refs)' # {}
  /\ search' = [stage |-> "embedding", bike |-> b, refs |-> refs, vector |-> {},
                candidates |-> {}, items |-> <<>>, unread |-> <<>>, changes |-> 0, stale |-> FALSE]

VectorSearch ==
  /\ At("embedding")
  /\ \E rows \in Statement :
       search' = [search EXCEPT !.stage = "embedded", !.vector = rows]
  /\ UNCHANGED <<vars, index>>

\* Any of the passages may hold words of the query.
KeywordSearch ==
  /\ At("embedded")
  /\ \E rows \in SUBSET Passages :
       /\ Cardinality(rows) <= CandidateLimit
       /\ \E order \in Orders(search.vector, rows) :
            search' = [search EXCEPT !.stage = "fused", !.vector = {},
                                     !.candidates = Fused(order)]
  /\ UNCHANGED <<vars, index>>

Revalidate ==
  /\ At("fused")
  /\ search' = [search EXCEPT
       !.stage = IF Recheck(search.candidates) = {} THEN "sources_changed" ELSE "ranking",
       !.candidates = Recheck(search.candidates)]
  /\ UNCHANGED <<vars, index>>

\* The reranker answers; the matches are selected.
Rerank ==
  /\ At("ranking")
  /\ \E m \in Selections(search.candidates) :
       search' = [search EXCEPT
         !.stage = IF m = <<>> THEN "no_relevant_evidence" ELSE "matched", !.candidates = {},
         !.items = [i \in DOMAIN m |-> Match(m[i])], !.unread = m]
  /\ UNCHANGED <<vars, index>>

\* One statement per match, in their order; some of its neighbours are useful.
ReadNeighbours ==
  /\ At("matched") /\ search.unread # <<>>
  /\ LET p == Head(search.unread) IN
     \E useful \in SUBSET Adjacent(p) :
       \E read \in SetToSeqs(useful) :
         /\ \A i, j \in DOMAIN read : i < j => read[i].chunk < read[j].chunk
         /\ search' = [search EXCEPT
              !.items = @ \o [i \in DOMAIN read |-> Neighbour(p, read[i])],
              !.unread = Tail(@)]
  /\ UNCHANGED <<vars, index>>

\* Mutant: the answer is not checked again.
AnswerUnchecked ==
  /\ At("matched") /\ search.unread = <<>>
  /\ search' = [search EXCEPT !.stage = "ready", !.items = WithinBudget(search.items)]
  /\ UNCHANGED <<vars, index>>

\* Mutant: the passages are counted before the budget cuts them.
AnswerCountsAll ==
  /\ At("matched") /\ search.unread = <<>>
  /\ LET selected == WithinBudget(search.items)
         current == Recheck({item.passage : item \in ToSet(selected)})
     IN search' = [search EXCEPT
          !.stage = IF Cardinality(current) # Len(search.items) THEN "sources_changed" ELSE "ready",
          !.items = IF Cardinality(current) # Len(search.items) THEN <<>> ELSE selected]
  /\ UNCHANGED <<vars, index>>

\* The whole answer is refused if any passage of it has changed.
Answer ==
  /\ At("matched") /\ search.unread = <<>>
  /\ LET selected == WithinBudget(search.items)
         current == Recheck({item.passage : item \in ToSet(selected)})
     IN search' = [search EXCEPT
          !.stage = IF Cardinality(current) # Len(selected) THEN "sources_changed" ELSE "ready",
          !.items = IF Cardinality(current) # Len(selected) THEN <<>> ELSE selected]
  /\ UNCHANGED <<vars, index>>

\* EmbeddingFailed, RerankingFailed or UnconfiguredError: answered with 503.
ProviderFails ==
  /\ At("embedding") \/ At("ranking")
  /\ search' = NoSearch /\ index' = NoIndex
  /\ UNCHANGED vars

Answers == {"ready", "no_relevant_evidence", "sources_changed"}

Respond ==
  /\ Searching /\ search.stage \in Answers
  /\ search' = NoSearch /\ index' = NoIndex
  /\ UNCHANGED vars

SearchStep ==
  \/ VectorSearch \/ KeywordSearch \/ Revalidate \/ Rerank
  \/ ReadNeighbours \/ Answer \/ ProviderFails \/ Respond

-----------------------------------------------------------------------------
(* What happens meanwhile *)

Running == Searching /\ search.stage \notin Answers

\* Extraction or indexing starts over: the chunks cannot be found until a new
\* attempt has made new ones.
Unindex(d) == index[d] # 0 /\ index' = [index EXCEPT ![d] = 0]
Reindex(d) == d \in Rows /\ index' = [index EXCEPT ![d] = search.changes + 2]

\* A change takes note whether it takes away a passage the search could have found.
During(change) ==
  /\ Running /\ search.changes < MaxChanges
  /\ change
  /\ \E b \in {search.bike}, refs \in {search.refs}, before \in {Passages} :
       search' = [search EXCEPT !.changes = @ + 1,
                    !.stale = @ \/ ~(before \subseteq PassagesOf(b, refs)')]

SearchNext ==
  \/ ~Searching /\ Next /\ UNCHANGED <<index, search>>
  \/ During(Next /\ UNCHANGED index)
  \/ During(UNCHANGED vars /\ \E d \in Docs : Unindex(d) \/ Reindex(d))
  \/ \E b \in Bikes, refs \in BOOLEAN : Begin(b, refs)
  \/ SearchStep

SearchSpec == SearchInit /\ [][SearchNext]_searchVars

-----------------------------------------------------------------------------
(* Properties *)

Stages == {"embedding", "embedded", "fused", "ranking", "matched"} \union Answers

SearchTypeOK ==
  /\ index \in [Docs -> 0..MaxChanges + 1]
  /\ Searching =>
       /\ search.stage \in Stages /\ search.bike \in Bikes
       /\ Len(search.unread) <= MaxMatches /\ search.changes \in 0..MaxChanges
       /\ \A p \in search.vector \union search.candidates : p.doc \in Docs /\ p.chunk \in Chunks

\* An answer is never empty, fits the budget, repeats no text, and has a neighbour
\* only together with the passage it was read for, whatever was dropped.
AnswerIsWhole ==
  At("ready") =>
    /\ search.items # <<>> /\ Len(search.items) <= MaxPassages
    /\ Chars(search.items) <= Capacity
    /\ \A i, j \in DOMAIN search.items :
         i # j => ~Overlaps(search.items[i].passage, search.items[j].passage)
    /\ \A item \in ToSet(search.items) :
         \E other \in ToSet(search.items) : other.passage = item.of

Becomes(stage) == Searching /\ ~At(stage) /\ search' # NoSearch /\ search'.stage = stage

\* Every passage of an answer is eligible, and exactly as it was read, when the
\* answer is given, whatever changed between the statements and the calls of the
\* providers ("a concurrent source change fails the whole result closed").
ReadyIsCurrent ==
  [][Becomes("ready") => \A item \in ToSet(search'.items) : item.passage \in Passages]_searchVars

\* An answer is refused for changed sources only if a passage that could be found
\* has changed or gone since the search began.
RefusalsAreTrue ==
  [][Becomes("sources_changed") => search.stale]_searchVars

\* What holds in every state of the documents and of a search in them.
SearchInv == Inv /\ PassedDraftsStayArchived /\ SearchTypeOK /\ AnswerIsWhole
=============================================================================
