---------------------------- MODULE RulePassages ----------------------------
(***************************************************************************)
(* What the chat model is shown of a manual when rules are extracted:      *)
(* maintenance/rule_extraction.py picks the pages that look most like a    *)
(* service schedule, within a budget, and asks about them in batches.      *)
(* Pages become complete one at a time, and an extraction may run between. *)
(***************************************************************************)
EXTENDS MaintenancePlan, SequencesExt

CONSTANTS
  MaxPassages,   \* MAX_PASSAGES
  MaxPageChars,  \* MAX_CHARS_PER_PAGE
  MaxChars,      \* MAX_TOTAL_CHARS
  LeastRest,     \* of a page that does not fit, a rest this long is still taken
  BatchChars,    \* BATCH_CHAR_BUDGET
  HeaderChars,   \* what the page number adds to a passage in a batch
  MaxPages       \* bound: pages of the manual

ASSUME PassageBounds ==
  /\ {MaxPassages, MaxPageChars, MaxChars, LeastRest, BatchChars} \subseteq Nat \ {0}
  /\ HeaderChars \in Nat /\ MaxPages \in Nat /\ LeastRest <= MaxChars

VARIABLE
  book           \* the pages of the manual

\* How much a page looks like a schedule; 0: too little, or next to no text.
Scores == 0..2
Page == [complete: BOOLEAN, score: Scores, size: 1..(MaxPageChars + 1)]

\* The order in which pages are taken.  The score counts late pages a little less.
Before(i, j) ==
  book[i].score > book[j].score \/ (book[i].score = book[j].score /\ i < j)

\* The members of S one after another; before holds the pairs in order.
InOrder(S, before) ==
  CHOOSE q \in [1..Cardinality(S) -> S] :
    ToSet(q) = S /\ \A i, j \in DOMAIN q : i < j => <<q[i], q[j]>> \in before

Worth == {i \in DOMAIN book : book[i].complete /\ book[i].score > 0}
Ranked == InOrder(Worth, {x \in Worth \X Worth : Before(x[1], x[2])})

Scored ==
  [k \in DOMAIN Ranked |->
     [page |-> Ranked[k], size |-> Min({book[Ranked[k]].size, MaxPageChars})]]

\* The characters of some passages, with what each takes besides.
Total(passages, each) == FoldLeft(LAMBDA sum, p : sum + p.size + each, 0, passages)
SizeOf(passages) == Total(passages, 0)

\* One round of the loop; after a break nothing is taken.
TakePassage(taken, passage) ==
  LET rest == MaxChars - SizeOf(taken.passages) IN
  CASE \/ taken.full \/ Len(taken.passages) >= MaxPassages
       \/ passage.size > rest /\ rest < LeastRest -> [taken EXCEPT !.full = TRUE]
    [] OTHER -> [taken EXCEPT !.passages =
                   Append(@, [passage EXCEPT !.size = Min({passage.size, rest})])]

\* What the loop has taken at its end.
Taken == ToSet(FoldLeft(TakePassage, [passages |-> <<>>, full |-> FALSE], Scored).passages)

\* select_maintenance_passages: in the order of the manual.
Passages == InOrder(Taken, {x \in Taken \X Taken : x[1].page < x[2].page})

BatchSize(batch) == Total(batch, HeaderChars)

\* A batch is closed by the passage that does not fit it.
AddToBatches(batches, passage) ==
  IF \/ batches = <<>>
     \/ BatchSize(batches[Len(batches)]) + passage.size + HeaderChars > BatchChars
  THEN Append(batches, <<passage>>)
  ELSE [batches EXCEPT ![Len(batches)] = Append(@, passage)]

Batches(passages) == FoldLeft(AddToBatches, <<>>, passages)

Books == [1..MaxPages -> {p \in Page : ~p.complete}]

CompletePage(i) ==
  /\ ~book[i].complete
  /\ book' = [book EXCEPT ![i].complete = TRUE]

\* An extraction reads the pages that are complete, and changes none.
ReadPages == UNCHANGED book

\* The plan of a bike, and the manual it is made from.
BookNext == (\E i \in DOMAIN book : CompletePage(i)) \/ ReadPages

ManualInit == PlanInit /\ book \in {<<>>} \union Books
ManualNext ==
  \/ PlanNext /\ UNCHANGED book
  \/ BookNext /\ UNCHANGED planVars
ManualSpec == ManualInit /\ [][ManualNext]_<<planVars, book>>

-----------------------------------------------------------------------------
(* Properties *)

\* "Pick compact, interval-dense pages": what is shown is within the limits, in order,
\* and only of complete pages; no page that was left out is better than one that is
\* shown, a page is shown as a whole but for the last one taken, and never less of it
\* than is worth a line; a manual with a schedule is never shown as empty.
PagesFit(passages) ==
  LET shown == {p.page : p \in ToSet(passages)} IN
  /\ Len(passages) <= MaxPassages /\ SizeOf(passages) <= MaxChars
  /\ \A k \in 1..(Len(passages) - 1) : passages[k].page < passages[k + 1].page
  /\ shown \subseteq Worth /\ (Worth # {} => shown # {})
  /\ \A i \in shown, j \in Worth \ shown : Before(i, j)
  /\ \A p \in ToSet(passages) :
       p.size < Min({book[p.page].size, MaxPageChars}) =>
         p.size >= LeastRest /\ \A i \in shown \ {p.page} : Before(i, p.page)

\* "Hard-caps prompt size": the batches are the passages, none lost, none repeated,
\* none longer than the budget unless it is one passage.
BatchesFit(passages) ==
  LET batches == Batches(passages) IN
  /\ FlattenSeq(batches) = passages
  /\ \A k \in DOMAIN batches :
       batches[k] # <<>> /\ (Len(batches[k]) > 1 => BatchSize(batches[k]) <= BatchChars)

\* What the chat model is shown of the manual, and in which prompts.
PromptsFit == PagesFit(Passages) /\ BatchesFit(Passages)

\* What holds in every state of the plan, and of the manual it is made from.
PlanInv == RulesInv /\ PromptsFit
=============================================================================
