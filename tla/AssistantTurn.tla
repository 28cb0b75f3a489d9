---------------------------- MODULE AssistantTurn ----------------------------
(***************************************************************************)
(* What the assistant is given and what it hands on: the part of a thread  *)
(* that fits the prompt, the window of a thread around a match, one turn   *)
(* of calls of the chat model and of tools, and the sources of an answer.  *)
(*                                                                         *)
(* Conversations has the transactions of overlapping requests; here one    *)
(* request is alone, and its rounds are opened up.  Of a text there is its *)
(* length, and the score of its overlap with the query.                    *)
(***************************************************************************)
EXTENDS Naturals, Sequences, FiniteSets, FiniteSetsExt, SequencesExt

CONSTANTS
  Lengths,        \* lengths of the text of a message
  Scores,         \* overlap with the query, 0 if there is none
  TurnLimit,      \* RECENT_TURN_LIMIT
  CharBudget,     \* RECENT_CHAR_BUDGET
  SpanLimit,      \* SPAN_MESSAGE_LIMIT
  SpanBudget,     \* SPAN_CHAR_BUDGET
  Pad,            \* SPAN_PAD_MESSAGES
  MaxToolRounds,  \* MAX_TOOL_ROUNDS
  MaxCalls,       \* bound: calls in one answer of the model
  MaxFound,       \* bound: passages that one search returns
  MaxThread,      \* bound: messages of a thread
  MaxBefore,      \* bound: messages of a thread on which a turn is followed
  Passages,       \* passages of the manuals
  Label,          \* what a source is called: file, section, page
  NoTurn          \* no turn is in progress

ASSUME Texts == Lengths \subseteq Nat \ {0} /\ Scores \subseteq Nat /\ 0 \in Scores
ASSUME Budgets == /\ {TurnLimit, CharBudget, SpanBudget} \subseteq Nat \ {0}
                  /\ Pad \in Nat /\ SpanLimit \in Nat /\ SpanLimit >= 2 * Pad + 1
ASSUME Bounds == /\ {MaxToolRounds, MaxCalls, MaxFound, MaxThread, MaxBefore} \subseteq Nat
                 /\ MaxBefore <= MaxThread
ASSUME SomePassages == IsFiniteSet(Passages)

VARIABLES
  messages,  \* the committed messages of the thread, oldest first
  turn       \* the turn in progress

turnVars == <<messages, turn>>

Text == [len: Lengths, score: Scores]

\* The characters of the messages from one position to another.
Chars(thread, i, j) == FoldLeft(LAMBDA sum, m : sum + m.len, 0, SubSeq(thread, i, j))

-----------------------------------------------------------------------------
(* compact_context.select_recent_turns *)

\* The newest messages that fit; the newest one is cut at its front if it does not.
RecentFrom(thread) ==
  LET Fits(k) == k = Len(thread) \/ Chars(thread, k, Len(thread)) <= CharBudget
  IN  Min({k \in DOMAIN thread : Len(thread) - k < TurnLimit /\ Fits(k)})

RecentTurns(thread) ==
  LET from == RecentFrom(thread) IN
  [i \in 1..Len(thread) - from + 1 |->
     IF thread[from + i - 1].len > CharBudget THEN [thread[from + i - 1] EXCEPT !.len = CharBudget]
     ELSE thread[from + i - 1]]

\* ReasoningAgent.run: the question follows unless the context ends with it.
Prompt(thread) ==
  LET recent == RecentTurns(thread) IN
  IF Last(recent) = Last(thread) THEN recent ELSE Append(recent, Last(thread))

-----------------------------------------------------------------------------
(* hierarchical_memory.expand_matching_span *)

\* A window that shows nothing.
Nothing == [lo |-> 1, hi |-> 0]

Matches(thread) == {i \in DOMAIN thread : thread[i].score > 0}

\* The newest of the best matches.
Best(thread) ==
  Max({i \in Matches(thread) : \A j \in DOMAIN thread : thread[j].score <= thread[i].score})

\* The match and its neighbours.
Padded(thread, anchor) ==
  [lo |-> IF anchor > Pad THEN anchor - Pad ELSE 1,
   hi |-> IF anchor + Pad <= Len(thread) THEN anchor + Pad ELSE Len(thread)]

\* The neighbour with the higher score is taken; the older one of equals.
Leftwards(thread, w) ==
  w.lo > 1 /\ (w.hi = Len(thread) \/ thread[w.lo - 1].score >= thread[w.hi + 1].score)

\* Mutant: the window grows whatever fits into it.
WidenAlways(thread, w) ==
  LET next == IF Leftwards(thread, w) THEN w.lo - 1 ELSE w.hi + 1 IN
  IF w.hi - w.lo + 1 >= SpanLimit \/ next \notin DOMAIN thread THEN w
  ELSE IF next < w.lo THEN [w EXCEPT !.lo = next] ELSE [w EXCEPT !.hi = next]

\* One step of growing; a window that cannot grow stays as it is.
Widen(thread, w) ==
  LET next == IF Leftwards(thread, w) THEN w.lo - 1 ELSE w.hi + 1 IN
  IF \/ w.hi - w.lo + 1 >= SpanLimit
     \/ next \notin DOMAIN thread
     \/ Chars(thread, w.lo, w.hi) + thread[next].len > SpanBudget
  THEN w
  ELSE IF next < w.lo THEN [w EXCEPT !.lo = next] ELSE [w EXCEPT !.hi = next]

Grown(thread, w) == FoldLeft(LAMBDA v, i : Widen(thread, v), w, thread)

\* What is shown of a window: from its start, as far as the budget goes.
Shown(thread, w) ==
  [w EXCEPT !.hi = Max({k \in w.lo..w.hi : k = w.lo \/ Chars(thread, w.lo, k) <= SpanBudget})]

\* Around a given message, or else around the best match.
Expand(thread, anchor) == Shown(thread, Grown(thread, Padded(thread, anchor)))
ExpandBest(thread) == IF Matches(thread) = {} THEN Nothing ELSE Expand(thread, Best(thread))

-----------------------------------------------------------------------------
(* citations.py *)

\* citations_from_retrieval_passages: the label of file, section and page.
SameLabel(p, q) == Label[p] = Label[q]

\* _CitationBag.unique: the first passage of each label is its source.
Sources(given) ==
  FoldLeft(LAMBDA sources, p :
             IF \E q \in ToSet(sources) : SameLabel(p, q) THEN sources ELSE Append(sources, p),
           <<>>, given)

-----------------------------------------------------------------------------
(* A turn *)

\* What the model may ask for: a search, one of the other registered tools (all of
\* them only read), a tool that is not registered, arguments that are no JSON object.
Calls == {"search_manuals", "get_conversation", "unknown_tool", "no_object"}

Stages == {"asking", "calling", "replied"}
Entry == [asked: 0..MaxCalls, answered: 0..MaxCalls, passages: Seq(Passages)]
Turn == [stage: Stages, question: Text, rounds: 0..MaxToolRounds, calls: Seq(Calls),
         transcript: Seq(Entry),
         bag: Seq(Passages), broken: BOOLEAN,
         status: {"ok", "failed", "awaiting_configuration"}]

ASSUME NotATurn == NoTurn \notin Turn

Busy == turn # NoTurn
InStage(stage) == Busy /\ turn.stage = stage

TurnInit == messages = <<>> /\ turn = NoTurn

\* Messages of turns that are not followed here, and notes.
Write ==
  /\ ~Busy /\ Len(messages) < MaxThread
  /\ \E m \in Text : messages' = Append(messages, m)
  /\ UNCHANGED turn

\* send_user_message: the question is stored and the prompt is built.
Begin(q) ==
  /\ ~Busy /\ Len(messages) <= MaxBefore
  /\ turn' = [stage |-> "asking", question |-> q, rounds |-> 0, calls |-> <<>>,
              transcript |-> <<>>, bag |-> <<>>, broken |-> FALSE, status |-> "failed"]
  /\ UNCHANGED messages

\* An entry is an answer of the model with its calls, or the result of one of them.
Asked(n) == [asked |-> n, answered |-> 0, passages |-> <<>>]
Result(i, found) == [asked |-> 0, answered |-> i, passages |-> found]

AskForTools ==
  /\ InStage("asking") /\ turn.rounds < MaxToolRounds
  /\ \E n \in 1..MaxCalls : \E calls \in [1..n -> Calls] :
       turn' = [turn EXCEPT !.stage = "calling", !.rounds = @ + 1, !.calls = calls,
                            !.transcript = Append(@, Asked(n))]
  /\ UNCHANGED messages

\* What a handler ends with: a result, an error it maps, or one the registry catches.
MappedErrors == {"not_found", "invalid_arguments"}
Executed == {"ok", "tool_failed"} \union MappedErrors

\* ToolRegistry.invoke.  After an error of the database every statement of the
\* transaction fails; wrong arguments are noticed before.
Outcomes(call) ==
  CASE call = "no_object" -> {"invalid_json_arguments", "arguments_must_be_object"}
    [] call = "unknown_tool" -> {"unknown_tool"}
    [] OTHER -> IF turn.broken THEN {"tool_failed", "invalid_arguments"} ELSE Executed

\* execute_search_manuals: the passages of the answer of RetrievalService.
Found(call, outcome) ==
  IF call = "search_manuals" /\ outcome = "ok"
  THEN {SetToSeq(S) : S \in {T \in SUBSET Passages : Cardinality(T) <= MaxFound}}
  ELSE {<<>>}

\* The last answer of the model in the transcript.
Turned == Max({i \in DOMAIN turn.transcript : turn.transcript[i].asked > 0})

\* Mutant: a call whose arguments are no object is passed over.
RunCallOrSkip ==
  /\ InStage("calling") /\ turn.calls # <<>>
  /\ \E outcome \in Outcomes(Head(turn.calls)) :
     \E found \in Found(Head(turn.calls), outcome), broken \in {turn.broken, outcome = "tool_failed"} :
       turn' = [turn EXCEPT
         !.calls = Tail(@), !.bag = @ \o found, !.broken = turn.broken \/ broken,
         !.transcript = IF Head(turn.calls) = "no_object" THEN @
                        ELSE Append(@, Result(Len(@) - Turned + 1, found))]
  /\ UNCHANGED messages

\* Mutant: a search replaces the passages of the one before.
RunCallAnew ==
  /\ InStage("calling") /\ turn.calls # <<>>
  /\ \E outcome \in Outcomes(Head(turn.calls)) :
     \E found \in Found(Head(turn.calls), outcome), broken \in {turn.broken, outcome = "tool_failed"} :
       turn' = [turn EXCEPT
         !.calls = Tail(@), !.bag = IF found = <<>> THEN @ ELSE found, !.broken = turn.broken \/ broken,
         !.transcript = Append(@, Result(Len(@) - Turned + 1, found))]
  /\ UNCHANGED messages

RunCall ==
  /\ InStage("calling") /\ turn.calls # <<>>
  /\ \E outcome \in Outcomes(Head(turn.calls)) :
     \E found \in Found(Head(turn.calls), outcome), broken \in {turn.broken, outcome = "tool_failed"} :
       turn' = [turn EXCEPT
         !.calls = Tail(@), !.bag = @ \o found, !.broken = turn.broken \/ broken,
         !.transcript = Append(@, Result(Len(@) - Turned + 1, found))]
  /\ UNCHANGED messages

\* All calls are answered: the model is asked again, unless it had its rounds.
GoOn ==
  /\ InStage("calling") /\ turn.calls = <<>>
  /\ turn' = [turn EXCEPT !.stage = IF turn.rounds < MaxToolRounds THEN "asking" ELSE "replied"]
  /\ UNCHANGED messages

\* A final text; without content it is a failure, like any error of the model.
Conclude ==
  /\ InStage("asking")
  /\ \E status \in {"ok", "failed", "awaiting_configuration"} :
       turn' = [turn EXCEPT !.stage = "replied", !.status = status]
  /\ UNCHANGED messages

\* The reply is stored if there is one, and the request commits; after an error of
\* the database it can only be rolled back.
Finish ==
  /\ InStage("replied")
  /\ IF turn.broken THEN UNCHANGED messages
     ELSE IF turn.status = "ok"
     THEN \E reply \in Text : messages' = messages \o <<turn.question, reply>>
     ELSE messages' = Append(messages, turn.question)
  /\ turn' = NoTurn

TurnNext ==
  \/ Write \/ \E len \in Lengths : Begin([len |-> len, score |-> 0])
  \/ AskForTools \/ RunCall \/ GoOn \/ Conclude \/ Finish

TurnSpec == TurnInit /\ [][TurnNext]_turnVars
-----------------------------------------------------------------------------
(* Properties *)

TurnTypes ==
  /\ messages \in Seq(Text) /\ Len(messages) <= MaxThread + 2
  /\ turn \in Turn \union {NoTurn}

\* Whatever its length, the question is the last thing the model reads, in full,
\* and what comes before it is within the limits of the context.
PromptHoldsQuestion ==
  messages # <<>> =>
    /\ Last(Prompt(messages)) = Last(messages)
    /\ LET recent == RecentTurns(messages) IN
         Len(recent) <= TurnLimit /\ Chars(recent, 1, Len(recent)) <= CharBudget

\* When the model is asked again, each call of each of its answers has its result,
\* in the order of the calls, whatever was wrong with the call or its tool.
EveryCallIsAnswered ==
  InStage("asking") =>
    \A i \in DOMAIN turn.transcript :
      \A k \in 1..turn.transcript[i].asked :
        i + k \in DOMAIN turn.transcript /\ turn.transcript[i + k].answered = k

\* What holds in every state: the types, the question at the end of the prompt, and
\* a result for each call.
TurnInv == TurnTypes /\ PromptHoldsQuestion /\ EveryCallIsAnswered

HoldsMatch(thread, anchor, span) ==
  LET padded == Padded(thread, anchor)
      Fits(i, j) == Chars(thread, i, j) <= SpanBudget
  IN /\ span.hi - span.lo < SpanLimit
     /\ Fits(span.lo, span.hi) \/ span.lo = span.hi
     /\ Fits(padded.lo, padded.hi) => span.lo <= padded.lo /\ padded.hi <= span.hi
     /\ anchor \in span.lo..span.hi <=> (Fits(padded.lo, anchor) \/ padded.lo = anchor)

\* The window around a message, or the best match, is within its limits and keeps the
\* neighbours if they fit: growing never pushes them out.  The message itself is shown
\* exactly when it fits together with what is padded before it: the cut comes from the
\* end, so after a long message a match is lost from its own window.
SpanHoldsMatch ==
  ~Busy =>
    /\ \A anchor \in DOMAIN messages : HoldsMatch(messages, anchor, Expand(messages, anchor))
    /\ Matches(messages) # {} => HoldsMatch(messages, Best(messages), ExpandBest(messages))

Given == UNION {ToSet(turn.transcript[i].passages) : i \in DOMAIN turn.transcript}

\* Every passage the model was given in the turn is named among the sources of its
\* reply, nothing else is, and nothing twice.
SourcesNameAll ==
  LET sources == Sources(turn.bag) IN
  /\ ToSet(sources) \subseteq Given
  /\ \A p \in Given : \E q \in ToSet(sources) : SameLabel(p, q)
  /\ \A i, j \in DOMAIN sources : i # j => ~SameLabel(sources[i], sources[j])

\* A reply names what it rests on, whichever rounds it was read in.
AnswerIsGrounded == (InStage("replied") /\ turn.status = "ok") => SourcesNameAll
=============================================================================
