--------------------------- MODULE Recommendations ---------------------------
(***************************************************************************)
(* What the owner is advised about the due item of DueState: a priority    *)
(* from its status alone, an advice for the conditions the owner names     *)
(* (dust, a ride coming up, a symptom), and what a language model adds.    *)
(* The rule's intervals are the manufacturer's; the advice about them may  *)
(* urge, never rewrite.                                                    *)
(*                                                                         *)
(* Nothing is stored: a recommendation is a function of the state, of the  *)
(* tags and of the rows the model answers.                                 *)
(***************************************************************************)
EXTENDS DueState, SequencesExt

CONSTANT MaxRows   \* bound: rows in one answer of the model

ASSUME RowBound == MaxRows \in Nat

-----------------------------------------------------------------------------
(* Tags and hints *)

\* Dust, sand, mud, wet, race and an upcoming ride count alike ("hard" use), as do a
\* modification and a symptom ("watch").
Conditions == {"hard", "watch"}

Priority(status) ==
  CASE status = "overdue" -> "act_now"
    [] status \in {"due_soon", "never_serviced"} -> "plan_soon"
    [] status = "ok" -> "monitor"
    [] OTHER -> "unknown"

\* build_baseline: what is due, a priority, and the intervals of the rule as they are.
Baseline(item) ==
  [status |-> item.status, priority |-> Priority(item.status),
   hours |-> {rule.initial, rule.recurring} \ {Absent}, days |-> {rule.calendar} \ {Absent}]

\* "Consider doing this sooner": an overdue item is, whatever the tags.
Sooner(item, tags) == item.status = "overdue" \/ "hard" \in tags

\* A modification or a symptom alone is no reason where nothing is known to be due.
Hinted(item, tags) ==
  /\ tags # {}
  /\ \/ Sooner(item, tags)
     \/ "watch" \in tags /\ item.status \in {"due_soon", "never_serviced"}

\* apply_condition_hints, for the one item: at most one advice.
Hints(item, tags) ==
  IF Hinted(item, tags)
  THEN {[source |-> "hints", earlier |-> Sooner(item, tags), quotes |-> {}]} ELSE {}

-----------------------------------------------------------------------------
(* What the model adds *)

\* The intervals a text may quote.
Quotes == ({"hours"} \X Intervals) \union ({"days"} \X Periods)

\* _mentions_conflicting_interval: hours are compared when the rule has some, days
\* when it has a period.
Conflicting(quotes, item) ==
  \E q \in quotes :
    IF q[1] = "hours" THEN item.hours # {} /\ q[2] \notin item.hours
    ELSE item.days # {} /\ q[2] \notin item.days

\* A row is usable when it is about the item and not too short to be an advice: the
\* model may speak of rules it made up.
Rows == [usable: BOOLEAN, earlier: BOOLEAN, quotes: {{}} \union {{q} : q \in Quotes}]

\* Mutant: a row about an item that has an advice replaces it.
TakeOver(list, row, item) ==
  IF ~row.usable \/ Conflicting(row.quotes, item) THEN list
  ELSE {[source |-> "ai", earlier |-> row.earlier, quotes |-> row.quotes]}

\* The loop of enrich_contextual_with_ai, for the rows about the one item.
Take(list, row, item) ==
  IF list # {} \/ ~row.usable \/ Conflicting(row.quotes, item) THEN list
  ELSE {[source |-> "ai", earlier |-> row.earlier, quotes |-> row.quotes]}

\* build_recommendations.  The model is asked when there are tags, or something is
\* not in order.  An answer without usable rows leaves the hints as they are, and so
\* does a failure of the model, which adds a note.
Advice(item, tags, answer) ==
  IF tags = {} /\ item.status = "ok" THEN Hints(item, tags)
  ELSE FoldLeft(LAMBDA list, row : Take(list, row, item), Hints(item, tags), answer)

\* GET /v1/maintenance/recommendations: the due state and the rules are read first,
\* and what is answered is made of them.
Recommended == Baseline(Due)

-----------------------------------------------------------------------------
(* Properties *)

\* Naming one more condition never takes an advice back, nor the word to do it
\* sooner; an overdue item is advised under any condition.
HintsGrowWithTags ==
  LET item == Recommended IN
  \A tags \in SUBSET Conditions :
    /\ (item.status = "overdue" /\ tags # {}) => \E h \in Hints(item, tags) : h.earlier
    /\ \A h \in Hints(item, tags) : \A c \in Conditions :
         \E g \in Hints(item, tags \union {c}) : h.earlier => g.earlier

\* Whatever the model answers, it adds: at most one advice about an item, none about
\* an item that has a hint, and none that quotes hours the rule does not have where it
\* has hours, nor a period where it has another.
OnlyAdds(item, tags, list) ==
  /\ Hints(item, tags) # {} => list = Hints(item, tags)
  /\ Cardinality(list) <= 1
  /\ \A a \in list : \A q \in a.quotes :
       IF q[1] = "hours" THEN {rule.initial, rule.recurring} \subseteq {Absent} \/
                              q[2] \in {rule.initial, rule.recurring}
       ELSE rule.calendar \in {Absent, q[2]}

\* OnlyAdds, whatever the conditions and the answer.  (What the model adds does not
\* depend on the history: the last day, with at most one service, is enough to see every
\* status.)
ModelOnlyAdds ==
  (Cardinality(log) <= 1 /\ today = MaxDay) =>
    \A item \in {Recommended}, tags \in SUBSET Conditions, answer \in BoundedSeq(Rows, MaxRows) :
      \A list \in {Advice(item, tags, answer)} : OnlyAdds(item, tags, list)

\* What holds in every state: the types, hints that grow with what the owner names,
\* and a model that can only add.
AdviceInv ==
  /\ DueTypes
  /\ HintsGrowWithTags
  /\ ModelOnlyAdds

\* Riding on and letting days pass never moves an item down the list, and takes no
\* advice back: no combination of thresholds, estimates and missing values hides what
\* was due.
Hotter(item, next) ==
  /\ Urgency[next.status] <= Urgency[item.status]
  /\ item.priority = "act_now" => next.priority = "act_now"
  /\ \A tags \in SUBSET Conditions : \A h \in Hints(item, tags) :
       \E g \in Hints(next, tags) : h.earlier => g.earlier

UrgencyNeverFalls ==
  [][Aging => \A item \in {Recommended}, next \in {Recommended'} : Hotter(item, next)]_dueVars
=============================================================================
