--------------------------- MODULE MaintenancePlan ---------------------------
(***************************************************************************)
(* The maintenance plan of one bike: its rules, entered by the owner or    *)
(* extracted from a manual, and how a newer rule supersedes the older ones *)
(* about the same thing.                                                   *)
(*                                                                         *)
(* An extraction is one transaction that lasts as long as the chat model   *)
(* needs: it looks whether there is something to do, asks the model, and   *)
(* then stores one rule after the other.  No lock on the user orders       *)
(* requests and deliveries; the database's row locks and its READ          *)
(* COMMITTED view are all there is.                                        *)
(***************************************************************************)
EXTENDS Naturals, Sequences, FiniteSets, FiniteSetsExt

CONSTANTS
  Keys,          \* system, component, action and usage variant
  Docs,          \* manufacturer manuals that may be extracted
  Sources,       \* what posted proposals name as their document, which may be None
  Slots,         \* requests and deliveries that run at the same time
  None,          \* NULL: the document of a manual rule, no rule superseded
  Idle,          \* a slot without a request
  MaxRules,      \* bound: rules ever stored
  MaxProposals   \* bound: valid proposals in one answer of the model

ASSUME NoDocument == None \notin Docs /\ Sources \subseteq Docs \union {None}
ASSUME Bounds == MaxRules \in Nat /\ MaxProposals \in Nat

VARIABLES
  rules,    \* committed rows of maintenance_rules, by identity
  drawn,    \* how many identities were drawn
  request,  \* what each slot is doing, with its uncommitted writes
  overlap   \* history: two requests were in progress at the same time

planVars == <<rules, drawn, request, overlap>>

-----------------------------------------------------------------------------
Ids == 1..MaxRules

Rule == [key: Keys, doc: Docs \union {None}, active: BOOLEAN,
         status: {"validated", "active", "superseded"},
         version: Nat \ {0}, prev: Ids \union {None}]

Superseding == [active |-> FALSE, status |-> "superseded"]

\* What a transaction has written of a row: all of it, or what it changed of a committed
\* one, superseding or activating it.
Write ==
  Rule \union {Superseding}
    \union [active: {TRUE}, status: {"active"}]
    \union [active: {TRUE}, status: {"active"}, version: Nat \ {0}]
    \union [active: {TRUE}, status: {"active"}, version: Nat \ {0}, prev: Ids]

\* A request for rules of "doc", activated or not.  "left" are the proposals it has
\* still to store, "rule" the one it is activating, as it was when it was read
\* ("known"), "priors" the versions of those it will supersede, as they were read, and 0
\* for the others, "writes" what it has flushed.
Request ==
  [phase: {"ask", "store", "find", "supersede"}, doc: Docs \union {None}, activate: BOOLEAN,
   left: Seq(Keys), rule: Ids \union {None}, known: Rule \union {None},
   priors: [Ids -> Nat], writes: [Ids -> Write \union {None}]]

ASSUME NoRow == None \notin Ids \union Write

PlanTypes ==
  /\ drawn \in 0..MaxRules
  /\ DOMAIN rules \subseteq 1..drawn /\ rules \in [DOMAIN rules -> Rule]
  /\ request \in [Slots -> Request \union {Idle}]
  /\ overlap \in BOOLEAN

PlanInit ==
  /\ rules = <<>>
  /\ drawn = 0
  /\ request = [s \in Slots |-> Idle]
  /\ overlap = FALSE

-----------------------------------------------------------------------------
Running(s, phase) == request[s] # Idle /\ request[s].phase = phase

\* What "old" becomes when "new" is written over it.
Over(new, old) ==
  [i \in DOMAIN new \union DOMAIN old |-> IF i \in DOMAIN new THEN new[i] ELSE old[i]]

Written(writes) == {i \in Ids : writes[i] # None}

\* What a transaction reads: committed rows with its own writes on top.
View(writes) ==
  [i \in DOMAIN rules \union {j \in Written(writes) : "key" \in DOMAIN writes[j]} |->
     IF i \in Written(writes)
     THEN IF i \in DOMAIN rules THEN Over(writes[i], rules[i]) ELSE writes[i]
     ELSE rules[i]]

\* Rows open transactions of these slots have written: others that write them wait.
LockedBy(slots) == UNION {Written(request[s].writes) : s \in {t \in slots : request[t] # Idle}}

\* list_active_rules, of one document.
ActiveOf(doc) ==
  {i \in DOMAIN rules : rules[i].active /\ rules[i].doc = doc
                          /\ rules[i].status \in {"active", "validated"}}

\* find_active_matching
ActiveMatching(view, key) ==
  {i \in DOMAIN view : view[i].key = key /\ view[i].active /\ view[i].status = "active"}

\* A proposal that passed the validation is a rule that is not active yet, of the first version.
NewRule(key, doc) ==
  [key |-> key, doc |-> doc, active |-> FALSE, status |-> "validated", version |-> 1,
   prev |-> None]

NoPriors == [i \in Ids |-> 0]

NewRequest(phase, doc, activate) ==
  [phase |-> phase, doc |-> doc, activate |-> activate, left |-> <<>>,
   rule |-> None, known |-> None, priors |-> NoPriors,
   writes |-> [i \in Ids |-> None]]

NoteOverlap == overlap' = (overlap \/ \E s \in Slots : request[s] # Idle)

-----------------------------------------------------------------------------
(* Requests *)

\* POST /v1/maintenance/rules: the owner's own rule, beside any other.
CreateRule(key) ==
  /\ drawn < MaxRules
  /\ drawn' = drawn + 1
  /\ rules' = [i \in DOMAIN rules \union {drawn + 1} |->
                IF i = drawn + 1 THEN [NewRule(key, None) EXCEPT !.active = TRUE, !.status = "active"]
                ELSE rules[i]]
  /\ UNCHANGED <<request, overlap>>

\* DELETE /v1/maintenance/rules/{id}
DeleteRule(i) ==
  /\ i \in DOMAIN rules
  /\ i \notin LockedBy(Slots)
  /\ rules' = [j \in DOMAIN rules \ {i} |-> rules[j]]
  /\ UNCHANGED <<drawn, request, overlap>>

\* A manual that has active rules is only extracted again when forced.
Skipped(doc, force) == ~force /\ ActiveOf(doc) # {}

\* extract_from_document: the delivered task, or the owner's rebuild.
BeginExtract(s, doc, force) ==
  /\ request[s] = Idle
  /\ ~Skipped(doc, force)
  /\ request' = [request EXCEPT ![s] = NewRequest("ask", doc, TRUE)]
  /\ NoteOverlap
  /\ UNCHANGED <<rules, drawn>>

\* "already_extracted": the request ends.
SkipExtract(s, doc, force) ==
  /\ request[s] = Idle
  /\ Skipped(doc, force)
  /\ UNCHANGED planVars

\* The model answered; these are its proposals that pass the validation.
Answer(s, proposals) ==
  /\ Running(s, "ask")
  /\ request' = [request EXCEPT ![s].phase = "store", ![s].left = proposals]
  /\ UNCHANGED <<rules, drawn, overlap>>

\* POST /v1/maintenance/rules/extract with proposals: no model is asked.
BeginAccept(s, doc, activate, proposals) ==
  /\ request[s] = Idle
  /\ request' = [request EXCEPT ![s] =
       [NewRequest("store", doc, activate) EXCEPT !.left = proposals]]
  /\ NoteOverlap
  /\ UNCHANGED <<rules, drawn>>

\* Mutant: only rules that were committed before are looked up.
PriorsCommitted(writes, key) == ActiveMatching(rules, key)

Priors(writes, key) == ActiveMatching(View(writes), key)

\* The first half of _activate: what is active about the same thing.
WithPriors(r) ==
  LET view == View(r.writes)
      priors == Priors(r.writes, r.known.key) IN
  [r EXCEPT !.phase = "supersede",
            !.priors = [i \in Ids |-> IF i \in priors THEN view[i].version ELSE 0]]

\* add_rule of the next proposal, and with activation the first half of _activate: what
\* another transaction does between the two it might as well do before both, as none sees
\* the new row.
StoreNext(s) ==
  /\ Running(s, "store") /\ request[s].left # <<>>
  /\ drawn < MaxRules
  /\ drawn' = drawn + 1
  /\ LET r == request[s]
         new == NewRule(Head(r.left), r.doc)
         stored == [r EXCEPT !.left = Tail(@), !.writes[drawn + 1] = new] IN
     request' = [request EXCEPT ![s] =
       IF r.activate THEN WithPriors([stored EXCEPT !.rule = drawn + 1, !.known = new])
       ELSE stored]
  /\ UNCHANGED <<rules, overlap>>

\* POST /v1/maintenance/rules/{id}/activate.  A rule that is active is answered as it is.
\* The rule is read before the others are: what is committed between makes a difference
\* only if it writes the rule, which then an open transaction has done already.
BeginActivate(s, i) ==
  /\ request[s] = Idle /\ i \in DOMAIN rules
  /\ rules[i].status \in {"validated", "active"}
  /\ ~(rules[i].status = "active" /\ rules[i].active)
  /\ LET read == [NewRequest("find", None, TRUE) EXCEPT !.rule = i, !.known = rules[i]] IN
     request' = [request EXCEPT ![s] = IF i \in LockedBy(Slots) THEN read ELSE WithPriors(read)]
  /\ NoteOverlap
  /\ UNCHANGED <<rules, drawn>>

\* The rule was read; now the first half of _activate.
FindPriors(s) ==
  /\ Running(s, "find")
  /\ request' = [request EXCEPT ![s] = WithPriors(@)]
  /\ UNCHANGED <<rules, drawn, overlap>>

Found(r) == {i \in Ids : r.priors[i] # 0}

\* Those it will write, beside the rule itself.
Old(r) == Found(r) \ {r.rule}

\* One more than the highest of its own and of those it supersedes, as they were read.
NextVersion(r) ==
  IF Found(r) = {} THEN r.known.version
  ELSE 1 + Max({r.known.version} \union {r.priors[i] : i \in Old(r)})

\* Mutant: an UPDATE of the rule that finds no row is not noticed.
PresentPriors(r, view) == Old(r) \subseteq DOMAIN view

\* Every row to be written is still there.
Present(r, view) == Found(r) \union {r.rule} \subseteq DOMAIN view

\* The second half of _activate, one UPDATE per row.  It waits for rows another
\* transaction has written, and a row deleted meanwhile fails it (StaleDataError,
\* see Abort).
Supersede(s) ==
  /\ Running(s, "supersede")
  /\ LET r == request[s] IN
     /\ Present(r, View(r.writes))
     /\ (Old(r) \union {r.rule}) \intersect LockedBy(Slots \ {s}) = {}
     /\ \E first \in IF Old(r) = {} \/ r.known.prev # None THEN {r.known.prev} ELSE Old(r) :
          LET after == [r.known EXCEPT !.active = TRUE, !.status = "active", !.prev = first,
                                       !.version = NextVersion(r)]
              changed == [c \in {d \in DOMAIN after : after[d] # r.known[d]} |-> after[c]]
              Flushed(i, new) == IF r.writes[i] = None THEN new ELSE Over(new, r.writes[i]) IN
          request' = [request EXCEPT ![s] =
            [r EXCEPT !.phase = "store", !.rule = None, !.known = None, !.priors = NoPriors,
                      !.writes = [i \in Ids |-> CASE i = r.rule -> Flushed(i, changed)
                                                  [] i \in Old(r) -> Flushed(i, Superseding)
                                                  [] OTHER -> @[i]]]]
  /\ UNCHANGED <<rules, drawn, overlap>>

\* The end of the transaction.
Commit(s) ==
  /\ Running(s, "store") /\ request[s].left = <<>>
  /\ rules' = View(request[s].writes)
  /\ request' = [request EXCEPT ![s] = Idle]
  /\ UNCHANGED <<drawn, overlap>>

\* The model fails, the process stops, the database breaks a deadlock, or a row to
\* be written is gone: nothing of the transaction remains.
Abort(s) ==
  /\ request[s] # Idle
  /\ request' = [request EXCEPT ![s] = Idle]
  /\ UNCHANGED <<rules, drawn, overlap>>

-----------------------------------------------------------------------------
Proposals == UNION {[1..n -> Keys] : n \in 0..MaxProposals}

PlanNext ==
  \/ \E key \in Keys : CreateRule(key)
  \/ \E i \in DOMAIN rules : DeleteRule(i)
  \/ \E s \in Slots :
       \/ \E doc \in Docs, force \in BOOLEAN :
            BeginExtract(s, doc, force) \/ SkipExtract(s, doc, force)
       \/ \E proposals \in Proposals : Answer(s, proposals)
       \/ \E doc \in Sources, activate \in BOOLEAN, proposals \in Proposals \ {<<>>} :
            BeginAccept(s, doc, activate, proposals)
       \/ StoreNext(s)
       \/ \E i \in DOMAIN rules : BeginActivate(s, i)
       \/ FindPriors(s)
       \/ Supersede(s)
       \/ Commit(s)
       \/ Abort(s)

PlanSpec == PlanInit /\ [][PlanNext]_planVars

-----------------------------------------------------------------------------
(* Properties *)

\* The columns "active" and "validation_status" never contradict each other, so
\* list_active_rules and find_active_matching see the same rules, whatever
\* transactions overlap.
ActiveMeansActive == \A i \in DOMAIN rules : rules[i].active <=> rules[i].status = "active"

\* Superseding never leaves a gap: what had an active rule still has one after any
\* step that is not the owner deleting a rule, whatever transactions overlap.
Planned(key) == ActiveMatching(rules, key) # {}
NoKeyIsLost ==
  [][DOMAIN rules \subseteq DOMAIN rules' => \A key \in Keys : Planned(key) => Planned(key)']_planVars

\* "New versions supersede old ones": one at a time, at most one of the rules that
\* came from manuals is active per key, across documents, rebuilds and late
\* activations.
OneRulePerKey ==
  ~overlap => \A i, j \in DOMAIN rules :
    (rules[i].active /\ rules[j].active /\ rules[i].key = rules[j].key
       /\ rules[i].doc # None /\ rules[j].doc # None) => i = j

\* One at a time, a rule has a higher version than the one it superseded, which is
\* about the same thing and not active any more.
VersionsGrow ==
  ~overlap => \A i \in DOMAIN rules :
    LET p == rules[i].prev IN
    (p # None /\ p \in DOMAIN rules) =>
      rules[p].version < rules[i].version /\ rules[p].key = rules[i].key /\ ~rules[p].active

\* What holds in every state: the types, the two columns that say what is active, and
\* the order of versions.
RulesInv ==
  /\ PlanTypes
  /\ ActiveMeansActive
  /\ VersionsGrow
  /\ OneRulePerKey
=============================================================================
