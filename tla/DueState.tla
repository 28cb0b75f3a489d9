------------------------------ MODULE DueState ------------------------------
(***************************************************************************)
(* What is due on a bike: the due item derived from one active rule, the   *)
(* service history, the meter reading and the date, while the owner logs,  *)
(* backdates, corrects and deletes services, reads or estimates the meter, and days  *)
(* pass.  Nothing of it is stored: Due is recomputed from the state.       *)
(*                                                                         *)
(* Hours are counted in one unit, dates in days; Absent stands for NULL.  *)
(***************************************************************************)
EXTENDS Integers, FiniteSets, FiniteSetsExt

CONSTANTS
  Intervals,      \* hour intervals a rule may have, in hours
  Periods,        \* calendar intervals a rule may have, in days
  DueSoonHours, DueSoonDays,
  Limit,          \* how many records are read: list_for_bike(limit=500)
  MaxHours,       \* bound: the meter
  MaxDay,         \* bound: the last day
  MaxRecords,     \* bound: services logged
  Absent          \* NULL

ASSUME Soon == DueSoonHours \in Nat \ {0} /\ DueSoonDays \in Nat \ {0}
ASSUME PositiveIntervals == Intervals \subseteq Nat \ {0} /\ Periods \subseteq Nat \ {0}
ASSUME DueBounds == {MaxHours, MaxDay, MaxRecords} \subseteq Nat /\ Limit \in Nat \ {0}
ASSUME NoNumber == Absent \notin Int

VARIABLES
  rule,       \* the active rule
  log,        \* the maintenance records of the bike
  meter,      \* current_engine_hours
  estimated,  \* current_engine_hours_is_estimated
  today

dueVars == <<rule, log, meter, estimated, today>>

-----------------------------------------------------------------------------
Hours == 0..MaxHours
ReadingOrNone == Hours \union {Absent}

\* create_rule: at least one interval.  (It accepts zero, a rule that is always due;
\* the model takes positive intervals.)
Rules ==
  {r \in [initial: Intervals \union {Absent}, recurring: Intervals \union {Absent},
          calendar: Periods \union {Absent}, first: BOOLEAN] :
     \E f \in {"initial", "recurring", "calendar"} : r[f] # Absent}

\* matching: the record has the rule's system, component and action.
Records == [created: 1..MaxRecords, date: 0..MaxDay, hours: ReadingOrNone, matching: BOOLEAN]

DueTypes ==
  /\ rule \in Rules
  /\ log \subseteq Records
  /\ \A r, s \in log : r.created = s.created => r = s
  /\ meter \in ReadingOrNone /\ estimated \in BOOLEAN
  /\ today \in 0..MaxDay

DueInit ==
  /\ rule \in Rules
  /\ log = {}
  /\ meter \in ReadingOrNone /\ estimated = TRUE
  /\ today = 0

-----------------------------------------------------------------------------
(* What is due: maintenance/due_state.py *)

Newer(r, s) == r.date > s.date \/ (r.date = s.date /\ r.created > s.created)

\* list_for_bike: the latest records, whatever they are about.
Read == {r \in log : Cardinality({s \in log : Newer(s, r)}) < Limit}

Matches == {r \in Read : r.matching}

NoService == [created |-> 0, date |-> 0, hours |-> 0, matching |-> FALSE]

\* Mutant: the entry made last, whatever its date.
LastEntered ==
  IF Matches = {} THEN NoService
  ELSE CHOOSE r \in Matches : \A s \in Matches : r.created >= s.created

\* The last matching service, or NoService.
LastService ==
  IF Matches = {} THEN NoService
  ELSE CHOOSE r \in Matches : \A s \in Matches : r = s \/ Newer(r, s)

FirstOf(a, b) == IF a # Absent THEN a ELSE b

\* The first service is due after the initial interval, later ones recur.
HourInterval(last) ==
  IF last = NoService THEN FirstOf(rule.initial, rule.recurring)
  ELSE FirstOf(rule.recurring, rule.initial)

HoursLeft(last) ==
  IF Absent \in {HourInterval(last), meter, last.hours} THEN Absent
  ELSE last.hours + HourInterval(last) - meter

\* Without a service there is no day to count from.
DaysLeft(last) ==
  IF rule.calendar = Absent \/ last = NoService THEN Absent
  ELSE last.date + rule.calendar - today

Scored(left, soon) ==
  CASE left = Absent -> "none"
    [] left # Absent /\ left <= 0 -> "overdue"
    [] left # Absent /\ left > 0 /\ left <= soon -> "due_soon"
    [] OTHER -> "ok"

HourStatus(last) == Scored(HoursLeft(last), DueSoonHours)
DayStatus(last) == Scored(DaysLeft(last), DueSoonDays)

Worst(S) ==
  IF "overdue" \in S THEN "overdue" ELSE IF "due_soon" \in S THEN "due_soon" ELSE "ok"

\* whichever_comes_first, or all of the thresholds.
Combined(statuses) ==
  IF ~rule.first /\ "ok" \in statuses /\ statuses # {"ok"} THEN "due_soon" ELSE Worst(statuses)

\* Mutant: estimated hours soften whatever the calendar says.
SoftenedAlways(hour, day) ==
  Combined({hour, day} \ {"none"}) = "overdue" /\ estimated /\ hour = "overdue"

\* Only estimated hours say that it is overdue.
Softened(hour, day) ==
  /\ Combined({hour, day} \ {"none"}) = "overdue" /\ estimated
  /\ hour = "overdue" /\ day \in {"none", "ok"}

Verdict(last, hour, day) ==
  LET statuses == {hour, day} \ {"none"} IN
  CASE statuses = {} -> IF last = NoService THEN "never_serviced" ELSE "unknown"
    [] Softened(hour, day) -> "due_soon"
    [] ~Softened(hour, day) /\ Combined(statuses) = "ok" /\ last = NoService -> "never_serviced"
    [] OTHER -> Combined(statuses)

Judged(last, hour, day) ==
  [status |-> Verdict(last, hour, day), hour |-> hour, day |-> day, last |-> last,
   definitive |-> (last = NoService \/ {hour, day} # {"none"}) /\ ~Softened(hour, day)]

\* derive_due_items, for the one rule.  (The sets bind each value once.)
Due ==
  CHOOSE due \in UNION {{Judged(last, hour, day) : hour \in {HourStatus(last)},
                                                  day \in {DayStatus(last)}} : last \in {LastService}} : TRUE

-----------------------------------------------------------------------------
(* The owner, and time *)

\* created_at orders the entries.
NextEntry == Max({0} \union {r.created : r \in log}) + 1

\* POST /v1/maintenance: the date is the owner's word, as are the hours.  Hours
\* of services of other components are left out of the log: nothing reads them.
LogService(date, hours, matching, sync, guess) ==
  /\ NextEntry \in 1..MaxRecords
  /\ log' = log \union {[created |-> NextEntry, date |-> date,
                         hours |-> IF matching THEN hours ELSE Absent, matching |-> matching]}
  /\ \/ ~sync /\ UNCHANGED <<meter, estimated>>
     \/ sync /\ hours # Absent /\ meter' = hours /\ estimated' = guess
  /\ UNCHANGED <<rule, today>>

\* PATCH /v1/maintenance/{id}: everything but the bike and the time of entry may
\* change, also what the service was about; the meter does not follow.
EditService(r, date, hours, matching) ==
  /\ r \in log
  /\ log' = (log \ {r}) \union {[r EXCEPT !.date = date, !.hours = hours, !.matching = matching]}
  /\ UNCHANGED <<rule, meter, estimated, today>>

\* DELETE /v1/maintenance/{id}
DeleteService(r) ==
  /\ r \in log
  /\ log' = log \ {r}
  /\ UNCHANGED <<rule, meter, estimated, today>>

\* POST /v1/bikes/{id}/engine-hours
ReadMeter(hours, guess) ==
  /\ meter' = hours /\ estimated' = guess
  /\ UNCHANGED <<rule, log, today>>

DayPasses ==
  /\ today < MaxDay
  /\ today' = today + 1
  /\ UNCHANGED <<rule, log, meter, estimated>>

DueNext ==
  \/ \E date \in 0..MaxDay, hours \in ReadingOrNone, matching, sync, guess \in BOOLEAN :
       LogService(date, hours, matching, sync, guess)
  \/ \E r \in log, date \in 0..MaxDay, matching \in BOOLEAN :
       \E hours \in IF matching THEN ReadingOrNone ELSE {Absent} :
         EditService(r, date, hours, matching)
  \/ \E r \in log : DeleteService(r)
  \/ \E hours \in Hours, guess \in BOOLEAN : ReadMeter(hours, guess)
  \/ DayPasses

DueSpec == DueInit /\ [][DueNext]_dueVars

-----------------------------------------------------------------------------
(* Properties *)

\* The order in which items are listed: _URGENCY.
Urgency ==
  [overdue |-> 0, due_soon |-> 1, never_serviced |-> 2, unknown |-> 3, ok |-> 4]

\* Riding on, and letting days pass.
Aging ==
  /\ log' = log /\ estimated' = estimated
  /\ meter' = meter \/ (meter # Absent /\ meter' > meter)

\* A service logged today with the current hours: the item is not overdue any more,
\* unless a later date has been entered before.
LoggedNow(r) == r.matching /\ r.date = today /\ r.hours = meter
ServiceClears ==
  ((\A s \in log : s.date <= today) /\ \E r \in log' \ log : LoggedNow(r)) =>
    Due'.status # "overdue"

\* A service with an earlier date than the last matching one leaves the item as it is.
BackdatedIsNeutral ==
  \A r \in log' \ log :
    (estimated' = estimated /\ Due.last # NoService /\ r.date < Due.last.date) => Due' = Due

\* What is entered counts by its date, not by when it was entered: services clear the
\* item or leave it alone (unless they move the meter).
HistoryCounts ==
  [][(meter' = meter /\ log \subseteq log') => ServiceClears /\ BackdatedIsNeutral]_dueVars
=============================================================================
