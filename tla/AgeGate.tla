------------------------------- MODULE AgeGate -------------------------------
(***************************************************************************)
(* Who may use the application by age: services/age_gate.py.  The owner    *)
(* says a date of birth, and may say another one later; a guardian's       *)
(* consent is recorded; and days pass, among them leap days and birthdays. *)
(* What an owner may do is not stored: it is computed from these whenever  *)
(* it is asked for.                                                        *)
(***************************************************************************)
EXTENDS Integers, Sequences

CONSTANTS
  MinAge, AdultAge,     \* 13 and 18
  FirstYear, LastYear,  \* bound: the calendar
  MaxConsents,          \* bound: consents recorded
  NoDate                \* NULL

ASSUME Ages == MinAge \in Nat \ {0} /\ AdultAge \in Nat /\ MinAge < AdultAge
ASSUME Calendar == FirstYear \in Nat /\ LastYear \in Nat /\ FirstYear <= LastYear
ASSUME Room == MaxConsents \in Nat

VARIABLES
  born,      \* users.date_of_birth
  consents,  \* the status of each row of parental_consents, in the order of created_at
  date       \* the day it is, UTC

ageVars == <<born, consents, date>>

-----------------------------------------------------------------------------
(* A calendar of the days around 29 February *)

Leap(year) == year % 4 = 0
Dates ==
  {d \in [year: FirstYear..LastYear, month: {2, 3}, day: {1, 28, 29}] :
     /\ d.month = 2 => d.day \in {28, 29}
     /\ d.month = 3 => d.day = 1
     /\ d.day = 29 => Leap(d.year)}

ASSUME Distinct == NoDate \notin Dates

EarlierInYear(a, b) == a.month < b.month \/ (a.month = b.month /\ a.day < b.day)
Earlier(a, b) == a.year < b.year \/ (a.year = b.year /\ EarlierInYear(a, b))

-----------------------------------------------------------------------------

\* Mutant: a year is taken off after the birthday, not before it.
YearsOldSwapped(b, today) ==
  today.year - b.year - (IF EarlierInYear(b, today) THEN 1 ELSE 0)

YearsOld(b, today) ==
  today.year - b.year - (IF EarlierInYear(today, b) THEN 1 ELSE 0)

ConsentStatus == {"pending", "granted", "revoked"}

LatestForMinor == consents[Len(consents)]

Eligibility ==
  IF born = NoDate THEN "unknown"
  ELSE CASE YearsOld(born, date) < MinAge -> "blocked_under_13"
         [] YearsOld(born, date) >= AdultAge -> "adult"
         [] OTHER -> IF consents # <<>> /\ LatestForMinor = "granted" THEN "consented" ELSE "needs_consent"

AgeTypeOK ==
  /\ born \in Dates \union {NoDate}
  /\ consents \in Seq(ConsentStatus) /\ Len(consents) <= MaxConsents
  /\ date \in Dates

AgeInit ==
  /\ born = NoDate /\ consents = <<>>
  /\ date = [year |-> FirstYear, month |-> 2, day |-> 28]

\* Not in the future, and not of a child.
Acceptable(d) == ~Earlier(date, d) /\ YearsOld(d, date) >= MinAge

\* POST /v1/me/date-of-birth: also one that has been said before may be replaced.
SetDateOfBirth(d) ==
  /\ Acceptable(d)
  /\ born' = d
  /\ UNCHANGED <<consents, date>>

MayRecord == Eligibility # "blocked_under_13"

\* POST /v1/parental-consents: of anybody who is not blocked, also before the date of
\* birth is known, and of an adult.  The program writes no other status.
RecordGranted ==
  /\ MayRecord /\ Len(consents) < MaxConsents
  /\ consents' = Append(consents, "granted")
  /\ UNCHANGED <<born, date>>

NextDay ==
  /\ \E d \in Dates :
       /\ Earlier(date, d) /\ \A e \in Dates : Earlier(date, e) => e = d \/ Earlier(d, e)
       /\ date' = d
  /\ UNCHANGED <<born, consents>>

AgeNext == (\E d \in Dates : SetDateOfBirth(d)) \/ RecordGranted \/ NextDay

AgeSpec == AgeInit /\ [][AgeNext]_ageVars

-----------------------------------------------------------------------------
(* Properties *)

\* The day one who was born on b becomes n: after a leap day, 1 March in other years.
Birthday(b, n) ==
  IF b.day = 29 /\ ~Leap(b.year + n) THEN [year |-> b.year + n, month |-> 3, day |-> 1]
  ELSE [year |-> b.year + n, month |-> b.month, day |-> b.day]

\* What an owner may do, the more the higher.
Access == [blocked_under_13 |-> 0, unknown |-> 1, needs_consent |-> 2, consented |-> 3, adult |-> 4]

\* "Under-13 accounts are not allowed", "18+ may use Vroometr directly": whatever is
\* entered in whatever order, nobody whose date of birth is stored is a child; with it
\* unchanged, access never shrinks from one day to the next; and adults are exactly
\* those who have had that birthday, leap days included.
AccessOnlyGrows ==
  [][/\ born' # NoDate => Eligibility' \in {"needs_consent", "consented", "adult"}
     /\ born' = born => Access[Eligibility] <= Access[Eligibility']
     /\ born' # NoDate =>
          ((Eligibility' = "adult") <=> ~Earlier(date', Birthday(born', AdultAge)))]_ageVars
=============================================================================
