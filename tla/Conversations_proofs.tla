------------------------- MODULE Conversations_proofs -------------------------
(***************************************************************************)
(* Theorems of Conversations, for any finite number of requests, any       *)
(* bikes, any length of the summary and any length of the thread; and of   *)
(* AssistantTurn, for any limits, any thread and any finite library.       *)
(***************************************************************************)
EXTENDS Conversations, AssistantTurn, FiniteInduction, TLAPS

Loaded == {r \in Requests : At(r, "loaded")}
Writing == {r \in Requests : Active(r) /\ session[r].stage # "done"}

\* A request that was let in has room for the rows it may still write: one until it is
\* done, and one more while it has written none.
Room == Len(log) + Cardinality(Loaded) + Cardinality(Writing) <= MaxLog

\* What a request has read and written.  What it was answered is about the bike the thread
\* is on and summed up in the newest summary, because nobody else commits anything between
\* the update of the thread and the commit.
WorkOK(r) ==
  Active(r) =>
    /\ session[r].rows \subseteq Positions
    /\ session[r].rows = {} <=> session[r].stage = "loaded"
    /\ session[r].rows = {} => session[r].summary = {}
    /\ session[r].rows # {} => alive
    /\ session[r].stage = "asking" => session[r].job = "turn"
    /\ session[r].stage \in {"asking", "done"} => holder = r /\ session[r].bike = bike
    /\ ~Switching(r) => /\ \A i \in session[r].rows : log[i].kind # "switch"
                        /\ session[r].summary \subseteq Messages(kept \union session[r].rows)
    /\ Switching(r) => /\ \A i, j \in session[r].rows : i = j
                       /\ \A i \in session[r].rows : /\ log[i].kind = "switch"
                                                     /\ log[i].bike = session[r].job
                                                     /\ log[i].from # log[i].bike
    /\ Answers(r) => /\ session[r].stage = "done" /\ ~Switching(r)
                     /\ session[r].summary = Newest(Messages(kept \union session[r].rows))
    /\ \A i \in session[r].rows : log[i].kind = "assistant" => log[i].bike = bike

\* What a request knows that is alone.
AloneOK(r) ==
  Active(r) =>
    /\ session[r].bike = bike
    /\ \A i \in kept, j \in session[r].rows : i < j
    /\ ~Switching(r) => /\ \A i \in session[r].rows : log[i].bike = bike
                        /\ session[r].rows # {} =>
                             session[r].summary = Newest(Messages(kept \union session[r].rows))
    /\ Switching(r) => \A i \in session[r].rows : log[i].from = bike

\* What the rows of a thread tell when requests came one at a time.
History ==
  /\ summary = Newest(Messages(kept))
  /\ \A j \in Switches : log[j].from # log[j].bike
  /\ \A i \in kept : (\A k \in Switches : k <= i) => log[i].bike = bike
  /\ \A i, j \in Switches : NextSwitch(i, j) => log[j].from = log[i].bike
  /\ \A i \in Messages(kept) : \A j \in Switches :
       /\ LastSwitch(j, i) => log[i].bike = log[j].bike
       /\ NextSwitch(i, j) => log[i].bike = log[j].from

OneAtATime == \A q, r \in Requests : Active(q) /\ Active(r) => q = r

Alone == ~overlap => OneAtATime /\ (\A r \in Requests : AloneOK(r)) /\ History

IInv ==
  /\ TypeOK /\ Room /\ DeletedIsEmpty /\ SummaryIsKept
  /\ \A r \in Requests : WorkOK(r)
  /\ Alone

-----------------------------------------------------------------------------
(* The rows of the thread *)

\* Rows are only added, at the end.
Grows == \A i \in Positions : i \in Positions' /\ log'[i] = log[i]

LEMMA Rows ==
  ASSUME TypeOK
  PROVE  /\ Positions = 1..Len(log) /\ Len(log) \in Nat /\ Positions \subseteq 1..MaxLog
         /\ \A i \in Positions : log[i] \in Message \union Boundary /\ i \in Nat
BY Limits DEF TypeOK, Positions

LEMMA Added ==
  ASSUME TypeOK, NEW row \in Message \union Boundary, Len(log) < MaxLog,
         NEW n, n = Len(log) + 1, log' = Append(log, row)
  PROVE  /\ log' \in Seq(Message \union Boundary) /\ Len(log') = n /\ n <= MaxLog /\ n \in Nat
         /\ Positions' = Positions \union {n} /\ n \notin Positions /\ log'[n] = row
         /\ Grows /\ n \in 1..MaxLog /\ \A i \in Positions : i < n
<1>1. log \in Seq(Message \union Boundary) /\ Len(log) \in Nat /\ DOMAIN log = 1..Len(log)
  BY DEF TypeOK
<1>2. PICK t : t = Append(log, row)
  OBVIOUS
<1>3. /\ t \in Seq(Message \union Boundary) /\ Len(t) = n /\ DOMAIN t = 1..n /\ t[n] = row
      /\ \A i \in 1..Len(log) : t[i] = log[i]
  BY <1>1, <1>2
<1>4. DOMAIN log' = DOMAIN log \union {n} /\ n \notin DOMAIN log /\ \A i \in DOMAIN log : i < n
  BY <1>1, <1>2, <1>3
<1>5. n <= MaxLog /\ n \in Nat /\ n \in 1..MaxLog
  BY <1>1, Limits
<1>6. \A i \in DOMAIN log : i \in DOMAIN log' /\ log'[i] = log[i]
  BY <1>1, <1>2, <1>3, <1>4
<1> QED BY <1>2, <1>3, <1>4, <1>5, <1>6 DEF Positions, Grows

LEMMA SameMessages ==
  ASSUME Grows, NEW S \in SUBSET Positions
  PROVE  Messages(S)' = Messages(S)
BY DEF Grows, Messages

LEMMA NewestAre ==
  ASSUME NEW S
  PROVE  Newest(S) \subseteq S /\ Messages(S) \subseteq S
BY DEF Newest, Messages

LEMMA NoMessages == Messages({}) = {} /\ Newest({}) = {}
BY DEF Messages, Newest

\* The newest message is a row of the thread, or there is none.
LEMMA LatestIs ==
  ASSUME TypeOK
  PROVE  LatestMessage \in 0..MaxLog
<1>1. PICK T : T = Messages(kept) \union {0}
  OBVIOUS
<1>2. T \in SUBSET (0..MaxLog) /\ T # {}
  BY <1>1, Rows, Limits DEF TypeOK, Messages
<1>3. Max(T) \in T
  BY <1>2, MaxIs, Limits
<1> QED BY <1>1, <1>2, <1>3 DEF LatestMessage

-----------------------------------------------------------------------------
(* The room for rows *)

LEMMA Counted ==
  /\ IsFiniteSet(Loaded) /\ Cardinality(Loaded) \in Nat
  /\ IsFiniteSet(Writing) /\ Cardinality(Writing) \in Nat
<1>1. Loaded \subseteq Requests /\ Writing \subseteq Requests
  BY DEF Loaded, Writing
<1> QED BY <1>1, NotARequest, FS_Subset, FS_CardinalityType

LEMMA CountedNext ==
  (/\ IsFiniteSet(Loaded) /\ Cardinality(Loaded) \in Nat
   /\ IsFiniteSet(Writing) /\ Cardinality(Writing) \in Nat)'
BY Counted, PTL

\* A request that has not written all its rows has room for one, and leaves the others
\* their room.
LEMMA RoomToWrite ==
  ASSUME TypeOK, Room, NEW r \in Writing
  PROVE  Len(log) < MaxLog
<1>1. Cardinality(Writing) # 0
  BY Counted, FS_EmptySet
<1> QED BY <1>1, Counted, Rows, Limits DEF Room

LEMMA RoomWithout ==
  ASSUME TypeOK, Room, Len(log') = Len(log), Loaded' \subseteq Loaded, Writing' \subseteq Writing
  PROVE  Room'
<1>1. Cardinality(Loaded') <= Cardinality(Loaded) /\ Cardinality(Writing') <= Cardinality(Writing)
  BY Counted, FS_Subset
<1>2. PICK a, b, c, d \in Nat :
        /\ a = Cardinality(Loaded) /\ b = Cardinality(Writing)
        /\ c = Cardinality(Loaded') /\ d = Cardinality(Writing')
  BY Counted, CountedNext
<1>3. Len(log) \in Nat /\ c <= a /\ d <= b /\ Len(log) + a + b <= MaxLog
  BY <1>1, <1>2, Rows DEF Room
<1>4. Len(log) + c + d <= MaxLog
  BY <1>3, Limits
<1> QED BY <1>2, <1>4 DEF Room

LEMMA RoomTaken ==
  ASSUME TypeOK, Room, Len(log') = Len(log) + 1, NEW r \in Requests,
         Loaded' \subseteq Loaded, Writing' \subseteq Writing,
         \/ r \in Loaded /\ r \notin Loaded'
         \/ r \in Writing /\ r \notin Writing'
  PROVE  Room'
<1>1. Cardinality(Loaded') <= Cardinality(Loaded) /\ Cardinality(Writing') <= Cardinality(Writing)
  BY Counted, FS_Subset
<1>2. Cardinality(Loaded') # Cardinality(Loaded) \/ Cardinality(Writing') # Cardinality(Writing)
  BY Counted, FS_Subset
<1>3. PICK a, b, c, d \in Nat :
        /\ a = Cardinality(Loaded) /\ b = Cardinality(Writing)
        /\ c = Cardinality(Loaded') /\ d = Cardinality(Writing')
  BY Counted, CountedNext
<1>4. /\ Len(log) \in Nat /\ c <= a /\ d <= b /\ Len(log) + a + b <= MaxLog
      /\ c # a \/ d # b
  BY <1>1, <1>2, <1>3, Rows DEF Room
<1>5. Len(log) + 1 + c + d <= MaxLog
  BY <1>4, Limits
<1> QED BY <1>3, <1>5 DEF Room

LEMMA RoomGiven ==
  ASSUME TypeOK, HasRoom, Len(log') = Len(log), NEW r \in Requests,
         Loaded' \subseteq Loaded \union {r}, Writing' \subseteq Writing \union {r}
  PROVE  Room'
<1>1. PICK A : A = {q \in Requests : Active(q)}
  OBVIOUS
<1>2. A \subseteq Requests /\ Loaded \subseteq A /\ Writing \subseteq A
  BY <1>1 DEF Loaded, Writing, At
<1>3. IsFiniteSet(A) /\ Cardinality(A) \in Nat
  BY <1>2, NotARequest, FS_Subset, FS_CardinalityType
<1>4. IsFiniteSet(A \union {r}) /\ Cardinality(A \union {r}) <= Cardinality(A) + 1
  <2>1. /\ IsFiniteSet(A \union {r})
        /\ \/ Cardinality(A \union {r}) = Cardinality(A)
           \/ Cardinality(A \union {r}) = Cardinality(A) + 1
    BY <1>3, FS_AddElement
  <2> QED BY <1>3, <2>1
<1>5. Loaded' \subseteq A \union {r} /\ Writing' \subseteq A \union {r}
  BY <1>2
<1>6. /\ Cardinality(Loaded') <= Cardinality(A \union {r})
      /\ Cardinality(Writing') <= Cardinality(A \union {r})
  BY <1>4, <1>5, FS_Subset
<1>7. PICK a, b, c, d \in Nat :
        /\ a = Cardinality(A) /\ b = Cardinality(A \union {r})
        /\ c = Cardinality(Loaded') /\ d = Cardinality(Writing')
  BY <1>3, <1>4, CountedNext, FS_CardinalityType
<1>8. Len(log) \in Nat /\ Len(log) + 2 * a + 2 <= MaxLog /\ b <= a + 1 /\ c <= b /\ d <= b
  BY <1>1, <1>4, <1>6, <1>7, Rows DEF HasRoom
<1>9. Len(log) + c + d <= MaxLog
  BY <1>8, Limits
<1> QED BY <1>7, <1>9 DEF Room

-----------------------------------------------------------------------------
(* What one step leaves of the work of the others *)

LEMMA OthersKeep ==
  ASSUME IInv, NEW q \in Requests, session'[q] = session[q], Grows, kept \subseteq kept',
         alive' = alive,
         \/ kept' = kept /\ bike' = bike /\ (holder = q => holder' = q)
         \/ holder # q
  PROVE  WorkOK(q)'
<1>1. CASE ~Active(q)
  BY <1>1 DEF WorkOK, Active
<1>2. CASE Active(q)
  <2>1. PICK s : s = session[q]
    OBVIOUS
  <2>2. PICK R, M : R = s.rows /\ M = Messages(kept \union R)
    OBVIOUS
  <2>3. WorkOK(q) /\ R \subseteq Positions /\ kept \subseteq Positions
    BY <1>2, <2>1, <2>2 DEF IInv, WorkOK, TypeOK
  <2>4. \A i \in R : log'[i] = log[i] /\ i \in Positions'
    BY <2>3 DEF Grows
  <2>5. M \subseteq Messages(kept \union session[q].rows)'
        /\ (kept' = kept => Messages(kept \union session[q].rows)' = M)
    <3>1. M = {i \in kept \union R : log[i].kind # "switch"}
      BY <2>2 DEF Messages
    <3>2. \A i \in kept \union R : log'[i] = log[i]
      BY <2>3 DEF Grows
    <3>3. Messages(kept \union session[q].rows)' = {i \in kept' \union R : log'[i].kind # "switch"}
      BY <2>1, <2>2 DEF Messages
    <3> QED BY <3>1, <3>2, <3>3
  <2>6. Answers(q)' <=> Answers(q)
    BY <2>1, <2>2, <2>4 DEF Answers
  <2>9. Active(q)' /\ (Switching(q)' <=> Switching(q))
    BY <1>2 DEF Active, Switching
  <2>7. CASE kept' = kept /\ bike' = bike /\ (holder = q => holder' = q)
    BY <1>2, <2>1, <2>2, <2>3, <2>4, <2>5, <2>6, <2>7, <2>9 DEF WorkOK
  <2>8. CASE holder # q
    <3>1. s.stage \notin {"asking", "done"} /\ ~Answers(q)
      BY <1>2, <2>1, <2>3, <2>8 DEF WorkOK
    <3>2. \A i \in R : log[i].kind # "assistant"
      BY <2>1, <2>2, <3>1 DEF Answers
    <3> QED BY <1>2, <2>1, <2>2, <2>3, <2>4, <2>5, <2>6, <2>9, <3>1, <3>2, ZenonT(60) DEF WorkOK
  <2> QED BY <2>7, <2>8
<1> QED BY <1>1, <1>2

\* A step that commits nothing leaves the history of the thread.
LEMMA HistoryStays ==
  ASSUME TypeOK, History, Grows, kept' = kept, bike' = bike, summary' = summary
  PROVE  History'
<1>1. kept \subseteq Positions
  BY DEF TypeOK
<1>2. Messages(kept)' = Messages(kept)
  <2>1. PICK K \in SUBSET Positions : K = kept
    BY <1>1
  <2>2. Messages(K)' = Messages(K)
    BY SameMessages
  <2> QED BY <2>1, <2>2 DEF Messages
<1>3. \A i \in kept : log'[i] = log[i]
  BY <1>1 DEF Grows
<1>4. Switches' = Switches /\ Switches \subseteq kept /\ Messages(kept) \subseteq kept
  BY <1>3 DEF Switches, Messages
<1>5. \A i, j : (NextSwitch(i, j)' <=> NextSwitch(i, j)) /\ (LastSwitch(i, j)' <=> LastSwitch(i, j))
  BY <1>4 DEF NextSwitch, LastSwitch
<1>6. summary' = Newest(Messages(kept))'
  BY <1>2 DEF History, Newest
<1>7. \A j \in Switches' : log'[j].from # log'[j].bike
  BY <1>3, <1>4 DEF History
<1>8. \A i \in kept' : (\A k \in Switches' : k <= i) => log'[i].bike = bike'
  BY <1>3, <1>4 DEF History
<1>9. \A i, j \in Switches' : NextSwitch(i, j)' => log'[j].from = log'[i].bike
  BY <1>3, <1>4, <1>5 DEF History
<1>10. \A i \in Messages(kept)' : \A j \in Switches' :
         /\ LastSwitch(j, i)' => log'[i].bike = log'[j].bike
         /\ NextSwitch(i, j)' => log'[i].bike = log'[j].from
  BY <1>2, <1>3, <1>4, <1>5 DEF History
<1> QED BY <1>6, <1>7, <1>8, <1>9, <1>10 DEF History

\* What one request has to show of a step that commits nothing.
LEMMA StepKeeps ==
  ASSUME IInv, NEW r \in Requests, NEW t, session' = [session EXCEPT ![r] = t],
         Grows, UNCHANGED <<thread, kept>>,
         holder' = holder \/ holder \in {Free, r},
         ~overlap' => ~overlap /\ \A q \in Requests : Active(q) => q = r,
         TypeOK', Room', WorkOK(r)', ~overlap => AloneOK(r)'
  PROVE  IInv'
<1>1. alive' = alive /\ bike' = bike /\ summary' = summary /\ kept' = kept
  BY DEF thread
<1>2. \A q \in Requests : q # r => session'[q] = session[q]
  BY DEF IInv, TypeOK
<1>3. ASSUME NEW q \in Requests, q # r PROVE WorkOK(q)'
  <2>1. holder = q => holder' = q
    BY <1>3, NotARequest
  <2> QED BY <1>1, <1>2, <1>3, <2>1, OthersKeep
<1>4. Alone'
  <2> SUFFICES ASSUME ~overlap'
               PROVE  OneAtATime' /\ (\A q \in Requests : AloneOK(q)') /\ History'
    BY DEF Alone
  <2>1. \A q \in Requests : q # r => ~Active(q)'
    BY <1>2 DEF Active
  <2>2. \A q \in Requests : AloneOK(q)'
    BY <2>1 DEF AloneOK
  <2>3. OneAtATime'
    BY <2>1 DEF OneAtATime
  <2>4. History'
    BY <1>1, HistoryStays DEF IInv, Alone
  <2> QED BY <2>2, <2>3, <2>4
<1>5. DeletedIsEmpty'
  BY <1>1 DEF IInv, DeletedIsEmpty
<1>6. SummaryIsKept'
  <2>1. kept \subseteq Positions /\ \A i \in kept : log'[i] = log[i]
    BY DEF IInv, TypeOK, Grows
  <2> QED BY <1>1, <2>1 DEF IInv, SummaryIsKept, Messages
<1> QED BY <1>3, <1>4, <1>5, <1>6 DEF IInv

LEMMA Slots ==
  ASSUME IInv, NEW r \in Requests, NEW t \in Session \union {Idle},
         session' = [session EXCEPT ![r] = t]
  PROVE  /\ session' \in [Requests -> Session \union {Idle}] /\ session'[r] = t
         /\ \A q \in Requests : q \in Loaded' <=> IF q = r THEN t # Idle /\ t.stage = "loaded"
                                                  ELSE q \in Loaded
         /\ \A q \in Requests : q \in Writing' <=> IF q = r THEN t # Idle /\ t.stage # "done"
                                                   ELSE q \in Writing
         /\ Loaded' \subseteq Requests /\ Writing' \subseteq Requests
<1>1. session \in [Requests -> Session \union {Idle}]
  BY DEF IInv, TypeOK
<1>2. session' \in [Requests -> Session \union {Idle}] /\ session'[r] = t
      /\ \A q \in Requests : q # r => session'[q] = session[q]
  BY <1>1
<1> QED BY <1>2 DEF Loaded, Writing, At, Active

LEMMA Here ==
  ASSUME IInv, NEW r \in Requests, Active(r)
  PROVE  /\ session[r] \in Session /\ WorkOK(r)
         /\ ~overlap => AloneOK(r) /\ \A q \in Requests : Active(q) => q = r
BY DEF IInv, TypeOK, Active, Alone, OneAtATime

LEMMA LoadKeeps ==
  ASSUME IInv, NEW r \in Requests, NEW job \in Jobs, Load(r, job)
  PROVE  IInv'
<1>1. PICK t : t = [stage |-> "loaded", job |-> job, bike |-> bike,
                    rows |-> {}, summary |-> {}, rounds |-> 0]
  OBVIOUS
<1>2. /\ ~Active(r) /\ alive /\ HasRoom /\ session' = [session EXCEPT ![r] = t]
      /\ UNCHANGED <<thread, log, kept, holder>>
      /\ overlap' = (overlap \/ \E q \in Requests : Active(q))
  BY <1>1 DEF Load
<1>3. t \in Session /\ t # Idle
  BY <1>1, Limits, NotASession DEF Session, IInv, TypeOK
<1>4. TypeOK' /\ session'[r] = t
  BY <1>2, <1>3, Slots DEF IInv, TypeOK, thread, Positions
<1>5. Loaded' \subseteq Loaded \union {r} /\ Writing' \subseteq Writing \union {r}
  BY <1>2, <1>3, Slots
<1>6. Room'
  BY <1>2, <1>5, RoomGiven DEF IInv
<1>7. WorkOK(r)' /\ AloneOK(r)'
  BY <1>1, <1>2, <1>4, NoMessages
     DEF WorkOK, AloneOK, Switching, Answers, thread
<1>8. Grows
  BY <1>2 DEF Grows, Positions
<1> QED BY <1>2, <1>4, <1>6, <1>7, <1>8, StepKeeps

\* A row for which there is room, and the summary of what can be seen with it.
LEMMA InsertKeeps ==
  ASSUME IInv, NEW r \in Requests, Active(r), ~Switching(r), alive,
         NEW row \in Message, row.bike = session[r].bike, NEW next,
         Insert(r, row, next), UNCHANGED <<thread, kept, holder, overlap>>,
         \/ session[r].stage = "loaded" /\ next = "inserted" /\ row.kind # "assistant"
         \/ session[r].stage = "asking" /\ next = "done"
  PROVE  IInv'
<1>1. PICK s, n, M : /\ s = session[r] /\ n = Len(log) + 1
                     /\ M = Messages(kept \union s.rows)
  OBVIOUS
<1>2. PICK t : t = [s EXCEPT !.stage = next, !.rows = @ \union {n},
                             !.summary = Newest(M \union {n})]
  OBVIOUS
<1>3. session' = [session EXCEPT ![r] = t] /\ log' = Append(log, row)
  BY <1>1, <1>2 DEF Insert
<1>4. /\ s \in Session /\ s.rows \subseteq Positions /\ kept \subseteq Positions
      /\ s.stage = "loaded" <=> s.rows = {}
      /\ r \in Writing /\ (s.stage = "loaded" <=> r \in Loaded) /\ TypeOK
  BY <1>1, Here DEF WorkOK, Writing, Loaded, At, IInv, TypeOK
<1>5. Len(log) < MaxLog /\ row \in Message \union Boundary /\ row.kind # "switch"
  BY <1>4, RoomToWrite DEF IInv, Message, Roles
<1>6. /\ log' \in Seq(Message \union Boundary) /\ Len(log') = n /\ n <= MaxLog
      /\ Positions' = Positions \union {n} /\ n \notin Positions /\ log'[n] = row
      /\ Grows /\ n \in 1..MaxLog /\ \A i \in Positions : i < n
  BY <1>1, <1>3, <1>4, <1>5, Added
<1>7. M \subseteq Positions /\ Positions \subseteq 1..MaxLog
      /\ Newest(M \union {n}) \subseteq M \union {n}
  BY <1>1, <1>4, Rows, NewestAre
<1>8. /\ t \in Session /\ t.stage = next /\ t.rows = s.rows \union {n} /\ t.bike = s.bike
      /\ t.job = s.job /\ t.summary = Newest(M \union {n})
  BY <1>2, <1>4, <1>6, <1>7 DEF Session
<1>9. t # Idle
  BY <1>8, NotASession
<1>10. TypeOK' /\ session'[r] = t
  BY <1>3, <1>4, <1>6, <1>8, Slots DEF TypeOK, thread
<1>11. Room'
  <2>1. Loaded' \subseteq Loaded /\ Writing' \subseteq Writing
    BY <1>3, <1>4, <1>8, <1>9, Slots
  <2>2. \/ r \in Loaded /\ r \notin Loaded'
        \/ r \in Writing /\ r \notin Writing'
    BY <1>1, <1>3, <1>4, <1>8, <1>9, Slots
  <2> QED BY <1>1, <1>4, <1>6, <2>1, <2>2, RoomTaken DEF IInv
<1>12. /\ kept' = kept /\ bike' = bike /\ alive' = alive /\ holder' = holder /\ overlap' = overlap
  BY DEF thread
<1>13. /\ Messages(kept \union session[r].rows)' = M \union {n}
       /\ Active(r)' /\ ~Switching(r)'
       /\ \A i \in s.rows : log'[i] = log[i] /\ log[i].kind # "switch"
  <2>1. Messages(kept \union session[r].rows)'
          = {i \in kept \union s.rows \union {n} : log'[i].kind # "switch"}
    BY <1>8, <1>10, <1>12 DEF Messages
  <2>2. \A i \in kept \union s.rows : log'[i] = log[i]
    BY <1>4, <1>6 DEF Grows
  <2>3. M = {i \in kept \union s.rows : log[i].kind # "switch"}
    BY <1>1 DEF Messages
  <2>4. \A i \in s.rows : log[i].kind # "switch"
    BY <1>1, Here DEF WorkOK
  <2>5. Active(r)' /\ ~Switching(r)'
    BY <1>1, <1>8, <1>9, <1>10 DEF Active, Switching
  <2> QED BY <1>5, <1>6, <2>1, <2>2, <2>3, <2>4, <2>5
<1>14. WorkOK(r)'
  <2>1. WorkOK(r)
    BY Here
  <2>2. \A i \in t.rows : log'[i].kind # "switch"
    BY <1>5, <1>6, <1>8, <1>13
  <2>3. next = "done" => holder = r /\ s.bike = bike
    BY <1>1, <2>1 DEF WorkOK
  <2>4. next = "inserted" => \A i \in t.rows : log'[i].kind # "assistant"
    BY <1>1, <1>4, <1>6, <1>8
  <2>5. \A i \in t.rows : log'[i].kind = "assistant" => log'[i].bike = bike'
    BY <1>1, <1>4, <1>6, <1>8, <1>12, <1>13, <2>1, <2>3, <2>4 DEF WorkOK
  <2>6. t.rows \subseteq Positions'
    BY <1>4, <1>6, <1>8
  <2>7. Answers(r)' => next = "done"
    BY <1>10, <2>4 DEF Answers
  <2>8. next \in {"inserted", "done"}
    OBVIOUS
  <2> QED BY <1>7, <1>8, <1>10, <1>12, <1>13, <2>2, <2>3, <2>5, <2>6, <2>7, <2>8 DEF WorkOK
<1>15. ~overlap => AloneOK(r)'
  <2> SUFFICES ASSUME ~overlap PROVE AloneOK(r)'
    OBVIOUS
  <2>1. AloneOK(r)
    BY Here
  <2>2. \A i \in kept, j \in t.rows : i < j
    BY <1>1, <1>4, <1>6, <1>8, <2>1 DEF AloneOK
  <2>3. \A i \in t.rows : log'[i].bike = bike
    BY <1>1, <1>6, <1>8, <1>13, <2>1 DEF AloneOK
  <2> QED BY <1>1, <1>8, <1>10, <1>12, <1>13, <2>1, <2>2, <2>3 DEF AloneOK
<1>16. ~overlap' => ~overlap /\ \A q \in Requests : Active(q) => q = r
  BY <1>12, Here
<1> QED BY <1>3, <1>6, <1>10, <1>11, <1>12, <1>14, <1>15, <1>16, StepKeeps

LEMMA PostKeeps ==
  ASSUME IInv, NEW r \in Requests, Post(r)
  PROVE  IInv'
<1>1. /\ Active(r) /\ session[r].stage = "loaded" /\ ~Switching(r) /\ alive
      /\ UNCHANGED <<thread, kept, holder, overlap>>
  BY DEF Post, At
<1>2. PICK row : row = [kind |-> IF session[r].job = "turn" THEN "user" ELSE "note",
                        bike |-> session[r].bike]
  OBVIOUS
<1>3. row \in Message /\ row.bike = session[r].bike /\ row.kind # "assistant"
  BY <1>1, <1>2, Here DEF Message, Roles, Session
<1>4. Insert(r, row, "inserted")
  BY <1>2 DEF Post
<1> QED BY <1>1, <1>3, <1>4, InsertKeeps

LEMMA AnswerKeeps ==
  ASSUME IInv, NEW r \in Requests, Answer(r)
  PROVE  IInv'
<1>1. /\ Active(r) /\ session[r].stage = "asking"
      /\ UNCHANGED <<thread, kept, holder, overlap>>
  BY DEF Answer, At
<1>2. ~Switching(r) /\ alive
  BY <1>1, Here, NotAJob DEF WorkOK, Switching
<1>3. PICK row : row = [kind |-> "assistant", bike |-> session[r].bike]
  OBVIOUS
<1>4. row \in Message /\ row.bike = session[r].bike
  BY <1>1, <1>3, Here DEF Message, Roles, Session
<1>5. Insert(r, row, "done")
  BY <1>3 DEF Answer
<1> QED BY <1>1, <1>2, <1>4, <1>5, InsertKeeps

LEMMA MarkKeeps ==
  ASSUME IInv, NEW r \in Requests, Mark(r)
  PROVE  IInv'
<1>1. PICK s, n : s = session[r] /\ n = Len(log) + 1
  OBVIOUS
<1>2. PICK row, t : /\ row = [kind |-> "switch", from |-> s.bike, bike |-> s.job,
                              after |-> LatestMessage]
                    /\ t = [s EXCEPT !.stage = "inserted", !.rows = {n}]
  OBVIOUS
<1>3. /\ Active(r) /\ s.stage = "loaded" /\ Switching(r) /\ alive /\ s.job # s.bike
      /\ session' = [session EXCEPT ![r] = t] /\ log' = Append(log, row)
      /\ UNCHANGED <<thread, kept, holder, overlap>>
  BY <1>1, <1>2 DEF Mark, At
<1>4. /\ s \in Session /\ s.rows = {} /\ kept \subseteq Positions /\ TypeOK
      /\ r \in Writing /\ r \in Loaded
  BY <1>1, <1>3, Here DEF WorkOK, Writing, Loaded, At, IInv, TypeOK
<1>5. Len(log) < MaxLog /\ row \in Message \union Boundary
  <2>1. row \in Boundary
    BY <1>1, <1>2, <1>3, <1>4, LatestIs DEF Boundary, Session, Switching
  <2> QED BY <1>4, <2>1, RoomToWrite DEF IInv
<1>6. /\ log' \in Seq(Message \union Boundary) /\ Len(log') = n /\ n <= MaxLog
      /\ Positions' = Positions \union {n} /\ n \notin Positions /\ log'[n] = row
      /\ Grows /\ n \in 1..MaxLog /\ \A i \in Positions : i < n
  BY <1>1, <1>3, <1>4, <1>5, Added
<1>7. /\ t \in Session /\ t.stage = "inserted" /\ t.rows = {n} /\ t.bike = s.bike
      /\ t.job = s.job
  BY <1>2, <1>4, <1>6 DEF Session
<1>8. t # Idle
  BY <1>7, NotASession
<1>9. TypeOK' /\ session'[r] = t
  BY <1>3, <1>4, <1>6, <1>7, Slots DEF TypeOK, thread
<1>10. Room'
  <2>1. Loaded' \subseteq Loaded /\ Writing' \subseteq Writing /\ r \notin Loaded'
    BY <1>3, <1>4, <1>7, <1>8, Slots
  <2> QED BY <1>1, <1>4, <1>6, <2>1, RoomTaken DEF IInv
<1>11. /\ kept' = kept /\ bike' = bike /\ alive' = alive /\ holder' = holder /\ overlap' = overlap
  BY <1>3 DEF thread
<1>12. Active(r)' /\ Switching(r)'
  BY <1>1, <1>3, <1>7, <1>8, <1>9 DEF Active, Switching
<1>13. /\ log'[n].kind = "switch" /\ log'[n].bike = s.job /\ log'[n].from = s.bike
  BY <1>2, <1>6
<1>14. WorkOK(r)'
  <2>1. ~Answers(r)'
    BY <1>7, <1>9, <1>13 DEF Answers
  <2>2. session'[r].rows \subseteq Positions' /\ session'[r].rows # {}
    BY <1>6, <1>7, <1>9
  <2>3. \A i \in session'[r].rows : i = n
    BY <1>7, <1>9
  <2>4. \A i \in session'[r].rows : /\ log'[i].kind = "switch" /\ log'[i].bike = session'[r].job
                                    /\ log'[i].from # log'[i].bike
    BY <1>3, <1>7, <1>9, <1>13, <2>3
  <2>5. session'[r].stage = "inserted"
    BY <1>7, <1>9
  <2> QED BY <1>3, <1>11, <1>12, <2>1, <2>2, <2>3, <2>4, <2>5 DEF WorkOK
<1>15. ~overlap => AloneOK(r)'
  <2> SUFFICES ASSUME ~overlap PROVE AloneOK(r)'
    OBVIOUS
  <2>1. s.bike = bike
    BY <1>1, <1>3, Here DEF AloneOK
  <2> QED BY <1>4, <1>6, <1>7, <1>9, <1>11, <1>12, <1>13, <2>1 DEF AloneOK
<1>16. ~overlap' => ~overlap /\ \A q \in Requests : Active(q) => q = r
  BY <1>3, <1>11, Here
<1> QED BY <1>3, <1>6, <1>9, <1>10, <1>11, <1>14, <1>15, <1>16, StepKeeps

\* A request that ends without a commit leaves nothing.
LEMMA EndKeeps ==
  ASSUME IInv, NEW r \in Requests, Active(r), session' = [session EXCEPT ![r] = Idle],
         holder' = IF holder = r THEN Free ELSE holder,
         UNCHANGED <<thread, log, kept, overlap>>
  PROVE  IInv'
<1>1. TypeOK' /\ session'[r] = Idle
  BY Slots DEF IInv, TypeOK, thread, Positions
<1>2. Room'
  BY Slots, RoomWithout DEF IInv
<1>3. ~Active(r)'
  BY <1>1 DEF Active
<1>4. ~overlap' => ~overlap /\ \A q \in Requests : Active(q) => q = r
  BY Here
<1> QED BY <1>1, <1>2, <1>3, <1>4, StepKeeps DEF WorkOK, AloneOK, Grows, Positions

\* The row of the thread is locked, the thread is read again, tools are used, or the
\* question stays without a reply: no row is written.
LEMMA MoveKeeps ==
  ASSUME IInv, NEW r \in Requests, Active(r),
         NEW stage, NEW b, NEW rounds \in 0..MaxRounds,
         session' = [session EXCEPT ![r] = [session[r] EXCEPT !.stage = stage, !.bike = b,
                                                              !.rounds = rounds]],
         b = bike, holder' = r, holder \in {Free, r},
         stage \in {"asking", "done"}, stage = "asking" => session[r].job = "turn",
         session[r].stage \in {"inserted", "asking"},
         UNCHANGED <<thread, log, kept, overlap>>
  PROVE  IInv'
<1>1. PICK s, t : s = session[r] /\ t = [s EXCEPT !.stage = stage, !.bike = b, !.rounds = rounds]
  OBVIOUS
<1>2. s \in Session /\ WorkOK(r) /\ TypeOK
  BY <1>1, Here DEF IInv
<1>3. /\ t \in Session /\ t.stage = stage /\ t.rows = s.rows /\ t.bike = b
      /\ t.job = s.job /\ t.summary = s.summary
  BY <1>1, <1>2 DEF Session, TypeOK
<1>4. t # Idle /\ session' = [session EXCEPT ![r] = t]
  BY <1>1, <1>3, NotASession
<1>5. TypeOK' /\ session'[r] = t
  BY <1>2, <1>3, <1>4, Slots DEF TypeOK, thread, Positions
<1>6. Room'
  <2>1. Loaded' \subseteq Loaded /\ Writing' \subseteq Writing
    <3>1. r \in Writing
      BY DEF Writing
    <3> QED BY <1>3, <1>4, <3>1, Slots, ZenonT(60)
  <2> QED BY <1>2, <2>1, RoomWithout DEF IInv
<1>7. /\ kept' = kept /\ bike' = bike /\ alive' = alive /\ overlap' = overlap /\ log' = log
  BY DEF thread
<1>8. /\ Active(r)' /\ (Switching(r)' <=> Switching(r)) /\ (Answers(r)' <=> Answers(r))
      /\ Messages(kept \union session[r].rows)' = Messages(kept \union session[r].rows)
      /\ Positions' = Positions
  BY <1>1, <1>3, <1>4, <1>5, <1>7 DEF Active, Switching, Answers, Messages, Positions
<1>9. ~Answers(r)
  BY <1>1, <1>2 DEF WorkOK
<1>10. WorkOK(r)'
  <2>1. /\ s.rows \subseteq Positions /\ s.rows # {} /\ alive
        /\ ~Switching(r) => /\ \A i \in s.rows : log[i].kind # "switch"
                            /\ s.summary \subseteq Messages(kept \union session[r].rows)
        /\ Switching(r) => /\ \A i, j \in s.rows : i = j
                           /\ \A i \in s.rows : /\ log[i].kind = "switch"
                                                /\ log[i].bike = s.job
                                                /\ log[i].from # log[i].bike
    BY <1>1, <1>2 DEF WorkOK
  <2>2. \A i \in s.rows : log[i].kind # "assistant"
    BY <1>1, <1>9 DEF Answers
  <2>3. /\ session'[r].rows = s.rows /\ session'[r].summary = s.summary /\ session'[r].job = s.job
        /\ session'[r].stage = stage /\ session'[r].bike = bike
    BY <1>3, <1>5
  <2> QED BY <1>1, <1>7, <1>8, <1>9, <2>1, <2>2, <2>3, ZenonT(60) DEF WorkOK
<1>11. ~overlap => AloneOK(r)'
  <2> SUFFICES ASSUME ~overlap PROVE AloneOK(r)'
    OBVIOUS
  <2>1. AloneOK(r)
    BY Here
  <2> QED BY <1>1, <1>3, <1>5, <1>7, <1>8, <2>1 DEF AloneOK
<1>12. ~overlap' => ~overlap /\ \A q \in Requests : Active(q) => q = r
  BY <1>7, Here
<1> QED BY <1>4, <1>5, <1>6, <1>7, <1>10, <1>11, <1>12, StepKeeps DEF Grows, Positions

LEMMA TouchKeeps ==
  ASSUME IInv, NEW r \in Requests, Touch(r)
  PROVE  IInv'
<1>1. PICK stage, rounds : /\ stage = IF session[r].job = "turn" THEN "asking" ELSE "done"
                           /\ rounds = session[r].rounds
  OBVIOUS
<1>2. /\ Active(r) /\ session[r].stage = "inserted" /\ holder = Free /\ holder' = r
      /\ session' = [session EXCEPT ![r].stage = stage, ![r].bike = bike]
      /\ UNCHANGED <<thread, log, kept, overlap>>
  BY <1>1 DEF Touch, At
<1>3. /\ session[r] \in Session /\ rounds \in 0..MaxRounds
      /\ session \in [Requests -> Session \union {Idle}]
  BY <1>1, <1>2, Here DEF Session, IInv, TypeOK
<1>4. session' = [session EXCEPT ![r] = [session[r] EXCEPT !.stage = stage, !.bike = bike,
                                                              !.rounds = rounds]]
  BY <1>1, <1>2, <1>3 DEF Session
<1>5. stage \in {"asking", "done"} /\ (stage = "asking" => session[r].job = "turn")
  BY <1>1
<1>6. holder \in {Free, r} /\ session[r].stage \in {"inserted", "asking"}
  BY <1>2
<1>7. PICK b : b = bike
  OBVIOUS
<1>8. session' = [session EXCEPT ![r] = [session[r] EXCEPT !.stage = stage, !.bike = b,
                                                              !.rounds = rounds]]
  BY <1>4, <1>7
<1> QED BY <1>2, <1>3, <1>5, <1>6, <1>7, <1>8, MoveKeeps

LEMMA RoundKeeps ==
  ASSUME IInv, NEW r \in Requests, UseTools(r) \/ NoAnswer(r)
  PROVE  IInv'
<1>1. /\ Active(r) /\ session[r].stage = "asking"
      /\ UNCHANGED <<thread, log, kept, holder, overlap>>
  BY DEF UseTools, NoAnswer, At
<1>2. /\ session[r] \in Session /\ holder = r /\ session[r].bike = bike /\ session[r].job = "turn"
      /\ session \in [Requests -> Session \union {Idle}]
  BY <1>1, Here DEF WorkOK, IInv, TypeOK
<1>3. CASE UseTools(r)
  <2>1. PICK rounds : rounds = session[r].rounds + 1
    OBVIOUS
  <2>2. rounds \in 0..MaxRounds
    <3>1. session[r].rounds \in 0..MaxRounds /\ session[r].rounds < MaxRounds
      BY <1>2, <1>3 DEF Session, UseTools
    <3> QED BY <2>1, <3>1, Limits
  <2>3. session' = [session EXCEPT ![r] = [session[r] EXCEPT !.stage = "asking", !.bike = bike,
                                                              !.rounds = rounds]]
    BY <1>1, <1>2, <1>3, <2>1 DEF UseTools, Session
  <2> QED BY <1>1, <1>2, <2>2, <2>3, MoveKeeps
<1>4. CASE NoAnswer(r)
  <2>1. PICK rounds : rounds = session[r].rounds
    OBVIOUS
  <2>2. rounds \in 0..MaxRounds
    BY <1>2, <2>1 DEF Session
  <2>3. session' = [session EXCEPT ![r] = [session[r] EXCEPT !.stage = "done", !.bike = bike,
                                                              !.rounds = rounds]]
    BY <1>1, <1>2, <1>4, <2>1 DEF NoAnswer, Session
  <2> QED BY <1>1, <1>2, <2>2, <2>3, MoveKeeps
<1> QED BY <1>3, <1>4

-----------------------------------------------------------------------------
(* The commit *)

\* A boundary after all that is kept, from the bike the thread is on.
LEMMA BoundaryTells ==
  ASSUME TypeOK, History, UNCHANGED <<log, summary>>,
         NEW n \in Positions, \A i \in kept : i < n, kept' = kept \union {n},
         log[n].kind = "switch", log[n].from = bike, log[n].bike = bike', log[n].from # log[n].bike
  PROVE  History'
<1>1. kept \subseteq Nat /\ n \in Nat /\ \A i \in kept : ~(n < i) /\ n # i
  BY Rows DEF TypeOK
<1>2. Messages(kept)' = Messages(kept) /\ Switches' = Switches \union {n}
      /\ Switches \subseteq kept /\ Messages(kept) \subseteq kept
  BY DEF Messages, Switches
<1>3. \A i, j \in kept : /\ NextSwitch(i, j)' => NextSwitch(i, j)
                         /\ LastSwitch(i, j)' => LastSwitch(i, j)
  BY <1>1, <1>2 DEF NextSwitch, LastSwitch, Switches
<1>4. \A i \in kept : NextSwitch(i, n)' => \A k \in Switches : k <= i
  BY <1>1, <1>2 DEF NextSwitch
<1>5. \A i \in kept : ~(LastSwitch(n, i)') /\ ~(NextSwitch(n, i)')
  BY <1>1 DEF LastSwitch, NextSwitch
<1>6. ~(NextSwitch(n, n)')
  BY <1>1 DEF NextSwitch
<1>7. \A i \in kept' : (\A k \in Switches' : k <= i) => log'[i].bike = bike'
  <2>1. \A i \in kept : ~(n <= i)
    BY <1>1
  <2>2. \A i \in kept : ~(\A k \in Switches' : k <= i)
    BY <1>2, <2>1
  <2>3. log'[n].bike = bike'
    OBVIOUS
  <2> QED BY <2>2, <2>3
<1>8. \A i, j \in Switches' : NextSwitch(i, j)' => log'[j].from = log'[i].bike
  BY <1>2, <1>3, <1>4, <1>5, <1>6 DEF History
<1>9. \A i \in Messages(kept)' : \A j \in Switches' :
        /\ LastSwitch(j, i)' => log'[i].bike = log'[j].bike
        /\ NextSwitch(i, j)' => log'[i].bike = log'[j].from
  BY <1>2, <1>3, <1>4, <1>5 DEF History
<1>10. summary' = Newest(Messages(kept))' /\ \A j \in Switches' : log'[j].from # log'[j].bike
  BY <1>2 DEF History, Newest
<1> QED BY <1>7, <1>8, <1>9, <1>10 DEF History

\* Messages after all that is kept, about the bike the thread is on.
LEMMA MessagesTell ==
  ASSUME TypeOK, History, UNCHANGED <<log, bike>>,
         NEW N \in SUBSET Positions, \A i \in kept, j \in N : i < j, kept' = kept \union N,
         \A j \in N : log[j].kind # "switch" /\ log[j].bike = bike,
         summary' = Newest(Messages(kept \union N))
  PROVE  History'
<1>1. kept \subseteq Nat /\ N \subseteq Nat /\ \A i \in kept, j \in N : ~(j < i) /\ j # i
  BY Rows DEF TypeOK
<1>2. Messages(kept)' = Messages(kept) \union N /\ Switches' = Switches
      /\ Switches \subseteq kept /\ Messages(kept) \subseteq kept
  BY DEF Messages, Switches
<1>3. \A i, j : (NextSwitch(i, j)' <=> NextSwitch(i, j)) /\ (LastSwitch(i, j)' <=> LastSwitch(i, j))
  BY <1>2 DEF NextSwitch, LastSwitch
<1>4. summary' = Newest(Messages(kept))'
  BY DEF Newest, Messages
<1>5. \A i \in kept' : (\A k \in Switches' : k <= i) => log'[i].bike = bike'
  BY <1>2 DEF History
<1>6. \A i, j \in Switches' : NextSwitch(i, j)' => log'[j].from = log'[i].bike
  BY <1>2, <1>3 DEF History
<1>7. ASSUME NEW i \in N, NEW j \in Switches
      PROVE  ~NextSwitch(i, j) /\ (LastSwitch(j, i) => log[i].bike = log[j].bike)
  <2>1. ~NextSwitch(i, j)
    BY <1>1, <1>2 DEF NextSwitch
  <2>2. ASSUME LastSwitch(j, i) PROVE \A k \in Switches : k <= j
    BY <1>1, <1>2, <2>2 DEF LastSwitch
  <2> QED BY <1>2, <2>1, <2>2 DEF History
<1>8. \A i \in Messages(kept)' : \A j \in Switches' :
        /\ LastSwitch(j, i)' => log'[i].bike = log'[j].bike
        /\ NextSwitch(i, j)' => log'[i].bike = log'[j].from
  <2> SUFFICES ASSUME NEW i \in Messages(kept) \union N, NEW j \in Switches
               PROVE  /\ LastSwitch(j, i) => log[i].bike = log[j].bike
                      /\ NextSwitch(i, j) => log[i].bike = log[j].from
    BY <1>2, <1>3
  <2>1. CASE i \in Messages(kept)
    BY <2>1 DEF History
  <2>2. CASE i \in N
    BY <1>7, <2>2
  <2> QED BY <2>1, <2>2
<1>9. \A j \in Switches' : log'[j].from # log'[j].bike
  BY <1>2 DEF History
<1> QED BY <1>4, <1>5, <1>6, <1>8, <1>9 DEF History

LEMMA CommitKeeps ==
  ASSUME IInv, NEW r \in Requests, Commit(r)
  PROVE  IInv'
<1>1. PICK s : s = session[r]
  OBVIOUS
<1>2. /\ Active(r) /\ s.stage = "done" /\ kept' = kept \union s.rows
      /\ bike' = (IF Switching(r) THEN s.job ELSE bike)
      /\ summary' = (IF Switching(r) THEN summary ELSE s.summary)
      /\ holder' = Free /\ session' = [session EXCEPT ![r] = Idle]
      /\ alive' = alive /\ log' = log /\ overlap' = overlap
  BY <1>1 DEF Commit, At
<1>3. s \in Session /\ WorkOK(r) /\ TypeOK /\ SummaryIsKept
  BY <1>1, <1>2, Here DEF IInv
<1>4. /\ s.rows \subseteq Positions /\ s.rows # {} /\ alive /\ holder = r
      /\ kept \subseteq Positions /\ summary \subseteq Messages(kept)
  BY <1>1, <1>2, <1>3 DEF WorkOK, TypeOK, SummaryIsKept
<1>5. \A S : Messages(S)' = Messages(S)
  BY <1>2 DEF Messages
<1>6. SummaryIsKept'
  <2>1. Messages(kept)' = Messages(kept \union s.rows)
    BY <1>2 DEF Messages
  <2>2. Messages(kept) \subseteq Messages(kept \union s.rows)
    BY DEF Messages
  <2>3. ~Switching(r) => s.summary \subseteq Messages(kept \union s.rows)
    BY <1>1, <1>2, <1>3 DEF WorkOK
  <2> QED BY <1>2, <1>4, <2>1, <2>2, <2>3 DEF SummaryIsKept
<1>7. TypeOK' /\ session'[r] = Idle
  <2>1. summary' \subseteq Positions
    BY <1>2, <1>6, <1>4, NewestAre DEF SummaryIsKept, Messages
  <2>2. bike' \in Bikes
    BY <1>1, <1>2, <1>3 DEF Switching, TypeOK
  <2>3. session' \in [Requests -> Session \union {Idle}] /\ session'[r] = Idle
    BY <1>2, Slots
  <2> QED BY <1>2, <1>3, <1>4, <2>1, <2>2, <2>3 DEF TypeOK, Positions
<1>8. Room'
  BY <1>2, <1>3, Slots, RoomWithout DEF IInv
<1>9. \A q \in Requests : q # r => session'[q] = session[q]
  BY <1>2, <1>3 DEF TypeOK
<1>10. ASSUME NEW q \in Requests PROVE WorkOK(q)'
  <2>1. CASE q = r
    BY <1>7, <2>1 DEF WorkOK, Active
  <2>2. CASE q # r
    BY <1>2, <1>4, <1>9, <2>2, OthersKeep DEF Grows, Positions
  <2> QED BY <2>1, <2>2
<1>11. DeletedIsEmpty'
  BY <1>2, <1>4 DEF DeletedIsEmpty
<1>12. ASSUME ~overlap'
       PROVE  OneAtATime' /\ (\A q \in Requests : AloneOK(q)') /\ History'
  <2>1. ~overlap /\ History /\ AloneOK(r) /\ \A q \in Requests : Active(q) => q = r
    BY <1>2, <1>12, Here DEF IInv, Alone
  <2>2. \A q \in Requests : ~Active(q)'
    BY <1>7, <1>9, <2>1 DEF Active
  <2>3. \A i \in kept, j \in s.rows : i < j
    BY <1>1, <1>2, <2>1 DEF AloneOK
  <2>4. CASE Switching(r)
    <3>1. PICK n \in s.rows : s.rows = {n}
      BY <1>1, <1>2, <1>3, <1>4, <2>4 DEF WorkOK
    <3>2. /\ n \in Positions /\ log[n].kind = "switch" /\ log[n].bike = s.job
          /\ log[n].from # log[n].bike
      BY <1>1, <1>2, <1>3, <1>4, <2>4 DEF WorkOK
    <3>3. log[n].from = bike
      BY <1>1, <1>2, <2>1, <2>4 DEF AloneOK
    <3>4. History'
      BY <1>2, <1>3, <2>1, <2>3, <2>4, <3>1, <3>2, <3>3, BoundaryTells
    <3> QED BY <2>2, <3>4 DEF OneAtATime, AloneOK
  <2>5. CASE ~Switching(r)
    <3>1. \A j \in s.rows : log[j].kind # "switch" /\ log[j].bike = bike
      BY <1>1, <1>2, <1>3, <2>1, <2>5 DEF WorkOK, AloneOK
    <3>2. s.summary = Newest(Messages(kept \union s.rows))
      BY <1>1, <1>2, <1>4, <2>1, <2>5 DEF AloneOK
    <3>3. History'
      BY <1>2, <1>3, <1>4, <2>1, <2>3, <2>5, <3>1, <3>2, MessagesTell
    <3> QED BY <2>2, <3>3 DEF OneAtATime, AloneOK
  <2> QED BY <2>4, <2>5
<1> QED BY <1>6, <1>7, <1>8, <1>10, <1>11, <1>12 DEF IInv, Alone

LEMMA DeleteKeeps ==
  ASSUME IInv, Delete
  PROVE  IInv'
<1>1. /\ alive' = FALSE /\ kept' = {} /\ summary' = {}
      /\ UNCHANGED <<bike, log, holder, session, overlap>>
      /\ \A r \in Requests : Active(r) => session[r].rows = {}
  BY DEF Delete
<1>2. TypeOK'
  BY <1>1 DEF IInv, TypeOK, Positions
<1>3. Room'
  <2>1. Loaded' = Loaded /\ Writing' = Writing
    BY <1>1 DEF Loaded, Writing, At, Active
  <2> QED BY <1>1, <2>1, RoomWithout DEF IInv
<1>4. ASSUME NEW r \in Requests PROVE WorkOK(r)' /\ (~overlap => AloneOK(r)')
  <2>1. CASE ~Active(r)
    BY <1>1, <2>1 DEF WorkOK, AloneOK, Active
  <2>2. CASE Active(r)
    <3>1. /\ session[r].rows = {} /\ session[r].summary = {} /\ session[r].stage = "loaded"
          /\ ~overlap => session[r].bike = bike
      BY <1>1, <2>2, Here DEF WorkOK, AloneOK
    <3> QED BY <1>1, <3>1 DEF WorkOK, AloneOK, Answers
  <2> QED BY <2>1, <2>2
<1>5. ASSUME ~overlap PROVE OneAtATime' /\ History'
  <2>1. OneAtATime'
    BY <1>1, <1>5 DEF IInv, Alone, OneAtATime, Active
  <2>2. Messages(kept)' = {} /\ Switches' = {} /\ Newest(Messages(kept))' = {}
    BY <1>1 DEF Messages, Switches, Newest
  <2> QED BY <1>1, <2>1, <2>2 DEF History
<1> QED BY <1>1, <1>2, <1>3, <1>4, <1>5
        DEF IInv, Alone, DeletedIsEmpty, SummaryIsKept, Messages

-----------------------------------------------------------------------------
(* Theorems *)

LEMMA IInvInit == Init => IInv
<1> SUFFICES ASSUME Init PROVE IInv
  OBVIOUS
<1>1. Loaded = {} /\ Writing = {} /\ \A r \in Requests : ~Active(r)
  BY DEF Init, Loaded, Writing, At, Active
<1>2. Room
  BY <1>1, FS_EmptySet, Limits DEF Room, Init
<1>3. TypeOK
  <2>1. log \in Seq(Message \union Boundary) /\ Len(log) = 0 /\ kept \subseteq Positions
        /\ summary \subseteq Positions
    BY DEF Init
  <2>2. session \in [Requests -> Session \union {Idle}]
    BY DEF Init
  <2>3. Len(log) <= MaxLog
    BY <2>1, Limits
  <2> QED BY <2>1, <2>2, <2>3 DEF Init, TypeOK
<1>4. History
  BY NoMessages DEF Init, History, Switches
<1> QED BY <1>1, <1>2, <1>3, <1>4
        DEF Init, IInv, DeletedIsEmpty, SummaryIsKept, WorkOK, AloneOK, OneAtATime, Alone

LEMMA IInvKept ==
  ASSUME IInv, [Next]_vars
  PROVE  IInv'
<1>1. ASSUME NEW r \in Requests, \E job \in Jobs : Load(r, job) PROVE IInv'
  BY <1>1, LoadKeeps
<1>2. ASSUME NEW r \in Requests, GiveUp(r) \/ Abort(r) PROVE IInv'
  <2>1. CASE GiveUp(r)
    <3>1. /\ Active(r) /\ session[r].stage = "loaded" /\ session' = [session EXCEPT ![r] = Idle]
          /\ UNCHANGED <<thread, log, kept, holder, overlap>>
      BY <2>1 DEF GiveUp, At
    <3>2. CASE holder # r
      BY <3>1, <3>2, EndKeeps
    <3>3. CASE holder = r
      <4>1. TypeOK' /\ Room' /\ ~Active(r)'
        BY <3>1, Slots, RoomWithout DEF IInv, TypeOK, thread, Positions, Active
      <4>2. ~overlap' => ~overlap /\ \A q \in Requests : Active(q) => q = r
        BY <3>1, Here
      <4> QED BY <3>1, <4>1, <4>2, StepKeeps DEF WorkOK, AloneOK, Grows, Positions
    <3> QED BY <3>2, <3>3
  <2>2. CASE Abort(r)
    BY <2>2, EndKeeps DEF Abort
  <2> QED BY <1>2, <2>1, <2>2
<1>3. CASE UNCHANGED vars
  <2>1. /\ UNCHANGED <<alive, bike, summary, log, kept, holder, session, overlap>>
    BY <1>3 DEF vars
  <2>2. /\ TypeOK' /\ Room' /\ DeletedIsEmpty' /\ SummaryIsKept'
    BY <2>1 DEF IInv, TypeOK, Room, Loaded, Writing, At, Active, Positions, DeletedIsEmpty,
               SummaryIsKept, Messages
  <2>3. \A r \in Requests : WorkOK(r)'
    BY <2>1, OthersKeep DEF Grows, Positions
  <2>4. Alone'
    <3> SUFFICES ASSUME ~overlap' PROVE OneAtATime' /\ (\A r \in Requests : AloneOK(r)') /\ History'
      BY DEF Alone
    <3>1. OneAtATime /\ (\A r \in Requests : AloneOK(r)) /\ History
      BY <2>1 DEF IInv, Alone
    <3>2. History'
      BY <2>1, <3>1, HistoryStays DEF Grows, Positions, IInv
    <3>3. OneAtATime' /\ \A r \in Requests : AloneOK(r)'
      BY <2>1, <3>1 DEF OneAtATime, AloneOK, Active, Switching, Messages, Newest
    <3> QED BY <3>2, <3>3
  <2> QED BY <2>2, <2>3, <2>4 DEF IInv
<1> QED BY <1>1, <1>2, <1>3, PostKeeps, MarkKeeps, CommitKeeps, TouchKeeps, RoundKeeps, AnswerKeeps,
           DeleteKeeps DEF Next, Step, Reply

\* The invariant holds in every state.
THEOREM ThreadHolds == Spec => []IInv
<1>1. Init => IInv
  BY IInvInit
<1>2. IInv /\ [Next]_vars => IInv'
  BY IInvKept
<1>3. QED BY <1>1, <1>2, PTL DEF Spec

\* The boundaries and stamps of a thread whose requests came one at a time tell which
\* bike it was on.
LEMMA HistoryTells ==
  ASSUME IInv
  PROVE  SummaryIsCurrent /\ BoundariesTellHistory
<1>1. ~overlap => History
  BY DEF IInv, Alone
<1>2. SummaryIsCurrent
  BY <1>1 DEF SummaryIsCurrent, History
<1>3. StampsFollowBoundaries
  BY <1>1 DEF StampsFollowBoundaries, History
<1>4. BoundariesChain
  <2> SUFFICES ASSUME ~overlap, Switches # {} PROVE bike = log[Max(Switches)].bike
    BY <1>1 DEF BoundariesChain, History
  <2>1. PICK S : S = Switches
    OBVIOUS
  <2>2. S \in SUBSET (0..MaxLog) /\ S \subseteq kept
    BY <2>1, Rows, Limits DEF IInv, TypeOK, Switches
  <2>3. Max(S) \in S /\ \A k \in S : k <= Max(S)
    BY <2>1, <2>2, MaxIs, Limits
  <2> QED BY <1>1, <2>1, <2>2, <2>3 DEF History
<1> QED BY <1>2, <1>3, <1>4 DEF BoundariesTellHistory

\* Nothing is left of a deleted thread; the summary is made of what is stored, and is the
\* one of the newest messages, and the boundaries tell the history, when requests came
\* one at a time.
THEOREM ThreadIsSound == Spec => []Inv
<1>1. IInv => Inv
  BY HistoryTells DEF IInv, Inv
<1>2. QED BY <1>1, ThreadHolds, PTL

\* Only its commit ends a request that was answered and stores what it wrote.
LEMMA AnsweredCommit ==
  ASSUME IInv, [Next]_vars, NEW r \in Requests, CommitsAnswer(r)
  PROVE  /\ summary' = Newest(Messages(kept))'
         /\ \A i \in session[r].rows : log[i].kind = "assistant" => log[i].bike = bike'
<1>1. Active(r) /\ Answers(r) /\ session'[r] = Idle /\ kept' # kept
  BY DEF CommitsAnswer
<1>2. session'[r] # session[r]
  BY <1>1 DEF Active
<1>3. session \in [Requests -> Session \union {Idle}]
  BY DEF IInv, TypeOK
<1>4. PICK q \in Requests : Commit(q)
  BY <1>1, <1>2 DEF Next, vars, Load, Step, Post, Mark, GiveUp, Touch, Reply, UseTools, Answer,
                    NoAnswer, Abort, Delete
<1>5. q = r
  BY <1>2, <1>3, <1>4 DEF Commit
<1>6. /\ session[r].stage = "done" /\ ~Switching(r)
      /\ session[r].summary = Newest(Messages(kept \union session[r].rows))
      /\ \A i \in session[r].rows : log[i].kind = "assistant" => log[i].bike = bike
  BY <1>1, Here DEF WorkOK
<1>7. /\ kept' = kept \union session[r].rows /\ log' = log
      /\ summary' = session[r].summary /\ bike' = bike
  BY <1>4, <1>5, <1>6 DEF Commit
<1>8. Newest(Messages(kept))' = Newest(Messages(kept \union session[r].rows))
  BY <1>7 DEF Newest, Messages
<1> QED BY <1>6, <1>7, <1>8

\* An answered turn leaves the summary of the newest messages, whatever was committed
\* between its question and its update of the thread.
THEOREM SummaryAfterAnswer == Spec => AnsweredSummaryIsCurrent
<1> DEFINE A == \A r \in Requests : CommitsAnswer(r) => summary' = Newest(Messages(kept))'
<1>1. IInv /\ [Next]_vars => [A]_vars
  BY AnsweredCommit
<1>2. QED BY <1>1, ThreadHolds, PTL DEF Spec, AnsweredSummaryIsCurrent

\* A reply is about the bike the thread is on when the reply is committed.
THEOREM BikeOfAnswer == Spec => AnswerFitsBike
<1> DEFINE A == \A r \in Requests : CommitsAnswer(r) =>
                  \A i \in session[r].rows : log[i].kind = "assistant" => log[i].bike = bike'
<1>1. IInv /\ [Next]_vars => [A]_vars
  BY AnsweredCommit
<1>2. QED BY <1>1, ThreadHolds, PTL DEF Spec, AnswerFitsBike

-----------------------------------------------------------------------------
(* AssistantTurn: sums of lengths *)

LengthOf(q) == FoldLeft(LAMBDA sum, m : sum + m.len, 0, q)

LEMMA TextLength == \A m \in Text : m.len \in Nat /\ m.len > 0
<1> SUFFICES ASSUME NEW m \in Text PROVE m.len \in Nat /\ m.len > 0
  OBVIOUS
<1>1. m.len \in Lengths
  BY DEF Text
<1>2. \A l \in Lengths : l \in Nat /\ l > 0
  BY Texts
<1> QED BY <1>1, <1>2

\* Texts that may have been cut.
Cut == [len: Nat, score: Scores]

\* The sum of the lengths, text after text.
LEMMA LengthAlong ==
  ASSUME NEW q \in Seq(Cut)
  PROVE  \E v \in [0..Len(q) -> Nat] :
           /\ v[0] = 0 /\ LengthOf(q) = v[Len(q)]
           /\ \A i \in 1..Len(q) : v[i] = v[i - 1] + q[i].len
<1> DEFINE n == Len(q)
           g == [x \in Nat \X Cut |-> x[1] + x[2].len]
           c == CHOOSE c : c = [s \in SUBSET (1..n) |->
                  IF s = {} THEN 0 ELSE c[s \ {Max(s)}] + q[Max(s)].len]
<1>1. n \in Nat /\ q \in [1..n -> Cut]
  OBVIOUS
<1>2. \A y \in Cut : y.len \in Nat
  BY DEF Cut
<1>3. g \in [Nat \X Cut -> Nat] /\ 0 \in Nat
  BY <1>2
<1>4. \A x \in Nat, y \in Cut : g[<<x, y>>] = x + y.len
  OBVIOUS
<1>5. LengthOf(q) = c[1..n]
  BY <1>1 DEF LengthOf, FoldLeft, MapThenFoldSet
<1> HIDE DEF g, n
<1>6. c = [s \in SUBSET (1..n) |->
             IF s = {} THEN 0 ELSE c[s \ {Max(s)}] + q[Max(s)].len]
  <2>1. PICK h, v : /\ FoldsTo(h, 1..n, 0, g, q) /\ Typed(h, 1..n, Nat, Cut, q)
                    /\ Values(v, n, Nat, Cut, 0, g, q)
    BY <1>1, <1>3, FoldAlong
  <2>2. h = [s \in SUBSET (1..n) |->
             IF s = {} THEN 0 ELSE h[s \ {Max(s)}] + q[Max(s)].len]
    BY <1>4, <2>1 DEF FoldsTo, Typed
  <2> QED BY <2>2
<1> HIDE DEF c
<1>7. FoldsLike(c, 1..n, Nat, Cut, 0, g, q)
  BY <1>4, <1>6 DEF FoldsLike
<1>8. PICK v : Values(v, n, Nat, Cut, 0, g, q) /\ Ends(v, n, c)
  BY <1>1, <1>3, <1>7, FoldRounds
<1>9. \A i \in 1..n : v[i] = v[i - 1] + q[i].len
  BY <1>4, <1>8 DEF Values
<1> QED BY <1>5, <1>8, <1>9 DEF n, Values, Ends

\* The lengths of the texts up to each position.
Totals(q, v) ==
  /\ v \in [0..Len(q) -> Nat] /\ v[0] = 0
  /\ \A i \in 1..Len(q) : v[i] = v[i - 1] + q[i].len
  /\ \A i \in 0..Len(q), j \in 0..Len(q) : i <= j => v[i] + (j - i) <= v[j]
  /\ \A i \in 1..Len(q), j \in 0..Len(q) : i <= j + 1 => Chars(q, i, j) = v[j] - v[i - 1]

\* The length of a part is the difference of two totals.
LEMMA TotalsExist ==
  ASSUME NEW q \in Seq(Text)
  PROVE  \E v : Totals(q, v)
<1>1. Text \subseteq Cut
  BY TextLength DEF Text, Cut
<1>2. q \in Seq(Cut) /\ Len(q) \in Nat
  BY <1>1
<1>3. PICK v \in [0..Len(q) -> Nat] :
        /\ v[0] = 0 /\ LengthOf(q) = v[Len(q)]
        /\ \A i \in 1..Len(q) : v[i] = v[i - 1] + q[i].len
  BY <1>2, LengthAlong
<1>4. \A i \in 1..Len(q) : q[i].len \in Nat /\ q[i].len > 0
  BY TextLength
<1>5. ASSUME NEW i \in 0..Len(q)
      PROVE  \A j \in 0..Len(q) : i <= j => v[i] + (j - i) <= v[j]
  <2> DEFINE G == {j \in 0..Len(q) : i <= j => v[i] + (j - i) <= v[j]}
  <2>1. 0 \in G
    BY <1>2, <1>3
  <2>2. ASSUME NEW j \in 1..Len(q), j - 1 \in G PROVE j \in G
    <3>1. PICK a, b, c, d \in Nat : a = v[i] /\ b = v[j - 1] /\ c = v[j] /\ d = q[j].len
      <4>1. j - 1 \in 0..Len(q) /\ j \in 0..Len(q) /\ i \in 0..Len(q)
        BY <1>2
      <4> QED BY <1>3, <1>4, <4>1
    <3>2. c = b + d /\ d > 0
      BY <1>3, <1>4, <3>1
    <3>3. i <= j - 1 => a + (j - 1 - i) <= b
      BY <2>2, <3>1
    <3>4. CASE i = j
      BY <1>2, <3>1, <3>4
    <3>5. CASE i # j
      <4>1. i <= j => a + (j - i) <= c
        BY <1>2, <3>2, <3>3, <3>5
      <4> QED BY <3>1, <4>1
    <3> QED BY <3>4, <3>5
  <2> HIDE DEF G
  <2>3. \A j \in 0..Len(q) : j \in G
    BY <1>2, <2>1, <2>2, NumbersAreGood
  <2> QED BY <2>3 DEF G
<1>6. ASSUME NEW i \in 1..Len(q), NEW j \in 0..Len(q), i <= j + 1
      PROVE  Chars(q, i, j) = v[j] - v[i - 1]
  <2>1. PICK p : p = SubSeq(q, i, j)
    OBVIOUS
  <2>2. p \in Seq(Cut) /\ Len(p) = j - i + 1 /\ Len(p) \in Nat
    BY <1>2, <1>6, <2>1
  <2>3. \A k \in 1..Len(p) : i + k - 1 \in 1..Len(q) /\ p[k] = q[i + k - 1]
    BY <1>2, <1>6, <2>1, <2>2
  <2>4. PICK w \in [0..Len(p) -> Nat] :
          /\ w[0] = 0 /\ LengthOf(p) = w[Len(p)]
          /\ \A k \in 1..Len(p) : w[k] = w[k - 1] + p[k].len
    BY <2>2, LengthAlong
  <2> DEFINE G == {k \in 0..Len(p) : v[i - 1] + w[k] = v[i + k - 1]}
  <2>5. 0 \in G
    <3>1. i + 0 - 1 = i - 1 /\ i - 1 \in 0..Len(q) /\ 0 \in 0..Len(p)
      BY <1>2, <2>2
    <3>2. v[i - 1] \in Nat /\ w[0] = 0
      BY <1>3, <2>4, <3>1
    <3>3. v[i - 1] + w[0] = v[i + 0 - 1]
      BY <3>1, <3>2
    <3> QED BY <3>1, <3>3
  <2>6. ASSUME NEW k \in 1..Len(p), k - 1 \in G PROVE k \in G
    <3>1. i + k - 1 \in 1..Len(q) /\ p[k] = q[i + k - 1] /\ (i + k - 1) - 1 = i + (k - 1) - 1
      BY <2>2, <2>3
    <3>2. v[i + k - 1] = v[i + (k - 1) - 1] + p[k].len
      BY <1>3, <3>1
    <3>3. w[k] = w[k - 1] + p[k].len
      BY <2>4
    <3>4. v[i - 1] + w[k - 1] = v[i + (k - 1) - 1]
      BY <2>6
    <3>5. PICK a, b, d \in Nat : a = v[i - 1] /\ b = w[k - 1] /\ d = p[k].len
      <4>1. i - 1 \in 0..Len(q) /\ k - 1 \in 0..Len(p) /\ p[k] = q[i + k - 1]
        <5>1. k \in 1..Len(p) /\ i \in 1..Len(q)
          OBVIOUS
        <5> QED BY <1>2, <2>2, <3>1, <5>1, SMTT(30)
      <4> QED BY <1>3, <1>4, <2>4, <3>1, <4>1
    <3>6. a + (b + d) = (a + b) + d
      OBVIOUS
    <3>7. v[i - 1] + w[k] = v[i + k - 1]
      BY <3>2, <3>3, <3>4, <3>5, <3>6
    <3> QED BY <3>7
  <2>7. Len(p) \in G
    <3> HIDE DEF G
    <3>1. \A k \in 0..Len(p) : k \in G
      BY <2>2, <2>5, <2>6, NumbersAreGood
    <3> QED BY <2>2, <3>1
  <2>8. v[i - 1] + w[Len(p)] = v[j]
    <3>1. i + Len(p) - 1 = j
      BY <2>2
    <3> QED BY <2>7, <3>1
  <2>9. v[i - 1] \in Nat /\ v[j] \in Nat /\ w[Len(p)] \in Nat
    <3>1. i - 1 \in 0..Len(q) /\ Len(p) \in 0..Len(p)
      BY <1>2, <2>2
    <3> QED BY <1>3, <2>4, <3>1
  <2>10. Chars(q, i, j) = w[Len(p)]
    BY <2>1, <2>4 DEF Chars, LengthOf
  <2> QED BY <2>8, <2>9, <2>10
<1> QED BY <1>3, <1>5, <1>6 DEF Totals

-----------------------------------------------------------------------------
(* AssistantTurn: the prompt *)

\* Where the recent turns start: so that they fit, or with the last message alone.
LEMMA RecentStarts ==
  ASSUME NEW q \in Seq(Text), q # <<>>
  PROVE  /\ RecentFrom(q) \in DOMAIN q /\ Len(q) - RecentFrom(q) < TurnLimit
         /\ RecentFrom(q) = Len(q) \/ Chars(q, RecentFrom(q), Len(q)) <= CharBudget
<1> DEFINE Fits(k) == k = Len(q) \/ Chars(q, k, Len(q)) <= CharBudget
           S == {k \in DOMAIN q : Len(q) - k < TurnLimit /\ Fits(k)}
<1>1. Len(q) \in DOMAIN q /\ Len(q) \in Nat /\ DOMAIN q = 1..Len(q)
  OBVIOUS
<1>2. Len(q) - Len(q) < TurnLimit
  BY <1>1, Budgets
<1>3. S \in SUBSET Nat /\ S # {}
  BY <1>1, <1>2
<1>4. Min(S) \in S
  <2> HIDE DEF S
  <2> QED BY <1>3, MinIs
<1>5. RecentFrom(q) = Min(S)
  BY DEF RecentFrom
<1> QED BY <1>4, <1>5

\* Turns that fit together are not cut.
LEMMA NoneCut ==
  ASSUME NEW q \in Seq(Text), NEW k \in DOMAIN q, Chars(q, k, Len(q)) <= CharBudget
  PROVE  \A i \in k..Len(q) : ~(q[i].len > CharBudget)
<1>1. PICK v : Totals(q, v)
  BY TotalsExist
<1>2. Len(q) \in Nat /\ k \in 1..Len(q) /\ CharBudget \in Nat
  BY Budgets
<1> SUFFICES ASSUME NEW i \in k..Len(q) PROVE ~(q[i].len > CharBudget)
  OBVIOUS
<1>3. /\ i \in 1..Len(q) /\ i \in 0..Len(q) /\ i - 1 \in 0..Len(q) /\ k - 1 \in 0..Len(q)
      /\ Len(q) \in 0..Len(q) /\ k - 1 <= i - 1 /\ i <= Len(q) /\ k <= Len(q) + 1
  BY <1>2
<1>4. PICK a, b, c, d, l \in Nat :
        a = v[k - 1] /\ b = v[i - 1] /\ c = v[i] /\ d = v[Len(q)] /\ l = q[i].len
  <2>1. q[i] \in Text
    BY <1>3
  <2>2. q[i].len \in Nat
    BY <2>1, TextLength
  <2>3. v \in [0..Len(q) -> Nat]
    BY <1>1 DEF Totals
  <2> QED BY <1>3, <2>2, <2>3
<1>5. c = b + l
  BY <1>1, <1>3, <1>4 DEF Totals
<1>6. a + ((i - 1) - (k - 1)) <= b /\ c + (Len(q) - i) <= d
  BY <1>1, <1>3, <1>4 DEF Totals
<1>7. d - a <= CharBudget
  BY <1>1, <1>2, <1>3, <1>4 DEF Totals
<1>8. l <= CharBudget
  BY <1>2, <1>3, <1>5, <1>6, <1>7, SMTT(30)
<1> QED BY <1>2, <1>4, <1>8

\* The recent turns are the end of the thread, within both limits.
LEMMA RecentFits ==
  ASSUME NEW q \in Seq(Text), q # <<>>
  PROVE  /\ RecentTurns(q) \in Seq(Cut) /\ RecentTurns(q) # <<>>
         /\ Len(RecentTurns(q)) <= TurnLimit
         /\ Chars(RecentTurns(q), 1, Len(RecentTurns(q))) <= CharBudget
<1>1. PICK f \in DOMAIN q : f = RecentFrom(q)
  BY RecentStarts
<1>2. Len(q) - f < TurnLimit /\ (f = Len(q) \/ Chars(q, f, Len(q)) <= CharBudget)
  BY <1>1, RecentStarts
<1>3. PICK n \in Nat : n = Len(q) - f + 1 /\ n > 0
  OBVIOUS
<1>4. Len(q) \in Nat /\ f \in 1..Len(q) /\ CharBudget \in Nat /\ TurnLimit \in Nat
  BY Budgets
<1>5. PICK r : r = RecentTurns(q)
  OBVIOUS
<1> DEFINE Of(i) == IF q[i].len > CharBudget THEN [q[i] EXCEPT !.len = CharBudget] ELSE q[i]
<1>6. r = [i \in 1..n |-> Of(f + i - 1)]
  BY <1>1, <1>3, <1>5 DEF RecentTurns
<1>7. \A i \in 1..Len(q) : Of(i) \in Cut
  <2> SUFFICES ASSUME NEW i \in 1..Len(q) PROVE Of(i) \in Cut
    OBVIOUS
  <2>1. q[i] \in Text /\ q[i].len \in Nat
    BY TextLength
  <2>2. q[i] \in Cut
    BY <2>1 DEF Text, Cut
  <2>3. [q[i] EXCEPT !.len = CharBudget] \in Cut
    BY <1>4, <2>2 DEF Cut
  <2> QED BY <2>2, <2>3
<1>8. \A i \in 1..n : f + i - 1 \in 1..Len(q) /\ f + i - 1 \in f..Len(q)
  BY <1>3, <1>4
<1>9. r \in Seq(Cut) /\ Len(r) = n
  <2>1. \A i \in 1..n : Of(f + i - 1) \in Cut
    BY <1>7, <1>8
  <2> HIDE DEF Of
  <2> QED BY <1>6, <2>1
<1>10. SubSeq(r, 1, n) = r
  BY <1>3, <1>9
<1>11. Chars(r, 1, n) = LengthOf(r)
  BY <1>10 DEF Chars, LengthOf
<1>12. Chars(r, 1, n) <= CharBudget
  <2>1. CASE f = Len(q)
    <3>1. n = 1 /\ f + 1 - 1 = f
      BY <1>3, <1>4, <2>1
    <3>2. r[1] = Of(f)
      BY <1>6, <3>1
    <3>3. q[f] \in Text /\ q[f].len \in Nat
      BY TextLength
    <3>4. Of(f).len <= CharBudget /\ Of(f).len \in Nat
      BY <1>4, <3>3 DEF Text
    <3>5. PICK w \in [0..Len(r) -> Nat] :
            /\ w[0] = 0 /\ LengthOf(r) = w[Len(r)]
            /\ \A k \in 1..Len(r) : w[k] = w[k - 1] + r[k].len
      BY <1>9, LengthAlong
    <3>6. LengthOf(r) = Of(f).len
      <4> HIDE DEF Of
      <4> QED BY <1>9, <3>1, <3>2, <3>4, <3>5
    <3> HIDE DEF Of
    <3> QED BY <1>11, <3>4, <3>6
  <2>2. CASE f # Len(q)
    <3>1. Chars(q, f, Len(q)) <= CharBudget
      BY <1>2, <2>2
    <3>2. \A i \in f..Len(q) : Of(i) = q[i]
      BY <3>1, NoneCut
    <3>3. r = [i \in 1..n |-> q[f + i - 1]]
      <4> HIDE DEF Of
      <4> QED BY <1>6, <1>8, <3>2
    <3>4. SubSeq(q, f, Len(q)) = [i \in 1..n |-> q[f + i - 1]]
      BY <1>3, <1>4
    <3> QED BY <1>10, <3>1, <3>3, <3>4 DEF Chars
  <2> QED BY <2>1, <2>2
<1>13. r # <<>> /\ n <= TurnLimit
  BY <1>2, <1>3, <1>4, <1>9
<1> QED BY <1>5, <1>9, <1>12, <1>13

LEMMA PromptHolds == messages \in Seq(Text) => PromptHoldsQuestion
<1> SUFFICES ASSUME messages \in Seq(Text), messages # <<>>
             PROVE  /\ Last(Prompt(messages)) = Last(messages)
                    /\ LET recent == RecentTurns(messages) IN
                         /\ Len(recent) <= TurnLimit
                         /\ Chars(recent, 1, Len(recent)) <= CharBudget
  BY DEF PromptHoldsQuestion
<1>1. PICK r : r = RecentTurns(messages)
  OBVIOUS
<1>2. r \in Seq(Cut) /\ Len(r) <= TurnLimit /\ Chars(r, 1, Len(r)) <= CharBudget
  BY <1>1, RecentFits
<1>3. PICK l : l = Last(messages)
  OBVIOUS
<1>4. Prompt(messages) = IF Last(r) = l THEN r ELSE Append(r, l)
  BY <1>1, <1>3 DEF Prompt
<1>5. Last(Append(r, l)) = l
  <2>1. Len(Append(r, l)) = Len(r) + 1 /\ Append(r, l)[Len(r) + 1] = l
    BY <1>2
  <2> QED BY <2>1 DEF Last
<1>6. Last(Prompt(messages)) = l
  BY <1>4, <1>5
<1> QED BY <1>1, <1>2, <1>3, <1>6

-----------------------------------------------------------------------------
(* AssistantTurn: windows *)

Window == [lo: Nat, hi: Nat]

\* The window is within its limits, and holds the message with its neighbours.
Holds(q, p, w) ==
  /\ w \in Window /\ 1 <= w.lo /\ w.lo <= p.lo /\ p.hi <= w.hi /\ w.hi <= Len(q)
  /\ w.hi - w.lo < SpanLimit
  /\ w = p \/ Chars(q, w.lo, w.hi) <= SpanBudget

LEMMA PaddedHolds ==
  ASSUME NEW q \in Seq(Text), NEW a \in DOMAIN q
  PROVE  /\ Holds(q, Padded(q, a), Padded(q, a))
         /\ Padded(q, a).lo <= a /\ a <= Padded(q, a).hi
<1>1. PICK n, b \in Nat : n = Len(q) /\ b = Pad /\ SpanLimit >= 2 * b + 1 /\ SpanLimit \in Nat
  BY Budgets
<1>2. a \in 1..n
  BY <1>1
<1>3. PICK l, h \in Nat : /\ l = IF a > b THEN a - b ELSE 1
                          /\ h = IF a + b <= n THEN a + b ELSE n
  BY <1>1, <1>2
<1>4. Padded(q, a) = [lo |-> l, hi |-> h]
  BY <1>1, <1>3 DEF Padded
<1>5. 1 <= l /\ l <= a /\ a <= h /\ h <= n /\ h - l < SpanLimit
  <2>1. a \in Nat /\ 1 <= a /\ a <= n
    BY <1>2
  <2>2. 1 <= l /\ l <= a /\ a <= h /\ h <= n /\ a - l <= b /\ h - a <= b
    BY <1>3, <2>1
  <2>3. h - l <= 2 * b
    BY <2>1, <2>2
  <2> QED BY <1>1, <2>2, <2>3
<1> QED BY <1>1, <1>4, <1>5 DEF Holds, Window

\* One more message is taken, to the left or the right, and fits; or none is.
LEMMA WidenHolds ==
  ASSUME NEW q \in Seq(Text), NEW p, p.lo \in Nat, p.hi \in Nat, p.lo <= p.hi,
         NEW w, Holds(q, p, w)
  PROVE  Holds(q, p, Widen(q, w))
<1>1. PICK v : Totals(q, v)
  BY TotalsExist
<1>2. PICK n \in Nat : n = Len(q) /\ DOMAIN q = 1..n
  OBVIOUS
<1>3. w = [lo |-> w.lo, hi |-> w.hi] /\ w.lo \in Nat /\ w.hi \in Nat
  BY DEF Holds, Window
<1>4. PICK l, h \in Nat : l = w.lo /\ h = w.hi
  BY <1>3
<1>5. 1 <= l /\ l <= p.lo /\ p.hi <= h /\ h <= n /\ h - l < SpanLimit /\ l <= h
  BY <1>2, <1>4 DEF Holds
<1>6. PICK next : next = IF Leftwards(q, w) THEN l - 1 ELSE h + 1
  OBVIOUS
<1>7. CASE \/ h - l + 1 >= SpanLimit
           \/ next \notin DOMAIN q
           \/ Chars(q, l, h) + q[next].len > SpanBudget
  <2>1. Widen(q, w) = w
    BY <1>4, <1>6, <1>7 DEF Widen
  <2> QED BY <2>1
<1>8. CASE ~(\/ h - l + 1 >= SpanLimit
             \/ next \notin DOMAIN q
             \/ Chars(q, l, h) + q[next].len > SpanBudget)
  <2>1. /\ next \in 1..n /\ h - l + 1 < SpanLimit
        /\ ~(Chars(q, l, h) + q[next].len > SpanBudget)
    <3>1. ~(h - l + 1 >= SpanLimit) /\ SpanLimit \in Nat
      BY <1>8, Budgets
    <3> QED BY <1>2, <1>8, <3>1
  <2>2. Widen(q, w) = IF next < l THEN [w EXCEPT !.lo = next] ELSE [w EXCEPT !.hi = next]
    BY <1>4, <1>6, <1>8 DEF Widen
  <2>3. PICK b, c, d \in Nat : /\ b = v[l - 1] /\ c = v[h] /\ d = q[next].len
                               /\ Chars(q, l, h) = c - b
    <3>1. l - 1 \in 0..n /\ h \in 0..n /\ l \in 1..n /\ l <= h + 1
      BY <1>5
    <3>2. q[next] \in Text
      BY <1>2, <2>1
    <3>3. v \in [0..n -> Nat]
      BY <1>1, <1>2 DEF Totals
    <3>4. Chars(q, l, h) = v[h] - v[l - 1]
      BY <1>1, <1>2, <3>1 DEF Totals
    <3> QED BY <3>1, <3>2, <3>3, <3>4, TextLength
  <2>4. SpanBudget \in Nat /\ (c - b) + d <= SpanBudget
    <3>1. SpanBudget \in Nat
      BY Budgets
    <3>2. ~((c - b) + d > SpanBudget)
      BY <2>1, <2>3, Zenon
    <3> QED BY <3>1, <3>2
  <2>5. CASE next < l
    <3>1. next = l - 1 /\ l > 1
      BY <1>5, <1>6, <2>1, <2>5
    <3>2. Widen(q, w) = [lo |-> l - 1, hi |-> h]
      BY <1>3, <1>4, <2>2, <2>5, <3>1
    <3>3. Chars(q, l - 1, h) <= SpanBudget
      <4>1. /\ l - 1 \in 1..n /\ h \in 0..n /\ l - 1 <= h + 1 /\ l - 1 - 1 \in 0..n
        BY <1>5, <3>1
      <4>2. v[l - 1] = v[l - 1 - 1] + d /\ Chars(q, l - 1, h) = v[h] - v[l - 1 - 1]
        BY <1>1, <1>2, <2>3, <3>1, <4>1 DEF Totals
      <4>3. PICK e \in Nat : e = v[l - 1 - 1]
        BY <1>1, <1>2, <4>1 DEF Totals
      <4>4. b = e + d /\ Chars(q, l - 1, h) = c - e
        BY <2>3, <4>2, <4>3
      <4> QED BY <2>4, <4>4
    <3>4. 1 <= l - 1 /\ l - 1 <= p.lo /\ p.hi <= h /\ h <= n /\ h - (l - 1) < SpanLimit
      BY <1>5, <2>1, <3>1, Budgets
    <3>5. l - 1 \in Nat
      BY <3>1
    <3> QED BY <1>2, <3>2, <3>3, <3>4, <3>5 DEF Holds, Window
  <2>6. CASE ~(next < l)
    <3>1. next = h + 1
      BY <1>5, <1>6, <2>1, <2>6
    <3>2. Widen(q, w) = [lo |-> l, hi |-> h + 1]
      BY <1>3, <1>4, <2>2, <2>6, <3>1
    <3>3. Chars(q, l, h + 1) <= SpanBudget
      <4>1. /\ l \in 1..n /\ h + 1 \in 0..n /\ h + 1 \in 1..n /\ l <= (h + 1) + 1
            /\ (h + 1) - 1 = h
        BY <1>5, <2>1, <3>1
      <4>2. v[h + 1] = v[h] + d /\ Chars(q, l, h + 1) = v[h + 1] - v[l - 1]
        BY <1>1, <1>2, <2>3, <3>1, <4>1 DEF Totals
      <4>3. Chars(q, l, h + 1) = (c + d) - b
        BY <2>3, <4>2
      <4> QED BY <2>4, <4>3
    <3>4. 1 <= l /\ l <= p.lo /\ p.hi <= h + 1 /\ h + 1 <= n /\ (h + 1) - l < SpanLimit
      BY <1>5, <2>1, <3>1, Budgets
    <3> QED BY <1>2, <3>2, <3>3, <3>4 DEF Holds, Window
  <2> QED BY <2>5, <2>6
<1> QED BY <1>7, <1>8

\* The window that is grown, message after message.
LEMMA GrownHolds ==
  ASSUME NEW q \in Seq(Text), NEW p, p.lo \in Nat, p.hi \in Nat, p.lo <= p.hi,
         NEW w, Holds(q, p, w)
  PROVE  Holds(q, p, Grown(q, w))
<1> DEFINE R == {x \in Window : Holds(q, p, x)}
           n == Len(q)
           g == [x \in R \X Text |-> Widen(q, x[1])]
           c == CHOOSE c : c = [s \in SUBSET (1..n) |->
                  IF s = {} THEN w ELSE Widen(q, c[s \ {Max(s)}])]
<1>1. n \in Nat /\ q \in [1..n -> Text]
  OBVIOUS
<1>2. w \in R /\ \A x \in R : Widen(q, x) \in R
  BY WidenHolds DEF Holds
<1>3. g \in [R \X Text -> R]
  <2> HIDE DEF R
  <2> QED BY <1>2
<1>4. \A x \in R, y \in Text : g[<<x, y>>] = Widen(q, x)
  OBVIOUS
<1>5. Grown(q, w) = c[1..n]
  BY <1>1 DEF Grown, FoldLeft, MapThenFoldSet
<1> HIDE DEF g, n, R
<1>6. c = [s \in SUBSET (1..n) |-> IF s = {} THEN w ELSE Widen(q, c[s \ {Max(s)}])]
  <2>1. PICK h, v : /\ FoldsTo(h, 1..n, w, g, q) /\ Typed(h, 1..n, R, Text, q)
                    /\ Values(v, n, R, Text, w, g, q)
    BY <1>1, <1>2, <1>3, FoldAlong
  <2>2. h = [s \in SUBSET (1..n) |-> IF s = {} THEN w ELSE Widen(q, h[s \ {Max(s)}])]
    BY <1>4, <2>1 DEF FoldsTo, Typed
  <2> QED BY <2>2
<1> HIDE DEF c
<1>7. FoldsLike(c, 1..n, R, Text, w, g, q)
  BY <1>4, <1>6 DEF FoldsLike
<1>8. PICK v : Values(v, n, R, Text, w, g, q) /\ Ends(v, n, c)
  BY <1>1, <1>2, <1>3, <1>7, FoldRounds
<1>9. v[n] \in R
  BY <1>1, <1>8 DEF Values
<1> QED BY <1>5, <1>8, <1>9 DEF Ends, R

\* A part of a part of a thread is no longer than the part.
LEMMA PartsAreShorter ==
  ASSUME NEW q \in Seq(Text), NEW l \in 1..Len(q), NEW h \in 1..Len(q), NEW i \in l..h,
         NEW a \in i..h, Chars(q, l, h) <= SpanBudget
  PROVE  Chars(q, i, a) <= SpanBudget
<1>1. PICK v : Totals(q, v)
  BY TotalsExist
<1>2. PICK n \in Nat : n = Len(q)
  OBVIOUS
<1>3. /\ l - 1 \in 0..n /\ i - 1 \in 0..n /\ a \in 0..n /\ h \in 0..n /\ i \in 1..n /\ l \in 1..n
      /\ l - 1 <= i - 1 /\ a <= h /\ i <= a + 1 /\ l <= h + 1
  BY <1>2
<1>4. /\ v[l - 1] + ((i - 1) - (l - 1)) <= v[i - 1] /\ v[a] + (h - a) <= v[h]
      /\ Chars(q, i, a) = v[a] - v[i - 1] /\ Chars(q, l, h) = v[h] - v[l - 1]
  BY <1>1, <1>2, <1>3 DEF Totals
<1>5. PICK b, c, d, e \in Nat : b = v[l - 1] /\ c = v[i - 1] /\ d = v[a] /\ e = v[h]
  BY <1>1, <1>2, <1>3 DEF Totals
<1>6. b <= c /\ d <= e
  <2>1. b + ((i - 1) - (l - 1)) <= c /\ d + (h - a) <= e
    BY <1>4, <1>5, Zenon
  <2>2. l \in Nat /\ i \in Nat /\ a \in Nat /\ h \in Nat /\ l <= i /\ a <= h
    BY <1>2
  <2> QED BY <2>1, <2>2
<1>7. SpanBudget \in Nat /\ e - b <= SpanBudget
  BY <1>4, <1>5, Budgets
<1>8. d - c <= SpanBudget
  BY <1>6, <1>7
<1> QED BY <1>4, <1>5, <1>8

\* What is shown of a window that holds its message.
LEMMA ShownHolds ==
  ASSUME NEW q \in Seq(Text), NEW a \in DOMAIN q, NEW w, Holds(q, Padded(q, a), w)
  PROVE  HoldsMatch(q, a, Shown(q, w))
<1> DEFINE Fits(i, j) == Chars(q, i, j) <= SpanBudget
<1>1. PICK p : p = Padded(q, a)
  OBVIOUS
<1>2. Holds(q, p, p) /\ Holds(q, p, w) /\ p.lo <= a /\ a <= p.hi /\ a \in Nat
  BY <1>1, PaddedHolds
<1>3. PICK l, h, i, j \in Nat : /\ l = w.lo /\ h = w.hi /\ w = [lo |-> l, hi |-> h]
                                /\ i = p.lo /\ j = p.hi /\ p = [lo |-> i, hi |-> j]
  BY <1>2 DEF Holds, Window
<1>4. /\ 1 <= l /\ l <= i /\ i <= a /\ a <= j /\ j <= h /\ h <= Len(q) /\ l <= h
      /\ h - l < SpanLimit /\ SpanLimit \in Nat /\ SpanBudget \in Nat
      /\ w = p \/ Fits(l, h)
  <2>1. SpanLimit \in Nat /\ SpanBudget \in Nat
    BY Budgets
  <2>2. /\ 1 <= l /\ l <= i /\ j <= h /\ h <= Len(q) /\ h - l < SpanLimit
        /\ w = p \/ Chars(q, l, h) <= SpanBudget
    <3>1. Holds(q, p, w)
      BY <1>2
    <3>2. /\ 1 <= w.lo /\ w.lo <= p.lo /\ p.hi <= w.hi /\ w.hi <= Len(q)
          /\ w.hi - w.lo < SpanLimit
          /\ w = p \/ Chars(q, w.lo, w.hi) <= SpanBudget
      BY <3>1, Zenon DEF Holds
    <3> HIDE DEF Fits
    <3> QED BY <1>3, <3>2, Zenon
  <2>3. i <= a /\ a <= j
    BY <1>2, <1>3, Zenon
  <2>4. l <= h
    <3> HIDE DEF Fits
    <3>1. l <= i /\ i <= a /\ a <= j /\ j <= h
      BY <2>2, <2>3
    <3> QED BY <1>2, <1>3, <3>1
  <2> QED BY <2>1, <2>2, <2>3, <2>4, Zenon
<1> DEFINE S == {k \in l..h : k = l \/ Fits(l, k)}
<1>5. Max(S) \in S /\ \A k \in S : k <= Max(S)
  <2>1. S \in SUBSET (0..h) /\ l \in S
    BY <1>3, <1>4
  <2> HIDE DEF S
  <2> QED BY <1>3, <2>1, MaxIs
<1>6. PICK m \in l..h : m = Max(S) /\ (m = l \/ Fits(l, m)) /\ \A k \in S : k <= m
  BY <1>5
<1>7. Shown(q, w) = [lo |-> l, hi |-> m]
  BY <1>3, <1>6 DEF Shown
<1>8. m - l < SpanLimit /\ m \in Nat
  BY <1>3, <1>4, <1>6
<1>9. Fits(l, m) \/ l = m
  BY <1>6
<1>10. ASSUME NEW k \in l..h, Fits(l, k) \/ k = l PROVE k <= m
  <2>1. k \in S
    BY <1>10
  <2> HIDE DEF S
  <2> QED BY <1>6, <2>1
<1>11. ASSUME Fits(i, j) PROVE l <= i /\ j <= m
  <2>1. Fits(l, h) /\ h \in l..h
    BY <1>3, <1>4, <1>11
  <2>2. h <= m
    BY <1>10, <2>1
  <2> HIDE DEF S, Fits
  <2> QED BY <1>3, <1>4, <1>8, <2>2
<1>12. ASSUME Fits(i, a) \/ i = a PROVE a \in l..m
  <2>1. a \in l..h
    BY <1>2, <1>4
  <2>2. a <= m
    <3>1. CASE w = p
      <4>1. i = l
        BY <1>3, <3>1
      <4>2. Fits(l, a) \/ a = l
        BY <1>12, <4>1
      <4> HIDE DEF S, Fits
      <4> QED BY <1>10, <2>1, <4>2
    <3>2. CASE Fits(l, h)
      <4>1. h \in l..h
        BY <1>3, <1>4
      <4>2. h <= m
        BY <1>10, <3>2, <4>1
      <4> HIDE DEF S, Fits
      <4> QED BY <1>3, <1>8, <2>1, <4>2
    <3> QED BY <1>4, <3>1, <3>2
  <2> HIDE DEF S, Fits
  <2> QED BY <1>8, <2>1, <2>2
<1>13. ASSUME a \in l..m PROVE Fits(i, a) \/ i = a
  <2> HIDE DEF S
  <2>1. l \in 1..Len(q) /\ h \in 1..Len(q) /\ m \in 1..Len(q) /\ i \in l..h /\ a \in i..h /\ a \in i..m
    <3> HIDE DEF Fits
    <3>1. PICK n \in Nat : n = Len(q)
      OBVIOUS
    <3>2. a <= m /\ m <= h /\ a \in Nat
      BY <1>2, <1>6, <1>13
    <3>3. 1 <= l /\ l <= i /\ i <= a /\ h <= n
      BY <1>4, <3>1, Zenon
    <3>4. /\ l \in 1..n /\ h \in 1..n /\ m \in 1..n /\ i \in l..h /\ a \in i..h /\ a \in i..m
      BY <1>3, <1>8, <3>2, <3>3
    <3> QED BY <3>1, <3>4
  <2>2. CASE Fits(l, h)
    BY <2>1, <2>2, PartsAreShorter
  <2>3. CASE w = p
    <3>1. i = l
      BY <1>3, <2>3
    <3>2. CASE l = m
      <4> HIDE DEF Fits
      <4> QED BY <1>3, <2>1, <3>1, <3>2
    <3>3. CASE Fits(l, m)
      <4>1. i \in l..m /\ l \in l..m
        <5> HIDE DEF Fits
        <5> QED BY <1>3, <1>8, <2>1, <3>1
      <4> QED BY <2>1, <3>1, <3>3, <4>1, PartsAreShorter
    <3> QED BY <1>9, <3>2, <3>3
  <2> QED BY <1>4, <2>2, <2>3
<1>14. PICK span : span = Shown(q, w) /\ span.lo = l /\ span.hi = m
  BY <1>7
<1>15. a \in l..m <=> (Fits(i, a) \/ i = a)
  BY <1>12, <1>13
<1> HIDE DEF S
<1> QED BY <1>1, <1>3, <1>8, <1>9, <1>11, <1>14, <1>15 DEF HoldsMatch

LEMMA ExpandHolds ==
  ASSUME NEW q \in Seq(Text), NEW a \in DOMAIN q
  PROVE  HoldsMatch(q, a, Expand(q, a))
<1>1. PICK p : p = Padded(q, a)
  OBVIOUS
<1>2. Holds(q, p, p) /\ p.lo <= a /\ a <= p.hi /\ a \in Nat
  BY <1>1, PaddedHolds
<1>3. p.lo \in Nat /\ p.hi \in Nat /\ p.lo <= p.hi
  BY <1>2 DEF Holds, Window
<1>4. Holds(q, p, Grown(q, p))
  BY <1>2, <1>3, GrownHolds
<1> QED BY <1>1, <1>4, ShownHolds DEF Expand

\* Of the messages that match there is a best one.
LEMMA BestIs ==
  ASSUME NEW q \in Seq(Text), Matches(q) # {}
  PROVE  Best(q) \in DOMAIN q
<1> DEFINE T == {i \in Matches(q) : \A j \in DOMAIN q : q[j].score <= q[i].score}
           f == [i \in DOMAIN q |-> q[i].score]
           V == {f[i] : i \in DOMAIN q}
<1>1. \A i \in DOMAIN q : q[i].score \in Nat
  <2> SUFFICES ASSUME NEW i \in DOMAIN q PROVE q[i].score \in Nat
    OBVIOUS
  <2>1. q[i] \in Text
    OBVIOUS
  <2>2. q[i].score \in Scores
    BY <2>1 DEF Text
  <2> QED BY <2>2, Texts
<1>2. IsFiniteSet(DOMAIN q) /\ DOMAIN q = 1..Len(q) /\ Len(q) \in Nat
  <2>1. DOMAIN q = 1..Len(q) /\ Len(q) \in Nat
    OBVIOUS
  <2> QED BY <2>1, FS_Interval
<1>3. PICK n \in Nat : \A i \in DOMAIN q : f[i] <= n
  <2>1. \A i \in DOMAIN q : f[i] \in Nat
    BY <1>1
  <2> HIDE DEF f
  <2> QED BY <1>2, <2>1, NumbersAreBounded
<1>4. PICK b \in V : \A y \in V : y <= b
  <2>1. V \in SUBSET (0..n) /\ V # {}
    BY <1>1, <1>3 DEF Matches
  <2> HIDE DEF V
  <2> QED BY <2>1, GreatestExists
<1>5. PICK i \in DOMAIN q : \A j \in DOMAIN q : q[j].score <= q[i].score
  BY <1>4
<1>6. i \in T
  <2>1. PICK k \in DOMAIN q : q[k].score > 0
    BY DEF Matches
  <2>2. q[k].score <= q[i].score /\ q[i].score \in Nat /\ q[k].score \in Nat
    BY <1>1, <1>5
  <2>3. q[i].score > 0
    BY <2>1, <2>2
  <2> QED BY <1>5, <2>3 DEF Matches
<1>7. T \in SUBSET (0..Len(q)) /\ T # {} /\ T \subseteq DOMAIN q
  BY <1>2, <1>6 DEF Matches
<1>8. Max(T) \in T
  <2> HIDE DEF T
  <2> QED BY <1>2, <1>7, MaxIs
<1> QED BY <1>7, <1>8 DEF Best

LEMMA SpansHold == messages \in Seq(Text) => SpanHoldsMatch
<1> SUFFICES ASSUME messages \in Seq(Text)
             PROVE  /\ \A a \in DOMAIN messages : HoldsMatch(messages, a, Expand(messages, a))
                    /\ Matches(messages) # {} =>
                         HoldsMatch(messages, Best(messages), ExpandBest(messages))
  BY DEF SpanHoldsMatch
<1>1. \A a \in DOMAIN messages : HoldsMatch(messages, a, Expand(messages, a))
  BY ExpandHolds
<1>2. ASSUME Matches(messages) # {}
      PROVE  HoldsMatch(messages, Best(messages), ExpandBest(messages))
  <2>1. ExpandBest(messages) = Expand(messages, Best(messages))
    BY <1>2 DEF ExpandBest
  <2> QED BY <1>1, <1>2, <2>1, BestIs
<1> QED BY <1>1, <1>2

-----------------------------------------------------------------------------
(* AssistantTurn: sources *)

\* One passage after another, each label once.
AddSource(r, p) == IF \E q \in ToSet(r) : SameLabel(p, q) THEN r ELSE Append(r, p)

\* What the sources of the first k passages are.
Names(given, k, r) ==
  /\ r \in Seq(Passages)
  /\ \A i \in DOMAIN r : \E j \in 1..k : r[i] = given[j]
  /\ \A j \in 1..k : \E i \in DOMAIN r : SameLabel(given[j], r[i])
  /\ \A i, j \in DOMAIN r : i # j => ~SameLabel(r[i], r[j])

LEMMA SourcesAlong ==
  ASSUME NEW q \in Seq(Passages)
  PROVE  \E v \in [0..Len(q) -> Seq(Passages)] :
           /\ v[0] = <<>> /\ Sources(q) = v[Len(q)]
           /\ \A i \in 1..Len(q) : v[i] = AddSource(v[i - 1], q[i])
<1> DEFINE n == Len(q)
           g == [x \in Seq(Passages) \X Passages |-> AddSource(x[1], x[2])]
           c == CHOOSE c : c = [s \in SUBSET (1..n) |->
                  IF s = {} THEN <<>>
                  ELSE IF \E x \in ToSet(c[s \ {Max(s)}]) : SameLabel(q[Max(s)], x)
                  THEN c[s \ {Max(s)}] ELSE Append(c[s \ {Max(s)}], q[Max(s)])]
<1>1. n \in Nat /\ q \in [1..n -> Passages]
  OBVIOUS
<1>2. \A x \in Seq(Passages), y \in Passages : AddSource(x, y) \in Seq(Passages)
  BY DEF AddSource
<1>3. g \in [Seq(Passages) \X Passages -> Seq(Passages)] /\ <<>> \in Seq(Passages)
  BY <1>2
<1>4. \A x \in Seq(Passages), y \in Passages : g[<<x, y>>] = AddSource(x, y)
  OBVIOUS
<1>5. Sources(q) = c[1..n]
  BY <1>1 DEF Sources, FoldLeft, MapThenFoldSet
<1>6. c = CHOOSE d : d = [s \in SUBSET (1..n) |->
             IF s = {} THEN <<>> ELSE AddSource(d[s \ {Max(s)}], q[Max(s)])]
  BY DEF AddSource
<1> HIDE DEF g, n, c
<1>7. c = [s \in SUBSET (1..n) |->
             IF s = {} THEN <<>> ELSE AddSource(c[s \ {Max(s)}], q[Max(s)])]
  <2>1. PICK h, v : /\ FoldsTo(h, 1..n, <<>>, g, q)
                    /\ Typed(h, 1..n, Seq(Passages), Passages, q)
                    /\ Values(v, n, Seq(Passages), Passages, <<>>, g, q)
    BY <1>1, <1>3, FoldAlong
  <2>2. h = [s \in SUBSET (1..n) |->
             IF s = {} THEN <<>> ELSE AddSource(h[s \ {Max(s)}], q[Max(s)])]
    BY <1>4, <2>1 DEF FoldsTo, Typed
  <2> QED BY <1>6, <2>2
<1>8. FoldsLike(c, 1..n, Seq(Passages), Passages, <<>>, g, q)
  BY <1>4, <1>7 DEF FoldsLike
<1>9. PICK v : Values(v, n, Seq(Passages), Passages, <<>>, g, q) /\ Ends(v, n, c)
  BY <1>1, <1>3, <1>8, FoldRounds
<1>10. \A i \in 1..n : v[i] = AddSource(v[i - 1], q[i])
  BY <1>4, <1>9 DEF Values
<1> QED BY <1>5, <1>9, <1>10 DEF n, Values, Ends

LEMMA AddNames ==
  ASSUME NEW given \in Seq(Passages), NEW k \in 1..Len(given), NEW r, Names(given, k - 1, r)
  PROVE  Names(given, k, AddSource(r, given[k]))
<1>1. PICK p \in Passages : p = given[k]
  OBVIOUS
<1>2. PICK m \in Nat : m = Len(r) /\ DOMAIN r = 1..m
  <2>1. r \in Seq(Passages)
    BY DEF Names
  <2> QED BY <2>1
<1>3. \A j \in 1..k : j \in 1..(k - 1) \/ j = k
  OBVIOUS
<1>4. k \in 1..k /\ \A j \in 1..(k - 1) : j \in 1..k
  OBVIOUS
<1>5. CASE \E q \in ToSet(r) : SameLabel(p, q)
  <2>1. AddSource(r, p) = r
    BY <1>5 DEF AddSource
  <2>2. \E i \in DOMAIN r : SameLabel(p, r[i])
    BY <1>5 DEF ToSet
  <2> QED BY <1>1, <1>3, <1>4, <2>1, <2>2 DEF Names
<1>6. CASE ~\E q \in ToSet(r) : SameLabel(p, q)
  <2>1. PICK t : t = AddSource(r, p)
    OBVIOUS
  <2>2. t = Append(r, p)
    BY <1>6, <2>1 DEF AddSource
  <2>3. /\ t \in Seq(Passages) /\ DOMAIN t = 1..(m + 1) /\ t[m + 1] = p
        /\ \A i \in 1..m : t[i] = r[i]
    BY <1>2, <2>2 DEF Names
  <2>4. \A i \in 1..(m + 1) : i \in 1..m \/ i = m + 1
    BY <1>2
  <2>5. m + 1 \in 1..(m + 1) /\ \A i \in 1..m : i \in 1..(m + 1)
    BY <1>2
  <2>6. \A i \in DOMAIN t : \E j \in 1..k : t[i] = given[j]
    BY <1>1, <1>2, <1>4, <2>3, <2>4 DEF Names
  <2>7. \A j \in 1..k : \E i \in DOMAIN t : SameLabel(given[j], t[i])
    <3>1. SameLabel(given[k], t[m + 1])
      BY <1>1, <2>3 DEF SameLabel
    <3>2. \A j \in 1..(k - 1) : \E i \in 1..m : SameLabel(given[j], t[i])
      BY <1>2, <2>3 DEF Names
    <3> QED BY <1>3, <2>3, <2>5, <3>1, <3>2
  <2>8. \A i \in 1..m : ~SameLabel(p, r[i]) /\ ~SameLabel(r[i], p)
    BY <1>2, <1>6 DEF ToSet, SameLabel
  <2>9. \A i, j \in DOMAIN t : i # j => ~SameLabel(t[i], t[j])
    BY <1>2, <2>3, <2>4, <2>8 DEF Names
  <2> QED BY <1>1, <2>1, <2>3, <2>6, <2>7, <2>9 DEF Names
<1> QED BY <1>1, <1>5, <1>6

\* The sources are of the passages, name all of them, and none twice.
LEMMA SourcesAre ==
  ASSUME NEW given \in Seq(Passages)
  PROVE  LET r == Sources(given) IN
         /\ ToSet(r) \subseteq ToSet(given)
         /\ \A p \in ToSet(given) : \E q \in ToSet(r) : SameLabel(p, q)
         /\ \A i, j \in DOMAIN r : i # j => ~SameLabel(r[i], r[j])
<1>1. PICK v \in [0..Len(given) -> Seq(Passages)] :
        /\ v[0] = <<>> /\ Sources(given) = v[Len(given)]
        /\ \A i \in 1..Len(given) : v[i] = AddSource(v[i - 1], given[i])
  BY SourcesAlong
<1> DEFINE G == {k \in 0..Len(given) : Names(given, k, v[k])}
<1>2. Len(given) \in Nat /\ DOMAIN given = 1..Len(given)
  OBVIOUS
<1>3. 0 \in G
  <2>1. <<>> \in Seq(Passages) /\ DOMAIN <<>> = {} /\ 1..0 = {}
    OBVIOUS
  <2>2. Names(given, 0, <<>>)
    BY <2>1, Zenon DEF Names
  <2> QED BY <1>1, <1>2, <2>2
<1>4. \A k \in 1..Len(given) : k - 1 \in G => k \in G
  <2> SUFFICES ASSUME NEW k \in 1..Len(given), k - 1 \in G PROVE Names(given, k, v[k])
    BY <1>2
  <2>1. v[k] = AddSource(v[k - 1], given[k]) /\ Names(given, k - 1, v[k - 1])
    BY <1>1
  <2> QED BY <2>1, AddNames
<1>5. Len(given) \in G
  <2> HIDE DEF G
  <2>1. \A k \in 0..Len(given) : k \in G
    BY <1>2, <1>3, <1>4, NumbersAreGood
  <2> QED BY <1>2, <2>1
<1>6. PICK r : r = Sources(given) /\ Names(given, Len(given), r)
  BY <1>1, <1>5
<1> HIDE DEF G
<1>7. ToSet(r) \subseteq ToSet(given)
  <2>1. \A i \in DOMAIN r : \E j \in DOMAIN given : r[i] = given[j]
    BY <1>2, <1>6 DEF Names
  <2> QED BY <2>1, Zenon DEF ToSet
<1>8. \A p \in ToSet(given) : \E q \in ToSet(r) : SameLabel(p, q)
  BY <1>2, <1>6 DEF Names, ToSet
<1>9. \A i, j \in DOMAIN r : i # j => ~SameLabel(r[i], r[j])
  BY <1>6 DEF Names
<1> QED BY <1>6, <1>7, <1>8, <1>9

-----------------------------------------------------------------------------
(* AssistantTurn: the transcript of a turn *)

\* The calls of each answer have their results, in order, as far as there are entries.
InOrder(t) ==
  \A i \in DOMAIN t : \A k \in 1..t[i].asked : i + k \in DOMAIN t => t[i + k].answered = k

\* All calls of the answers up to entry n have their result.
Complete(t, n) == \A i \in 1..n : i + t[i].asked <= Len(t)

\* The entry at a is the last answer of the model, and what is left are the rest of its calls.
Pending(t, left, a) ==
  /\ a \in DOMAIN t /\ t[a].asked > 0 /\ a + t[a].asked = Len(t) + left
  /\ \A i \in DOMAIN t : i > a => t[i].asked = 0
  /\ Complete(t, a - 1)

\* What the tools found.
GivenIn(t) == UNION {ToSet(t[i].passages) : i \in DOMAIN t}

TranscriptOK(r) ==
  /\ InOrder(r.transcript)
  /\ r.stage = "asking" => Complete(r.transcript, Len(r.transcript))
  /\ r.stage = "calling" => \E a \in DOMAIN r.transcript : Pending(r.transcript, Len(r.calls), a)
  /\ ToSet(r.bag) = GivenIn(r.transcript)

\* A turn is followed on a thread that has room for it.
TurnIInv == TurnTypes /\ (Busy => Len(messages) <= MaxBefore /\ TranscriptOK(turn))

LEMMA EntryIs ==
  ASSUME NEW t \in Seq(Entry), NEW i \in DOMAIN t
  PROVE  t[i].asked \in Nat /\ t[i].asked <= MaxCalls /\ t[i].passages \in Seq(Passages)
<1>1. t[i] \in Entry
  OBVIOUS
<1>2. t[i].asked \in 0..MaxCalls /\ t[i].passages \in Seq(Passages)
  BY <1>1 DEF Entry
<1> QED BY <1>2, Bounds

LEMMA Longer ==
  ASSUME NEW t \in Seq(Entry), NEW e \in Entry
  PROVE  /\ Append(t, e) \in Seq(Entry) /\ Len(Append(t, e)) = Len(t) + 1 /\ Len(t) \in Nat
         /\ DOMAIN t = 1..Len(t) /\ DOMAIN Append(t, e) = 1..(Len(t) + 1)
         /\ Append(t, e)[Len(t) + 1] = e
         /\ \A i \in 1..Len(t) : Append(t, e)[i] = t[i]
         /\ \A i \in 1..(Len(t) + 1) : i \in 1..Len(t) \/ i = Len(t) + 1
OBVIOUS

LEMMA GivenAppended ==
  ASSUME NEW t \in Seq(Entry), NEW e \in Entry
  PROVE  GivenIn(Append(t, e)) = GivenIn(t) \union ToSet(e.passages)
<1>0. PICK u : u = Append(t, e)
  OBVIOUS
<1>1. PICK n \in Nat : u = Append(t, e) /\ n = Len(t)
  BY <1>0
<1>2. /\ DOMAIN t = 1..n /\ DOMAIN u = 1..(n + 1) /\ u[n + 1] = e
      /\ \A i \in 1..n : u[i] = t[i]
      /\ \A i \in 1..(n + 1) : i \in 1..n \/ i = n + 1
  BY <1>1, Longer
<1>3. n + 1 \in 1..(n + 1) /\ \A i \in 1..n : i \in 1..(n + 1)
  OBVIOUS
<1>4. GivenIn(u) \subseteq GivenIn(t) \union ToSet(e.passages)
  BY <1>2 DEF GivenIn
<1>5. GivenIn(t) \subseteq GivenIn(u) /\ ToSet(e.passages) \subseteq GivenIn(u)
  BY <1>2, <1>3 DEF GivenIn
<1> QED BY <1>1, <1>4, <1>5

LEMMA Joined ==
  ASSUME NEW q \in Seq(Passages), NEW r \in Seq(Passages)
  PROVE  q \o r \in Seq(Passages) /\ ToSet(q \o r) = ToSet(q) \union ToSet(r)
<1>1. PICK m, n \in Nat : m = Len(q) /\ n = Len(r)
  OBVIOUS
<1>2. PICK u : u = q \o r
  OBVIOUS
<1>3. /\ u \in Seq(Passages) /\ DOMAIN u = 1..(m + n) /\ DOMAIN q = 1..m /\ DOMAIN r = 1..n
      /\ \A i \in 1..m : u[i] = q[i]
      /\ \A i \in 1..n : u[m + i] = r[i]
  BY <1>1, <1>2
<1>4. \A i \in 1..(m + n) : i \in 1..m \/ \E j \in 1..n : i = m + j
  <2> SUFFICES ASSUME NEW i \in 1..(m + n), i \notin 1..m PROVE \E j \in 1..n : i = m + j
    OBVIOUS
  <2>1. i - m \in 1..n /\ i = m + (i - m)
    OBVIOUS
  <2> QED BY <2>1
<1>5. (\A i \in 1..m : i \in 1..(m + n)) /\ \A j \in 1..n : m + j \in 1..(m + n)
  OBVIOUS
<1>6. ToSet(u) \subseteq ToSet(q) \union ToSet(r)
  <2> SUFFICES ASSUME NEW i \in 1..(m + n) PROVE u[i] \in ToSet(q) \union ToSet(r)
    BY <1>3 DEF ToSet
  <2>1. CASE i \in 1..m
    BY <1>3, <2>1 DEF ToSet
  <2>2. CASE i \notin 1..m
    <3>1. PICK j \in 1..n : i = m + j
      BY <1>4, <2>2
    <3> QED BY <1>3, <3>1 DEF ToSet
  <2> QED BY <2>1, <2>2
<1>7. ToSet(q) \union ToSet(r) \subseteq ToSet(u)
  BY <1>3, <1>5 DEF ToSet
<1> QED BY <1>2, <1>3, <1>6, <1>7

\* A new answer of the model, with its calls.
LEMMA AskedKeeps ==
  ASSUME NEW t \in Seq(Entry), InOrder(t), Complete(t, Len(t)), NEW n \in 1..MaxCalls
  PROVE  /\ Asked(n) \in Entry
         /\ InOrder(Append(t, Asked(n))) /\ GivenIn(Append(t, Asked(n))) = GivenIn(t)
         /\ Len(t) + 1 \in DOMAIN Append(t, Asked(n))
         /\ Pending(Append(t, Asked(n)), n, Len(t) + 1)
<1>1. PICK e : e = Asked(n)
  OBVIOUS
<1>2. e \in Entry /\ e.asked = n /\ e.answered = 0 /\ e.passages = <<>>
  BY <1>1, Bounds DEF Asked, Entry
<1>0. PICK u : u = Append(t, e)
  OBVIOUS
<1>3. PICK m \in Nat : u = Append(t, e) /\ m = Len(t)
  BY <1>0
<1>4. /\ u \in Seq(Entry) /\ Len(u) = m + 1 /\ DOMAIN t = 1..m /\ DOMAIN u = 1..(m + 1)
      /\ u[m + 1] = e /\ \A i \in 1..m : u[i] = t[i]
      /\ \A i \in 1..(m + 1) : i \in 1..m \/ i = m + 1
  BY <1>2, <1>3, Longer
<1>5. \A i \in 1..m : t[i].asked \in Nat /\ i + t[i].asked <= m
  BY <1>3, <1>4, EntryIs DEF Complete
<1>6. InOrder(u)
  <2> SUFFICES ASSUME NEW i \in 1..(m + 1), NEW k \in 1..u[i].asked, i + k \in 1..(m + 1)
               PROVE  u[i + k].answered = k
    BY <1>4 DEF InOrder
  <2>1. u[i].asked \in Nat
    BY <1>4, EntryIs
  <2>2. i \in 1..m
    BY <1>4, <2>1
  <2>3. u[i] = t[i] /\ i + k \in 1..m
    BY <1>4, <1>5, <2>1, <2>2
  <2> QED BY <1>4, <2>2, <2>3 DEF InOrder
<1>7. GivenIn(u) = GivenIn(t)
  <2>1. ToSet(e.passages) = {}
    BY <1>2 DEF ToSet
  <2> QED BY <1>2, <1>3, <2>1, GivenAppended
<1>8. Pending(u, n, m + 1)
  <2>1. m + 1 \in DOMAIN u /\ u[m + 1].asked = n /\ n > 0 /\ (m + 1) + n = Len(u) + n
    BY <1>2, <1>4
  <2>2. \A i \in DOMAIN u : ~(i > m + 1)
    BY <1>4
  <2>3. Complete(u, (m + 1) - 1)
    <3>1. (m + 1) - 1 = m
      OBVIOUS
    <3>2. \A i \in 1..m : i + u[i].asked <= m + 1
      BY <1>4, <1>5
    <3> QED BY <1>4, <3>1, <3>2 DEF Complete
  <2> QED BY <2>1, <2>2, <2>3 DEF Pending
<1> QED BY <1>1, <1>2, <1>3, <1>4, <1>6, <1>7, <1>8

\* The last answer of the model.
LEMMA TurnedIs ==
  ASSUME NEW t \in Seq(Entry), NEW left, NEW a \in DOMAIN t, Pending(t, left, a)
  PROVE  Max({i \in DOMAIN t : t[i].asked > 0}) = a
<1> DEFINE S == {i \in DOMAIN t : t[i].asked > 0}
<1>1. a \in S /\ Len(t) \in Nat /\ DOMAIN t = 1..Len(t)
  BY DEF Pending
<1>2. \A i \in S : i <= a
  <2> SUFFICES ASSUME NEW i \in S, i > a PROVE FALSE
    BY <1>1
  <2>1. t[i].asked = 0
    BY DEF Pending
  <2> QED BY <2>1
<1>3. Max(S) \in S /\ \A i \in S : i <= Max(S)
  <2>1. S \in SUBSET (0..Len(t)) /\ S # {}
    BY <1>1
  <2> HIDE DEF S
  <2> QED BY <1>1, <2>1, MaxIs
<1>4. Max(S) \in Nat /\ a \in Nat
  BY <1>1, <1>3
<1> HIDE DEF S
<1>5. Max(S) = a
  BY <1>1, <1>2, <1>3, <1>4
<1> QED BY <1>5 DEF S

\* A transcript with the result of the next call of the answer at a.
WithResult(t, a, found) == Append(t, Result(Len(t) - a + 1, found))

LEMMA ResultKeeps ==
  ASSUME NEW t \in Seq(Entry), InOrder(t), NEW left \in Nat, left > 0, NEW a \in DOMAIN t,
         Pending(t, left, a), NEW found \in Seq(Passages)
  PROVE  /\ WithResult(t, a, found) \in Seq(Entry) /\ InOrder(WithResult(t, a, found))
         /\ GivenIn(WithResult(t, a, found)) = GivenIn(t) \union ToSet(found)
         /\ a \in DOMAIN WithResult(t, a, found) /\ Pending(WithResult(t, a, found), left - 1, a)
<1>0. PICK u : u = WithResult(t, a, found)
  OBVIOUS
<1>1. PICK m, b, n \in Nat : m = Len(t) /\ b = t[a].asked /\ n = a
  BY EntryIs
<1>2. b <= MaxCalls /\ 0 < b /\ n + b = m + left /\ n \in 1..m
  BY <1>1, EntryIs DEF Pending
<1>3. PICK e : e = Result(m - n + 1, found)
  OBVIOUS
<1>4. e \in Entry /\ e.asked = 0 /\ e.answered = m - n + 1 /\ e.passages = found
  BY <1>2, <1>3, Bounds DEF Result, Entry
<1>5. /\ u \in Seq(Entry) /\ Len(u) = m + 1 /\ DOMAIN t = 1..m /\ DOMAIN u = 1..(m + 1)
      /\ u[m + 1] = e /\ \A i \in 1..m : u[i] = t[i]
      /\ \A i \in 1..(m + 1) : i \in 1..m \/ i = m + 1
  <2>1. u = Append(t, e) /\ t \in Seq(Entry)
    BY <1>0, <1>1, <1>3 DEF WithResult
  <2> QED BY <1>1, <1>4, <2>1, Longer
<1>6. InOrder(u)
  <2> SUFFICES ASSUME NEW i \in 1..(m + 1), NEW d, d = u[i].asked, NEW k \in 1..d,
                      i + k \in 1..(m + 1)
               PROVE  u[i + k].answered = k
    BY <1>5 DEF InOrder
  <2>1. u[i].asked \in Nat
    BY <1>5, EntryIs
  <2>2. i \in 1..m /\ u[i] = t[i]
    BY <1>4, <1>5, <2>1
  <2>5. PICK c \in Nat : c = d /\ c = t[i].asked /\ 1 <= k /\ k <= c /\ k \in Nat
    BY <2>1, <2>2
  <2>3. CASE i + k \in 1..m
    BY <1>5, <2>2, <2>3 DEF InOrder
  <2>4. CASE i + k = m + 1
    <3>1. i = n
      <4>1. CASE i < n
        <5>1. i + t[i].asked <= m
          BY <1>1, <2>2, <4>1 DEF Pending, Complete
        <5>2. i + c <= m
          BY <2>5, <5>1
        <5> QED BY <2>2, <2>4, <2>5, <5>2
      <4>2. CASE i > n
        <5>1. t[i].asked = 0
          BY <1>1, <1>5, <2>2, <4>2 DEF Pending
        <5>2. c = 0
          BY <2>5, <5>1
        <5>3. 1 <= c
          BY <2>5
        <5> QED BY <5>2, <5>3
      <4> QED BY <4>1, <4>2
    <3>2. u[i + k] = e
      BY <1>5, <2>4
    <3>3. m - n + 1 = k
      BY <2>4, <2>5, <3>1
    <3> QED BY <1>4, <3>2, <3>3
  <2> QED BY <1>5, <2>3, <2>4
<1>7. GivenIn(u) = GivenIn(t) \union ToSet(found)
  <2>1. u = Append(t, e)
    BY <1>0, <1>1, <1>3 DEF WithResult
  <2> QED BY <1>4, <2>1, GivenAppended
<1>8. Pending(u, left - 1, a)
  <2>1. a \in DOMAIN u /\ u[a].asked > 0 /\ a + u[a].asked = Len(u) + (left - 1)
    BY <1>1, <1>2, <1>5
  <2>2. \A i \in DOMAIN u : i > a => u[i].asked = 0
    BY <1>1, <1>4, <1>5 DEF Pending
  <2>3. Complete(u, a - 1)
    <3> SUFFICES ASSUME NEW i \in 1..(a - 1) PROVE i + u[i].asked <= m + 1
      BY <1>5 DEF Complete
    <3>1. i \in 1..m /\ u[i] = t[i] /\ t[i].asked \in Nat
      BY <1>1, <1>2, <1>5, EntryIs, SMTT(30)
    <3>2. i + t[i].asked <= m
      BY <1>1 DEF Pending, Complete
    <3> QED BY <3>1, <3>2
  <2> QED BY <2>1, <2>2, <2>3 DEF Pending
<1> QED BY <1>0, <1>5, <1>6, <1>7, <1>8 DEF Pending

\* When no call is left, all are answered.
LEMMA NoneLeft ==
  ASSUME NEW t \in Seq(Entry), NEW a \in DOMAIN t, Pending(t, 0, a)
  PROVE  Complete(t, Len(t))
<1> SUFFICES ASSUME NEW i \in 1..Len(t) PROVE i + t[i].asked <= Len(t)
  BY DEF Complete
<1>1. Len(t) \in Nat /\ DOMAIN t = 1..Len(t) /\ t[i].asked \in Nat /\ a + t[a].asked = Len(t)
  BY EntryIs DEF Pending
<1>2. CASE i < a
  BY <1>1, <1>2 DEF Pending, Complete
<1>3. CASE i > a
  <2>1. t[i].asked = 0
    BY <1>1, <1>3 DEF Pending
  <2> QED BY <1>1, <2>1
<1> QED BY <1>1, <1>2, <1>3

LEMMA FoundIn ==
  ASSUME NEW call, NEW outcome, NEW found \in Found(call, outcome)
  PROVE  found \in Seq(Passages)
<1>1. CASE found = <<>>
  BY <1>1
<1>2. CASE found # <<>>
  <2>1. PICK S \in SUBSET Passages : found = SetToSeq(S)
    BY <1>2 DEF Found
  <2>2. IsFiniteSet(S)
    BY SomePassages, FS_Subset
  <2>3. Cardinality(S) \in Nat /\ \E f \in [1..Cardinality(S) -> S] : IsInjective(f)
    BY <2>2, FS_CardinalityType DEF ExistsBijection, Bijection, Injection
  <2>4. found \in [1..Cardinality(S) -> S]
    BY <2>1, <2>3 DEF SetToSeq
  <2> QED BY <2>3, <2>4
<1> QED BY <1>1, <1>2

-----------------------------------------------------------------------------
(* AssistantTurn: the invariant *)

\* What the columns of a turn are.
LEMMA TurnIs ==
  ASSUME NEW r \in Turn
  PROVE  /\ r.stage \in Stages /\ r.question \in Text /\ r.rounds \in 0..MaxToolRounds
         /\ r.calls \in Seq(Calls) /\ r.transcript \in Seq(Entry) /\ r.bag \in Seq(Passages)
         /\ r.broken \in BOOLEAN /\ r.status \in {"ok", "failed", "awaiting_configuration"}
BY DEF Turn

LEMMA TurnInitOK == TurnInit => TurnIInv
<1> SUFFICES ASSUME TurnInit PROVE TurnIInv
  OBVIOUS
<1>1. messages \in Seq(Text) /\ Len(messages) = 0
  BY DEF TurnInit
<1>2. MaxThread \in Nat /\ turn = NoTurn
  BY Bounds DEF TurnInit
<1> QED BY <1>1, <1>2 DEF TurnIInv, TurnTypes, Busy

LEMMA WriteKeeps == TurnIInv /\ Write => TurnIInv'
<1> SUFFICES ASSUME TurnIInv, Write PROVE TurnIInv'
  OBVIOUS
<1>1. PICK m \in Text : messages' = Append(messages, m)
  BY DEF Write
<1>2. /\ messages \in Seq(Text) /\ Len(messages) \in Nat /\ Len(messages) < MaxThread
      /\ MaxThread \in Nat /\ turn = NoTurn /\ turn' = NoTurn
  BY Bounds DEF TurnIInv, TurnTypes, Write, Busy
<1>3. messages' \in Seq(Text) /\ Len(messages') <= MaxThread + 2
  BY <1>1, <1>2
<1> QED BY <1>2, <1>3 DEF TurnIInv, TurnTypes, Busy

LEMMA BeginKeeps == ASSUME NEW q \in Text PROVE TurnIInv /\ Begin(q) => TurnIInv'
<1> SUFFICES ASSUME TurnIInv, Begin(q) PROVE TurnIInv'
  OBVIOUS
<1>1. /\ Len(messages) <= MaxBefore /\ messages' = messages
      /\ messages \in Seq(Text) /\ Len(messages) <= MaxThread + 2
  BY DEF TurnIInv, TurnTypes, Begin
<1>2. turn' = [stage |-> "asking", question |-> q, rounds |-> 0, calls |-> <<>>,
               transcript |-> <<>>, bag |-> <<>>, broken |-> FALSE, status |-> "failed"]
  BY DEF Begin
<1>3. turn' \in Turn
  BY <1>2, Bounds DEF Turn, Stages
<1>4. TranscriptOK(turn')
  <2>1. turn'.transcript = <<>> /\ turn'.bag = <<>> /\ turn'.stage = "asking"
    BY <1>2
  <2>2. InOrder(<<>>) /\ Complete(<<>>, Len(<<>>)) /\ ToSet(<<>>) = GivenIn(<<>>)
    BY DEF InOrder, Complete, ToSet, GivenIn
  <2> QED BY <2>1, <2>2 DEF TranscriptOK
<1> QED BY <1>1, <1>3, <1>4 DEF TurnIInv, TurnTypes, Busy

\* A step of a turn changes no message.
LEMMA TurnMoves ==
  ASSUME TurnIInv, Busy, UNCHANGED messages, turn' \in Turn, TranscriptOK(turn')
  PROVE  TurnIInv' /\ Busy'
BY NotATurn DEF TurnIInv, TurnTypes, Busy

LEMMA AskKeeps == TurnIInv /\ AskForTools => TurnIInv' /\ Busy'
<1> SUFFICES ASSUME TurnIInv, AskForTools PROVE TurnIInv' /\ Busy'
  OBVIOUS
<1>1. /\ turn \in Turn /\ Busy /\ TranscriptOK(turn) /\ UNCHANGED messages
      /\ turn.stage = "asking" /\ turn.rounds < MaxToolRounds
  BY DEF TurnIInv, TurnTypes, AskForTools, InStage, Busy
<1>2. PICK n \in 1..MaxCalls : \E calls \in [1..n -> Calls] :
        turn' = [turn EXCEPT !.stage = "calling", !.rounds = @ + 1, !.calls = calls,
                             !.transcript = Append(@, Asked(n))]
  BY DEF AskForTools
<1>11. PICK calls \in [1..n -> Calls] :
         turn' = [turn EXCEPT !.stage = "calling", !.rounds = @ + 1, !.calls = calls,
                              !.transcript = Append(@, Asked(n))]
  BY <1>2
<1>3. PICK t \in Seq(Entry) : t = turn.transcript
  BY <1>1, TurnIs
<1>4. InOrder(t) /\ Complete(t, Len(t)) /\ ToSet(turn.bag) = GivenIn(t)
  BY <1>1, <1>3 DEF TranscriptOK
<1>0. Asked(n) \in Entry
  BY <1>4, AskedKeeps
<1>5. PICK u \in Seq(Entry) : u = Append(t, Asked(n))
  BY <1>0, Longer
<1>6. /\ InOrder(u) /\ GivenIn(u) = GivenIn(t)
      /\ Len(t) + 1 \in DOMAIN u /\ Pending(u, n, Len(t) + 1)
  BY <1>4, <1>5, AskedKeeps
<1>7. calls \in Seq(Calls) /\ Len(calls) = n /\ n \in Nat
  OBVIOUS
<1>8. turn.rounds + 1 \in 0..MaxToolRounds
  BY <1>1, TurnIs, Bounds
<1>9. /\ turn' \in Turn /\ turn'.stage = "calling" /\ turn'.calls = calls
      /\ turn'.transcript = u /\ turn'.bag = turn.bag
  BY <1>1, <1>11, <1>3, <1>5, <1>7, <1>8 DEF Turn, Stages
<1>10. TranscriptOK(turn')
  BY <1>4, <1>6, <1>7, <1>9 DEF TranscriptOK
<1> QED BY <1>1, <1>9, <1>10, TurnMoves

LEMMA CallKeeps == TurnIInv /\ RunCall => TurnIInv' /\ Busy'
<1> SUFFICES ASSUME TurnIInv, RunCall PROVE TurnIInv' /\ Busy'
  OBVIOUS
<1>1. /\ turn \in Turn /\ Busy /\ TranscriptOK(turn) /\ UNCHANGED messages
      /\ turn.stage = "calling" /\ turn.calls # <<>>
  BY DEF TurnIInv, TurnTypes, RunCall, InStage, Busy
<1>2. PICK outcome \in Outcomes(Head(turn.calls)) :
        \E found \in Found(Head(turn.calls), outcome),
           broken \in {turn.broken, outcome = "tool_failed"} :
          turn' = [turn EXCEPT
            !.calls = Tail(@), !.bag = @ \o found, !.broken = turn.broken \/ broken,
            !.transcript = Append(@, Result(Len(@) - Turned + 1, found))]
  BY DEF RunCall
<1>3. PICK found \in Found(Head(turn.calls), outcome),
           broken \in {turn.broken, outcome = "tool_failed"} :
        turn' = [turn EXCEPT
          !.calls = Tail(@), !.bag = @ \o found, !.broken = turn.broken \/ broken,
          !.transcript = Append(@, Result(Len(@) - Turned + 1, found))]
  BY <1>2
<1>4. found \in Seq(Passages) /\ turn.broken \in BOOLEAN /\ broken \in BOOLEAN
  BY <1>1, FoundIn, TurnIs
<1>5. PICK t \in Seq(Entry) : t = turn.transcript
  BY <1>1, TurnIs
<1>6. PICK calls \in Seq(Calls) : calls = turn.calls /\ calls # <<>>
  BY <1>1, TurnIs
<1>7. /\ Tail(calls) \in Seq(Calls) /\ Len(Tail(calls)) = Len(calls) - 1
      /\ Len(calls) > 0 /\ Len(calls) \in Nat
  BY <1>6
<1>0. PICK rest \in Seq(Calls) : rest = Tail(calls) /\ Len(rest) = Len(calls) - 1
  BY <1>7
<1>8. PICK a \in DOMAIN t : Pending(t, Len(calls), a)
  BY <1>1, <1>5, <1>6 DEF TranscriptOK
<1>9. Turned = a
  BY <1>5, <1>8, TurnedIs DEF Turned
<1>10. PICK u : u = WithResult(t, a, found)
  OBVIOUS
<1>11. /\ u \in Seq(Entry) /\ InOrder(u) /\ GivenIn(u) = GivenIn(t) \union ToSet(found)
       /\ a \in DOMAIN u /\ Pending(u, Len(calls) - 1, a)
  <2>1. InOrder(t)
    BY <1>1, <1>5 DEF TranscriptOK
  <2>2. PICK left \in Nat : left = Len(calls) /\ left > 0
    BY <1>7
  <2>3. Pending(t, left, a)
    BY <1>8, <2>2
  <2>4. /\ u \in Seq(Entry) /\ InOrder(u) /\ GivenIn(u) = GivenIn(t) \union ToSet(found)
        /\ a \in DOMAIN u /\ Pending(u, left - 1, a)
    BY <1>4, <1>10, <2>1, <2>2, <2>3, ResultKeeps
  <2> QED BY <2>2, <2>4
<1>12. PICK bag \in Seq(Passages) : /\ bag = turn.bag \o found
                                    /\ ToSet(bag) = ToSet(turn.bag) \union ToSet(found)
  BY <1>1, <1>4, TurnIs, Joined
<1>13. PICK b \in BOOLEAN : b = (turn.broken \/ broken)
  OBVIOUS
<1>14. turn' = [turn EXCEPT !.calls = rest, !.bag = bag, !.broken = b, !.transcript = u]
  BY <1>0, <1>3, <1>5, <1>6, <1>9, <1>10, <1>12, <1>13 DEF WithResult
<1>15. /\ turn' \in Turn /\ turn'.stage = "calling" /\ turn'.calls = rest
       /\ turn'.transcript = u /\ turn'.bag = bag
  BY <1>1, <1>11, <1>14 DEF Turn
<1>16. ToSet(turn.bag) = GivenIn(t)
  BY <1>1, <1>5 DEF TranscriptOK
<1>17. ToSet(bag) = GivenIn(u)
  BY <1>11, <1>12, <1>16
<1>18. TranscriptOK(turn')
  BY <1>0, <1>11, <1>15, <1>17 DEF TranscriptOK
<1> QED BY <1>1, <1>15, <1>18, TurnMoves

\* A step that only changes the stage or the status.
LEMMA StageKeeps ==
  ASSUME NEW r \in Turn, TranscriptOK(r), NEW next \in {"asking", "replied"},
         NEW status \in {"ok", "failed", "awaiting_configuration"},
         NEW n, n = [r EXCEPT !.stage = next, !.status = status],
         next = "asking" => r.stage = "calling" /\ r.calls = <<>>
  PROVE  n \in Turn /\ TranscriptOK(n)
<1>1. /\ n \in Turn /\ n.stage = next /\ n.transcript = r.transcript /\ n.bag = r.bag
      /\ n.calls = r.calls
  BY DEF Turn, Stages
<1>2. ASSUME next = "asking" PROVE Complete(r.transcript, Len(r.transcript))
  <2>1. PICK a \in DOMAIN r.transcript : Pending(r.transcript, Len(r.calls), a)
    BY <1>2 DEF TranscriptOK
  <2>2. r.transcript \in Seq(Entry) /\ Len(r.calls) = 0
    BY <1>2, TurnIs
  <2> QED BY <2>1, <2>2, NoneLeft
<1> QED BY <1>1, <1>2 DEF TranscriptOK

LEMMA GoOnKeeps == TurnIInv /\ GoOn => TurnIInv' /\ Busy'
<1> SUFFICES ASSUME TurnIInv, GoOn PROVE TurnIInv' /\ Busy'
  OBVIOUS
<1>1. /\ turn \in Turn /\ Busy /\ TranscriptOK(turn) /\ UNCHANGED messages
      /\ turn.stage = "calling" /\ turn.calls = <<>>
  BY DEF TurnIInv, TurnTypes, GoOn, InStage, Busy
<1>2. PICK next \in {"asking", "replied"} : turn' = [turn EXCEPT !.stage = next]
  BY DEF GoOn
<1>3. turn' = [turn EXCEPT !.stage = next, !.status = turn.status]
  BY <1>1, <1>2 DEF Turn
<1>4. turn.status \in {"ok", "failed", "awaiting_configuration"}
  BY <1>1, TurnIs
<1>5. turn' \in Turn /\ TranscriptOK(turn')
  BY <1>1, <1>3, <1>4, StageKeeps
<1> QED BY <1>1, <1>5, TurnMoves

LEMMA ConcludeKeeps == TurnIInv /\ Conclude => TurnIInv' /\ Busy'
<1> SUFFICES ASSUME TurnIInv, Conclude PROVE TurnIInv' /\ Busy'
  OBVIOUS
<1>1. /\ turn \in Turn /\ Busy /\ TranscriptOK(turn) /\ UNCHANGED messages
  BY DEF TurnIInv, TurnTypes, Conclude, InStage, Busy
<1>2. PICK status \in {"ok", "failed", "awaiting_configuration"} :
        turn' = [turn EXCEPT !.stage = "replied", !.status = status]
  BY DEF Conclude
<1>3. turn' \in Turn /\ TranscriptOK(turn')
  BY <1>1, <1>2, StageKeeps
<1> QED BY <1>1, <1>3, TurnMoves

\* What a turn leaves in the thread.
LEMMA FinishWrites ==
  ASSUME TurnIInv, Finish
  PROVE  /\ messages' \in Seq(Text) /\ Len(messages') <= MaxThread + 2
<1>1. /\ turn \in Turn /\ messages \in Seq(Text) /\ Len(messages) <= MaxBefore
  BY DEF TurnIInv, TurnTypes, Finish, InStage, Busy
<1>2. /\ turn.question \in Text
      /\ Len(messages) \in Nat /\ Len(messages) <= MaxThread /\ MaxThread \in Nat
  BY <1>1, TurnIs, Bounds
<1>3. CASE turn.broken
  BY <1>1, <1>2, <1>3 DEF Finish
<1>4. CASE ~turn.broken /\ turn.status = "ok"
  <2>1. PICK reply \in Text : messages' = messages \o <<turn.question, reply>>
    BY <1>4 DEF Finish
  <2> QED BY <1>1, <1>2, <2>1
<1>5. CASE ~turn.broken /\ turn.status # "ok"
  <2>1. messages' = Append(messages, turn.question)
    BY <1>5 DEF Finish
  <2> QED BY <1>1, <1>2, <2>1
<1> QED BY <1>3, <1>4, <1>5

LEMMA FinishKeeps == TurnIInv /\ Finish => TurnIInv'
<1> SUFFICES ASSUME TurnIInv, Finish PROVE TurnIInv'
  OBVIOUS
<1>1. messages' \in Seq(Text) /\ Len(messages') <= MaxThread + 2 /\ turn' = NoTurn
  BY FinishWrites DEF Finish
<1> QED BY <1>1 DEF TurnIInv, TurnTypes, Busy

LEMMA TurnKept == TurnIInv /\ [TurnNext]_turnVars => TurnIInv'
<1> SUFFICES ASSUME TurnIInv, [TurnNext]_turnVars PROVE TurnIInv'
  OBVIOUS
<1>1. CASE Write
  BY <1>1, WriteKeeps
<1>2. CASE \E len \in Lengths : Begin([len |-> len, score |-> 0])
  <2>1. PICK len \in Lengths : Begin([len |-> len, score |-> 0])
    BY <1>2
  <2>2. [len |-> len, score |-> 0] \in Text
    BY Texts DEF Text
  <2> QED BY <2>1, <2>2, BeginKeeps
<1>3. CASE AskForTools
  BY <1>3, AskKeeps
<1>4. CASE RunCall
  BY <1>4, CallKeeps
<1>5. CASE GoOn
  BY <1>5, GoOnKeeps
<1>6. CASE Conclude
  BY <1>6, ConcludeKeeps
<1>7. CASE Finish
  BY <1>7, FinishKeeps
<1>8. CASE UNCHANGED turnVars
  BY <1>8 DEF TurnIInv, TurnTypes, Busy, turnVars
<1> QED BY <1>1, <1>2, <1>3, <1>4, <1>5, <1>6, <1>7, <1>8 DEF TurnNext

\* A turn keeps its transcript in order, and in the bag exactly what its tools found.
THEOREM TurnHolds == TurnSpec => []TurnIInv
<1> QED BY TurnInitOK, TurnKept, PTL DEF TurnSpec

LEMMA AnsweredCalls == TurnIInv => EveryCallIsAnswered
<1> SUFFICES ASSUME TurnIInv, InStage("asking"), NEW i \in DOMAIN turn.transcript,
                    NEW k \in 1..turn.transcript[i].asked
             PROVE  i + k \in DOMAIN turn.transcript /\ turn.transcript[i + k].answered = k
  BY DEF EveryCallIsAnswered
<1>1. /\ turn \in Turn /\ TranscriptOK(turn) /\ turn.stage = "asking"
  BY DEF TurnIInv, TurnTypes, InStage, Busy
<1>2. PICK t \in Seq(Entry) : t = turn.transcript
  BY <1>1, TurnIs
<1>3. InOrder(t) /\ Complete(t, Len(t)) /\ t[i].asked \in Nat /\ i \in 1..Len(t) /\ Len(t) \in Nat
  BY <1>1, <1>2, EntryIs DEF TranscriptOK
<1>4. i + t[i].asked <= Len(t)
  BY <1>3 DEF Complete
<1>5. i + k \in 1..Len(t)
  BY <1>2, <1>3, <1>4
<1> QED BY <1>2, <1>3, <1>5 DEF InOrder

\* The prompt of a turn ends with the question in full and stays within its limits
\* (select_recent_turns), and whatever the model asked for has a result when it is asked
\* again (ReasoningAgent.run).
THEOREM TurnIsSound == TurnSpec => []TurnInv
<1>1. TurnIInv => TurnInv
  BY PromptHolds, AnsweredCalls DEF TurnIInv, TurnInv, TurnTypes
<1> QED BY <1>1, TurnHolds, PTL

\* The window of a thread around a message is within its limits, keeps the neighbours
\* that fit, and shows the message unless what is padded before it is over the budget
\* with it: then, and only then, the match is lost (expand_matching_span), for any
\* thread and any limits.
THEOREM SpansAreSound == TurnSpec => []SpanHoldsMatch
<1>1. TurnIInv => SpanHoldsMatch
  BY SpansHold DEF TurnIInv, TurnTypes
<1> QED BY <1>1, TurnHolds, PTL

LEMMA GroundedAnswers == TurnIInv => AnswerIsGrounded
<1> SUFFICES ASSUME TurnIInv, Busy PROVE SourcesNameAll
  BY DEF AnswerIsGrounded, InStage
<1>1. turn \in Turn /\ TranscriptOK(turn)
  BY DEF TurnIInv, TurnTypes, Busy
<1>2. turn.bag \in Seq(Passages) /\ ToSet(turn.bag) = Given
  BY <1>1, TurnIs DEF TranscriptOK, Given, GivenIn
<1>3. PICK r : r = Sources(turn.bag)
  OBVIOUS
<1>4. /\ ToSet(r) \subseteq Given
      /\ \A p \in Given : \E q \in ToSet(r) : SameLabel(p, q)
      /\ \A i, j \in DOMAIN r : i # j => ~SameLabel(r[i], r[j])
  BY <1>2, <1>3, SourcesAre
<1> QED BY <1>3, <1>4 DEF SourcesNameAll

\* What an answer rests on is named among its sources, once, and nothing else is
\* (_CitationBag.unique).
THEOREM AnswersAreGrounded == TurnSpec => []AnswerIsGrounded
<1> QED BY GroundedAnswers, TurnHolds, PTL

=============================================================================
