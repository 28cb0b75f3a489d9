---------------------------- MODULE Garage_proofs ----------------------------
(***************************************************************************)
(* The bikes of one owner for any number of bikes, readings and requests   *)
(* at the same time.  Nothing locks the row of the owner, so all that a    *)
(* request knows is what it has read; the invariant says how that relates  *)
(* to what has become of it.                                               *)
(*                                                                         *)
(* Then the age gate of the same owner, for every pair of ages and every   *)
(* calendar: the last born ones were old enough when they said so, and the *)
(* calendar only moves on.                                                 *)
(*                                                                         *)
(* And what is due on a bike and what is advised about it, for any         *)
(* intervals, any log, and any answer of the model.                        *)
(***************************************************************************)
EXTENDS Garage, AgeGate, Recommendations, FiniteInduction, TLAPS

\* What a request may hold while these bikes are owned and can be ridden.  A patch is
\* of one of them, and writes columns that its body names; "during" and "throughout"
\* enclose what can be ridden; a request falls back when what it had read was archived
\* at that moment.
Good(r, owned, rideable) ==
  r # Idle =>
    /\ r.kind = "patch" => /\ r.bike \in owned
                           /\ r.columns \subseteq r.named
    /\ r.kind \in {"resolve", "fall_back", "persist"} =>
         rideable \subseteq r.during /\ r.during \subseteq owned /\ r.throughout \subseteq rideable
    /\ r.kind = "fall_back" => r.read \notin r.throughout
    /\ r.kind = "persist" => /\ r.answer # Missing => r.answer \in r.during
                             /\ r.answer = Missing => r.throughout = {}

RequestsOK == \A s \in Slots : Good(request[s], Owned, Rideable)

IInv == TypeOK /\ OneOwner /\ RequestsOK

-----------------------------------------------------------------------------
LEMMA IInvInit == Init => IInv
<1> SUFFICES ASSUME Init PROVE IInv
  OBVIOUS
<1> USE DEF Init
<1>1. Owned = {} /\ SigningUp = {}
  <2>1. \A s \in Slots : request[s] # [kind |-> "sign_up"]
    BY NoRequest DEF Requests
  <2>2. QED BY <2>1 DEF Owned, SigningUp
<1>2. NotCreated \in Row
  BY DEF NotCreated, Row, Statuses
<1>3. TypeOK
  BY <1>1, <1>2 DEF TypeOK
<1>4. OneOwner
  BY <1>1 DEF OneOwner
<1>5. RequestsOK
  BY DEF RequestsOK, Good
<1>6. QED BY <1>3, <1>4, <1>5 DEF IInv

\* A step of one slot that leaves the bikes alone.
LEMMA SlotKeeps ==
  ASSUME IInv, NEW s \in Slots, NEW r \in Requests \union {Idle},
         request' = [request EXCEPT ![s] = r], Good(r, Owned, Rideable),
         UNCHANGED <<account, bikes, garage, confirmed>>, active' \in Owned \union {Missing},
         r = [kind |-> "sign_up"] => SigningUp = {} /\ account = "absent"
  PROVE  IInv'
<1>1. TypeOK'
  BY DEF IInv, TypeOK, Owned
<1>2. \A t \in Slots : request'[t] = IF t = s THEN r ELSE request[t]
  BY DEF IInv, TypeOK
<1>3. RequestsOK'
  BY <1>2 DEF IInv, RequestsOK, Rideable, Owned
<1>4. OneOwner'
  BY <1>2 DEF IInv, OneOwner, SigningUp, Owned
<1>5. QED BY <1>1, <1>3, <1>4 DEF IInv

Watches(r) == r # Idle /\ r.kind \in {"resolve", "fall_back", "persist"}

\* What a change of the bikes makes of the requests that watch them.
LEMMA NoticedGood ==
  ASSUME IInv, NEW rows \in [Bikes -> Row], NEW owned \in SUBSET Bikes, Owned \subseteq owned, NEW s \in Slots,
         NEW rideable, rideable = {b \in owned : rows[b].status # "archive"}
  PROVE  LET q == Noticed(rows, owned)[s] IN
         /\ q \in Requests \union {Idle}
         /\ q = Idle <=> request[s] = Idle
         /\ ~Watches(request[s]) => q = request[s]
         /\ Good(q, owned, rideable)
         /\ q = [kind |-> "sign_up"] => request[s] = q
<1> DEFINE r == request[s]
<1> DEFINE q == Noticed(rows, owned)[s]
<1>1. r \in Requests \union {Idle} /\ Good(r, Owned, Rideable)
  BY DEF IInv, TypeOK, RequestsOK
<1>2. CASE ~Watches(r)
  <2>1. q = r
    BY <1>2 DEF Noticed, Watches
  <2>2. Good(r, owned, rideable)
    BY <1>1, <1>2 DEF Good, Watches
  <2>3. QED BY <1>1, <1>2, <2>1, <2>2
<1>3. CASE Watches(r)
  <2> DEFINE D == r.during \union rideable
  <2> DEFINE T == r.throughout \intersect rideable
  <2>1. q = [r EXCEPT !.during = D, !.throughout = T]
    BY <1>3 DEF Noticed, Watches
  <2>2. r \in Requests /\ r.kind \in {"resolve", "fall_back", "persist"}
    BY <1>1, <1>3 DEF Watches
  <2>3. r.during \in SUBSET Bikes /\ r.throughout \in SUBSET Bikes
    BY <2>2 DEF Requests
  <2>4. rideable \subseteq Bikes
    OBVIOUS
  <2>5. D \in SUBSET Bikes /\ T \in SUBSET Bikes
    BY <2>3, <2>4
  <2> HIDE DEF q, r, D, T
  <2>6. /\ q \in Requests /\ q.kind = r.kind /\ q.during = D /\ q.throughout = T
        /\ r.kind = "fall_back" => q.read = r.read
        /\ r.kind = "persist" => q.answer = r.answer
    BY <2>1, <2>2, <2>5 DEF Requests
  <2>7. Good(q, owned, rideable)
    BY <1>1, <2>2, <2>6, NoRequest DEF Good, D, T
  <2>8. q # [kind |-> "sign_up"]
    BY <2>2, <2>6
  <2>9. QED BY <1>3, <2>2, <2>6, <2>7, <2>8, NoRequest DEF q, r
<1>4. QED BY <1>2, <1>3

-----------------------------------------------------------------------------
(* The owner *)

LEMMA SignInKeeps ==
  ASSUME IInv, NEW s \in Slots, SignIn(s) \/ SignUp(s) \/ Rollback(s)
  PROVE  IInv'
<1> DEFINE in == [kind |-> "sign_in"]
<1> DEFINE up == [kind |-> "sign_up"]
<1>1. in \in Requests /\ up \in Requests /\ in # up
  BY DEF Requests
<1>2. Good(in, Owned, Rideable) /\ Good(up, Owned, Rideable) /\ Good(Idle, Owned, Rideable)
  BY DEF Good
<1>3. up # Idle
  BY <1>1, NoRequest
<1>4. active \in Owned \union {Missing} /\ account \in {"absent", "stored"}
  BY DEF IInv, TypeOK
<1>5. CASE SignIn(s)
  BY <1>1, <1>2, <1>4, <1>5, SlotKeeps DEF SignIn
<1>6. CASE SignUp(s)
  <2>1. CASE account = "stored"
    BY <1>2, <1>3, <1>4, <1>6, <2>1, SlotKeeps DEF SignUp
  <2>2. CASE account # "stored"
    BY <1>1, <1>2, <1>4, <1>6, <2>2, SlotKeeps DEF SignUp
  <2>3. QED BY <2>1, <2>2
<1>7. CASE Rollback(s)
  BY <1>2, <1>3, <1>4, <1>7, SlotKeeps DEF Rollback
<1>8. QED BY <1>5, <1>6, <1>7

\* The one request that signs up goes on with a row.
LEMMA WelcomeKeeps ==
  ASSUME IInv, NEW s \in Slots, Welcome(s)
  PROVE  IInv'
<1>1. \A t \in Slots : request'[t] = IF t = s THEN Idle ELSE request[t]
  BY DEF Welcome, IInv, TypeOK
<1>2. SigningUp' = {}
  <2>1. [kind |-> "sign_up"] # Idle
    BY NoRequest DEF Requests
  <2>2. QED BY <1>1, <2>1 DEF Welcome, IInv, OneOwner, SigningUp
<1>3. TypeOK'
  BY DEF Welcome, IInv, TypeOK, Owned
<1>4. OneOwner'
  BY <1>2 DEF Welcome, OneOwner
<1>5. RequestsOK'
  BY <1>1 DEF Welcome, IInv, RequestsOK, Good, Rideable, Owned
<1>6. QED BY <1>3, <1>4, <1>5 DEF IInv

-----------------------------------------------------------------------------
(* The bikes *)

\* A row with some of its columns set is a row.
LEMMA RowOf ==
  ASSUME NEW row \in Row, NEW values \in Row, NEW C \in SUBSET Columns
  PROVE  [c \in Columns |-> IF c \in C THEN values[c] ELSE row[c]] \in Row
BY DEF Row, Columns

\* What a patch makes of a row differs from it in columns that the patch names.
LEMMA Patched ==
  ASSUME NEW row \in Row, NEW patch \in Patches, NEW after,
         after = [c \in Columns |-> IF c \in DOMAIN patch THEN patch[c] ELSE row[c]]
  PROVE  /\ after \in Row
         /\ DOMAIN patch \in SUBSET Columns
         /\ Written(row, after) \subseteq DOMAIN patch
<1>1. PICK C \in SUBSET Columns, values \in Row : patch = [c \in C |-> values[c]]
  BY DEF Patches
<1>2. DOMAIN patch = C
  BY <1>1
<1>3. after = [c \in Columns |-> IF c \in C THEN values[c] ELSE row[c]]
  BY <1>1, <1>2
<1>4. after \in Row
  BY <1>3, RowOf
<1>5. Written(row, after) \subseteq C
  BY <1>3 DEF Written
<1>6. QED BY <1>2, <1>4, <1>5

LEMMA BeginPatchKeeps ==
  ASSUME IInv, NEW s \in Slots, NEW b \in Bikes, NEW patch \in Patches, BeginPatch(s, b, patch)
  PROVE  IInv'
<1> DEFINE row == bikes[b]
<1> DEFINE after == [c \in Columns |-> IF c \in DOMAIN patch THEN patch[c] ELSE row[c]]
<1> DEFINE r == [kind |-> "patch", bike |-> b, named |-> DOMAIN patch,
                 columns |-> Written(row, after), after |-> after]
<1>1. row \in Row
  BY DEF IInv, TypeOK
<1>2. /\ after \in Row /\ DOMAIN patch \in SUBSET Columns
      /\ Written(row, after) \subseteq DOMAIN patch
  BY <1>1, Patched
<1>3. Written(row, after) \in SUBSET Columns
  BY DEF Written
<1>4. request' = [request EXCEPT ![s] = r] /\ UNCHANGED <<account, bikes, garage, active, confirmed>>
  BY DEF BeginPatch
<1> HIDE DEF row, after
<1>5. r \in Requests /\ r # [kind |-> "sign_up"]
  BY <1>2, <1>3 DEF Requests
<1>6. Good(r, Owned, Rideable)
  BY <1>2 DEF Good, BeginPatch
<1> HIDE DEF r
<1>7. active \in Owned \union {Missing}
  BY DEF IInv, TypeOK
<1>8. QED BY <1>4, <1>5, <1>6, <1>7, SlotKeeps

\* The columns of one patch are set; who watches the bikes takes notice.
LEMMA CommitPatchKeeps ==
  ASSUME IInv, NEW s \in Slots, CommitPatch(s)
  PROVE  IInv'
<1> DEFINE r == request[s]
<1> DEFINE row == [c \in Columns |-> IF c \in r.columns THEN r.after[c] ELSE bikes[r.bike][c]]
<1>1. r \in Requests /\ r # Idle /\ r.kind = "patch"
  BY DEF CommitPatch, IInv, TypeOK
<1>2. r.bike \in Owned /\ r.after \in Row /\ r.columns \in SUBSET Columns
  BY <1>1 DEF IInv, RequestsOK, Good, Requests
<1>3. bikes \in [Bikes -> Row] /\ Owned \in SUBSET Bikes
  BY DEF IInv, TypeOK, Owned
<1>4. /\ bikes' = [bikes EXCEPT ![r.bike] = row] /\ UNCHANGED <<account, garage, active>>
      /\ request' = [Noticed(bikes', Owned) EXCEPT ![s] = Idle]
      /\ confirmed' = [confirmed EXCEPT ![r.bike] =
           IF r.after.estimated \/ r.after.hours = Missing THEN @ ELSE @ \union {r.after.hours}]
  BY DEF CommitPatch
<1>5. row \in Row
  BY <1>2, <1>3, RowOf
<1> HIDE DEF row
<1>6. bikes' \in [Bikes -> Row] /\ \A b \in Bikes \ Owned : bikes'[b] = bikes[b]
  BY <1>2, <1>3, <1>4, <1>5
<1>7. Owned' = Owned /\ Rideable' = {b \in Owned : bikes'[b].status # "archive"}
  BY <1>4 DEF Owned, Rideable
<1>8. ASSUME NEW t \in Slots
      PROVE  /\ request'[t] = IF t = s THEN Idle ELSE Noticed(bikes', Owned)[t]
             /\ request'[t] \in Requests \union {Idle}
             /\ Good(request'[t], Owned, Rideable')
             /\ request'[t] = [kind |-> "sign_up"] => request[t] = request'[t]
  <2>1. /\ Noticed(bikes', Owned)[t] \in Requests \union {Idle}
        /\ Good(Noticed(bikes', Owned)[t], Owned, Rideable')
        /\ Noticed(bikes', Owned)[t] = [kind |-> "sign_up"] => request[t] = Noticed(bikes', Owned)[t]
    BY <1>3, <1>6, <1>7, NoticedGood
  <2>2. request'[t] = IF t = s THEN Idle ELSE Noticed(bikes', Owned)[t]
    BY <1>4 DEF Noticed
  <2>3. Good(Idle, Owned, Rideable') /\ Idle # [kind |-> "sign_up"]
    BY NoRequest DEF Good, Requests
  <2>4. QED BY <2>1, <2>2, <2>3
<1>9. TypeOK'
  <2>1. request' \in [Slots -> Requests \union {Idle}]
    BY <1>4, <1>8 DEF Noticed
  <2>2. confirmed' \in [Bikes -> SUBSET Readings]
    BY <1>2, <1>3, <1>4 DEF IInv, TypeOK, Row
  <2>3. QED BY <1>4, <1>6, <1>7, <2>1, <2>2 DEF IInv, TypeOK
<1>10. OneOwner'
  BY <1>4, <1>7, <1>8 DEF IInv, OneOwner, SigningUp
<1>11. RequestsOK'
  BY <1>7, <1>8 DEF RequestsOK
<1>12. QED BY <1>9, <1>10, <1>11 DEF IInv

\* A bike is added at the end of the list.
LEMMA CreateKeeps ==
  ASSUME IInv, NEW b \in Bikes, NEW hours \in Readings \union {Missing}, NEW guess \in BOOLEAN,
         NEW status \in Statuses, Create(b, hours, guess, status)
  PROVE  IInv'
<1> DEFINE row == [hours |-> hours, estimated |-> guess, status |-> status]
<1> DEFINE owned == Owned \union {b}
<1>1. /\ bikes \in [Bikes -> Row] /\ Owned \in SUBSET Bikes /\ owned \in SUBSET Bikes
      /\ garage \in Seq(Bikes)
  BY DEF IInv, TypeOK, Owned
<1>2. /\ b \notin Owned /\ bikes' = [bikes EXCEPT ![b] = row] /\ garage' = Append(garage, b)
      /\ hours = Missing => guess
      /\ confirmed' = [confirmed EXCEPT ![b] = IF guess THEN {} ELSE {hours}]
      /\ account' = "stored" /\ active' = active
  BY DEF Create
<1>3. row \in Row
  BY DEF Row
<1>4. bikes' \in [Bikes -> Row] /\ \A c \in Bikes \ {b} : bikes'[c] = bikes[c]
  BY <1>1, <1>2, <1>3
<1>5. /\ garage' \in Seq(Bikes) /\ Len(garage') = Len(garage) + 1 /\ garage'[Len(garage) + 1] = b
      /\ \A i \in 1..Len(garage) : garage'[i] = garage[i]
      /\ DOMAIN garage = 1..Len(garage) /\ DOMAIN garage' = 1..(Len(garage) + 1) /\ Len(garage) \in Nat
  BY <1>1, <1>2
<1>6. Owned' = owned /\ Rideable' = {c \in owned : bikes'[c].status # "archive"}
  BY <1>5 DEF Owned, Rideable
<1>7. ASSUME NEW t \in Slots
      PROVE  LET q == Noticed(bikes', owned)[t] IN
             /\ q \in Requests \union {Idle} /\ Good(q, owned, Rideable')
             /\ q = [kind |-> "sign_up"] => request[t] = q
  BY <1>1, <1>4, <1>6, NoticedGood
<1>8. \/ account = "stored" /\ request' = Noticed(bikes', owned)
      \/ \E s \in SigningUp : request' = [Noticed(bikes', owned) EXCEPT ![s] = Idle]
  BY DEF Create
<1>9. /\ DOMAIN request' = Slots
      /\ \A t \in Slots : request'[t] \in {Noticed(bikes', owned)[t], Idle}
      /\ request' = [t \in Slots |-> request'[t]]
  BY <1>8 DEF Noticed
<1>10. Good(Idle, owned, Rideable') /\ Idle # [kind |-> "sign_up"]
  BY NoRequest DEF Good, Requests
<1>11. SigningUp' = {}
  <2>1. CASE account = "stored" /\ request' = Noticed(bikes', owned)
    BY <1>7, <2>1 DEF SigningUp, IInv, OneOwner
  <2>2. ASSUME NEW s \in SigningUp, request' = [Noticed(bikes', owned) EXCEPT ![s] = Idle]
        PROVE  SigningUp' = {}
    <3>1. \A t \in Slots : request'[t] = [kind |-> "sign_up"] => t # s /\ t \in SigningUp
      BY <1>7, <1>10, <2>2 DEF Noticed, SigningUp
    <3>2. QED BY <3>1 DEF SigningUp, IInv, OneOwner
  <2>3. QED BY <1>8, <2>1, <2>2
<1>12. TypeOK'
  <2>1. request' \in [Slots -> Requests \union {Idle}]
    BY <1>7, <1>9
  <2>2. confirmed' \in [Bikes -> SUBSET Readings]
    BY <1>2 DEF IInv, TypeOK
  <2>3. \A i, j \in DOMAIN garage' : garage'[i] = garage'[j] => i = j
    <3>1. \A i \in 1..Len(garage) : garage[i] # b
      BY <1>2, <1>5 DEF Owned
    <3>2. QED BY <1>5, <3>1 DEF IInv, TypeOK
  <2>4. QED BY <1>2, <1>4, <1>5, <1>6, <2>1, <2>2, <2>3 DEF IInv, TypeOK
<1>13. OneOwner'
  BY <1>2, <1>11 DEF OneOwner
<1>14. RequestsOK'
  BY <1>6, <1>7, <1>9, <1>10 DEF RequestsOK
<1>15. QED BY <1>12, <1>13, <1>14 DEF IInv

-----------------------------------------------------------------------------
(* The active bike *)

LEMMA BeginWatchKeeps ==
  ASSUME IInv, NEW s \in Slots, (\E b \in Bikes : BeginSelect(s, b)) \/ BeginResolve(s)
  PROVE  IInv'
<1>1. /\ active \in Owned \union {Missing} /\ Owned \subseteq Bikes /\ Rideable \subseteq Bikes
      /\ Rideable \subseteq Owned
  BY DEF IInv, TypeOK, Owned, Rideable
<1>2. ASSUME NEW b \in Bikes, BeginSelect(s, b) PROVE IInv'
  <2> DEFINE r == [kind |-> "persist", read |-> active, answer |-> b,
                   during |-> Rideable, throughout |-> Rideable]
  <2>1. /\ request' = [request EXCEPT ![s] = r] /\ b \in Rideable
        /\ UNCHANGED <<account, bikes, garage, active, confirmed>>
    BY <1>2 DEF BeginSelect
  <2>2. r \in Requests /\ r # [kind |-> "sign_up"]
    BY <1>1 DEF Requests
  <2>3. Good(r, Owned, Rideable)
    BY <1>1, <2>1, NoReading DEF Good
  <2> HIDE DEF r
  <2>4. QED BY <1>1, <2>1, <2>2, <2>3, SlotKeeps
<1>3. CASE BeginResolve(s)
  <2> DEFINE r == [kind |-> "resolve", read |-> active, during |-> Rideable, throughout |-> Rideable]
  <2>1. /\ request' = [request EXCEPT ![s] = r]
        /\ UNCHANGED <<account, bikes, garage, active, confirmed>>
    BY <1>3 DEF BeginResolve
  <2>2. r \in Requests /\ r # [kind |-> "sign_up"]
    BY <1>1 DEF Requests
  <2>3. Good(r, Owned, Rideable)
    BY <1>1 DEF Good
  <2> HIDE DEF r
  <2>4. QED BY <1>1, <2>1, <2>2, <2>3, SlotKeeps
<1>4. QED BY <1>2, <1>3

\* A decision that fits what can be ridden now.
LEMMA DecidedGood ==
  ASSUME IInv, NEW r \in Requests, r.kind \in {"resolve", "fall_back"}, Good(r, Owned, Rideable),
         NEW b \in Bikes \union {Missing},
         b # Missing => b \in Rideable, b = Missing => r.throughout = {}
  PROVE  /\ Decided(r, b) \in Requests /\ Decided(r, b) # [kind |-> "sign_up"]
         /\ Good(Decided(r, b), Owned, Rideable)
<1>1. /\ r.read \in Bikes \union {Missing} /\ r.during \in SUBSET Bikes
      /\ r.throughout \in SUBSET Bikes
  BY DEF Requests
<1>2. r # Idle /\ Rideable \subseteq r.during /\ r.throughout \subseteq Rideable
  BY NoRequest DEF Good
<1>3. Decided(r, b) \in Requests /\ Decided(r, b) # [kind |-> "sign_up"]
  BY <1>1 DEF Decided, Requests
<1>4. Good(Decided(r, b), Owned, Rideable)
  BY <1>2 DEF Decided, Good
<1>5. QED BY <1>3, <1>4

LEMMA ReadSelectedKeeps ==
  ASSUME IInv, NEW s \in Slots, ReadSelected(s)
  PROVE  IInv'
<1> DEFINE r == request[s]
<1>1. r # Idle /\ r.kind = "resolve" /\ r \in Requests /\ Good(r, Owned, Rideable)
  BY DEF ReadSelected, IInv, TypeOK, RequestsOK
<1>2. active \in Owned \union {Missing} /\ Rideable \subseteq Bikes /\ Missing \notin Rideable
  BY NoReading DEF IInv, TypeOK, Owned, Rideable
<1>3. CASE r.read \in Rideable
  <2>1. /\ request' = [request EXCEPT ![s] = Decided(r, r.read)]
        /\ UNCHANGED <<account, bikes, garage, active, confirmed>>
    BY <1>3 DEF ReadSelected
  <2>2. /\ Decided(r, r.read) \in Requests /\ Decided(r, r.read) # [kind |-> "sign_up"]
        /\ Good(Decided(r, r.read), Owned, Rideable)
    BY <1>1, <1>2, <1>3, DecidedGood
  <2>3. QED BY <1>2, <2>1, <2>2, SlotKeeps
<1>4. CASE r.read \notin Rideable
  <2> DEFINE q == [r EXCEPT !.kind = "fall_back"]
  <2>1. /\ request' = [request EXCEPT ![s] = q]
        /\ UNCHANGED <<account, bikes, garage, active, confirmed>>
    BY <1>4 DEF ReadSelected
  <2> HIDE DEF r
  <2>2. /\ q \in Requests /\ q # [kind |-> "sign_up"] /\ q.kind = "fall_back" /\ q.read = r.read
        /\ q.during = r.during /\ q.throughout = r.throughout
    BY <1>1 DEF Requests
  <2>3. Good(q, Owned, Rideable)
    BY <1>1, <1>4, <2>2 DEF Good
  <2> HIDE DEF q
  <2>4. QED BY <1>2, <2>1, <2>2, <2>3, SlotKeeps DEF r
<1>5. QED BY <1>3, <1>4

\* When there is no other bike to ride, the one that was read is the only one that may
\* have been rideable throughout, and it was archived when it was looked at.
LEMMA ReadListKeeps ==
  ASSUME IInv, NEW s \in Slots, ReadList(s)
  PROVE  IInv'
<1> DEFINE r == request[s]
<1> DEFINE rest == {i \in DOMAIN garage : garage[i] \in Rideable /\ garage[i] # r.read}
<1>1. r # Idle /\ r.kind = "fall_back" /\ r \in Requests /\ Good(r, Owned, Rideable)
  BY DEF ReadList, IInv, TypeOK, RequestsOK
<1>2. active \in Owned \union {Missing} /\ Rideable \subseteq Bikes /\ Missing \notin Rideable
  BY NoReading DEF IInv, TypeOK, Owned, Rideable
<1>3. UNCHANGED <<account, bikes, garage, active, confirmed>>
  BY DEF ReadList
<1>4. CASE rest = {} /\ request' = [request EXCEPT ![s] = Decided(r, Missing)]
  <2>1. Rideable \subseteq {r.read}
    BY <1>4 DEF Rideable, Owned
  <2>2. r.throughout = {}
    BY <1>1, <2>1 DEF Good
  <2>3. /\ Decided(r, Missing) \in Requests /\ Decided(r, Missing) # [kind |-> "sign_up"]
        /\ Good(Decided(r, Missing), Owned, Rideable)
    BY <1>1, <2>2, DecidedGood
  <2>4. QED BY <1>2, <1>3, <1>4, <2>3, SlotKeeps
<1>5. ASSUME NEW i \in rest, request' = [request EXCEPT ![s] = Decided(r, garage[i])]
      PROVE  IInv'
  <2>1. garage[i] \in Rideable /\ garage[i] \in Bikes /\ garage[i] # Missing
    BY <1>2
  <2>2. /\ Decided(r, garage[i]) \in Requests /\ Decided(r, garage[i]) # [kind |-> "sign_up"]
        /\ Good(Decided(r, garage[i]), Owned, Rideable)
    BY <1>1, <2>1, DecidedGood
  <2>3. QED BY <1>2, <1>3, <1>5, <2>2, SlotKeeps
<1>6. QED BY <1>4, <1>5 DEF ReadList

LEMMA CommitActiveKeeps ==
  ASSUME IInv, NEW s \in Slots, CommitActive(s)
  PROVE  IInv'
<1> DEFINE r == request[s]
<1>1. r # Idle /\ r.kind = "persist" /\ Good(r, Owned, Rideable)
  BY DEF CommitActive, IInv, TypeOK, RequestsOK
<1>2. r.answer \in Owned \union {Missing} /\ active \in Owned \union {Missing}
  BY <1>1 DEF Good, IInv, TypeOK
<1>3. Idle # [kind |-> "sign_up"] /\ Good(Idle, Owned, Rideable)
  BY NoRequest DEF Requests, Good
<1>4. /\ request' = [request EXCEPT ![s] = Idle] /\ active' \in Owned \union {Missing}
      /\ UNCHANGED <<account, bikes, garage, confirmed>>
  BY <1>2 DEF CommitActive
<1>5. QED BY <1>3, <1>4, SlotKeeps

-----------------------------------------------------------------------------
LEMMA IInvKept ==
  ASSUME IInv, [Next]_vars
  PROVE  IInv'
<1>1. ASSUME NEW b \in Bikes, NEW hours \in Readings \union {Missing}, NEW e \in BOOLEAN,
             NEW t \in Statuses, Create(b, hours, e, t)
      PROVE  IInv'
  BY <1>1, CreateKeeps
<1>2. ASSUME NEW s \in Slots, SignIn(s) \/ SignUp(s) \/ Welcome(s) \/ Rollback(s) PROVE IInv'
  BY <1>2, SignInKeeps, WelcomeKeeps
<1>3. ASSUME NEW s \in Slots, NEW b \in Bikes, NEW patch \in Patches, BeginPatch(s, b, patch)
      PROVE  IInv'
  BY <1>3, BeginPatchKeeps
<1>4. ASSUME NEW s \in Slots, CommitPatch(s) PROVE IInv'
  BY <1>4, CommitPatchKeeps
<1>5. ASSUME NEW s \in Slots, (\E b \in Bikes : BeginSelect(s, b)) \/ BeginResolve(s) PROVE IInv'
  BY <1>5, BeginWatchKeeps
<1>6. ASSUME NEW s \in Slots, ReadSelected(s) \/ ReadList(s) \/ CommitActive(s) PROVE IInv'
  BY <1>6, ReadSelectedKeeps, ReadListKeeps, CommitActiveKeeps
<1>7. CASE UNCHANGED vars
  BY <1>7 DEF vars, IInv, TypeOK, OneOwner, RequestsOK, Good, SigningUp, Owned, Rideable
<1>8. QED BY <1>1, <1>2, <1>3, <1>4, <1>5, <1>6, <1>7 DEF Next

LEMMA IInvImplies == IInv => Inv
<1> SUFFICES ASSUME IInv PROVE AnswersAreRideable /\ NeverLeftWithout
  BY DEF IInv, Inv
<1>1. \A s \in Slots : Good(request[s], Owned, Rideable)
  BY DEF IInv, RequestsOK
<1>2. QED BY <1>1 DEF Good, AnswersAreRideable, NeverLeftWithout

\* What every request has read still tells the truth about some moment of it.
THEOREM GarageHolds == Spec => []IInv
<1>1. Init => IInv
  BY IInvInit
<1>2. IInv /\ [Next]_vars => IInv'
  BY IInvKept
<1>3. QED BY <1>1, <1>2, PTL DEF Spec

\* However many requests run at the same time, there is one owner, the bike they
\* answer with was rideable, and a rider with a rideable bike is not left without.
THEOREM AnswersHold == Spec => []Inv
<1>1. QED BY GarageHolds, IInvImplies, PTL

\* A patch has nothing to notice.
LEMMA PatchNoticesNothing ==
  ASSUME NEW rows, NEW owned, NEW s \in Slots, request[s] # Idle, request[s].kind = "patch"
  PROVE  Noticed(rows, owned)[s] = request[s] /\ s \notin SigningUp
<1>1. Noticed(rows, owned)[s] = request[s]
  BY DEF Noticed
<1>2. s \notin SigningUp
  BY DEF SigningUp
<1>3. QED BY <1>1, <1>2

\* The end of a patch leaves every column alone that its body does not name.
LEMMA OmittedStep ==
  ASSUME IInv, [Next]_vars, NEW s \in Slots, request[s] # Idle, request[s].kind = "patch",
         request'[s] = Idle, NEW b \in Bikes, NEW c \in Columns \ request[s].named
  PROVE  bikes'[b][c] = bikes[b][c]
<1>1. CASE bikes' = bikes
  BY <1>1
<1>2. ASSUME NEW bike \in Bikes, NEW hours \in Readings \union {Missing}, NEW e \in BOOLEAN,
             NEW t \in Statuses, Create(bike, hours, e, t)
      PROVE  FALSE
  <2>1. /\ Noticed(bikes', Owned \union {bike})[s] = request[s] /\ s \notin SigningUp
        /\ \/ request' = Noticed(bikes', Owned \union {bike})
           \/ \E other \in SigningUp :
                request' = [Noticed(bikes', Owned \union {bike}) EXCEPT ![other] = Idle]
    <3>1. Noticed(bikes', Owned \union {bike})[s] = request[s] /\ s \notin SigningUp
      BY PatchNoticesNothing
    <3>2. \/ request' = Noticed(bikes', Owned \union {bike})
          \/ \E other \in SigningUp :
               request' = [Noticed(bikes', Owned \union {bike}) EXCEPT ![other] = Idle]
      BY <1>2, Zenon DEF Create
    <3>3. QED BY <3>1, <3>2
  <2>2. Noticed(bikes', Owned \union {bike}) = [u \in Slots |-> Noticed(bikes', Owned \union {bike})[u]]
    BY DEF Noticed
  <2>3. \A other \in SigningUp :
          [Noticed(bikes', Owned \union {bike}) EXCEPT ![other] = Idle][s] = request[s]
    BY <2>1, <2>2
  <2>4. QED BY <2>1, <2>3
<1>3. ASSUME NEW t \in Slots, t # s, CommitPatch(t) PROVE FALSE
  <2>1. Noticed(bikes', Owned)[s] = request[s]
    BY PatchNoticesNothing
  <2>2. request'[s] = Noticed(bikes', Owned)[s]
    BY <1>3 DEF CommitPatch, Noticed
  <2>3. QED BY <2>1, <2>2
<1>4. CASE CommitPatch(s)
  <2>1. c \notin request[s].columns /\ bikes \in [Bikes -> Row]
    BY DEF IInv, TypeOK, RequestsOK, Good
  <2>2. CASE b = request[s].bike
    <3>1. bikes'[b] = [d \in Columns |-> IF d \in request[s].columns THEN request[s].after[d]
                                        ELSE bikes[b][d]]
      BY <1>4, <2>1, <2>2 DEF CommitPatch
    <3>2. QED BY <2>1, <3>1
  <2>3. CASE b # request[s].bike
    BY <1>4, <2>1, <2>3 DEF CommitPatch
  <2>4. QED BY <2>2, <2>3
<1>5. QED
  BY <1>1, <1>2, <1>3, <1>4
  DEF Next, vars, SignIn, SignUp, Welcome, Rollback, BeginPatch, BeginSelect, BeginResolve,
      ReadSelected, ReadList, CommitActive

\* Writing the net change of a session, and not the row, leaves what a body omits to
\* whoever committed it last.
THEOREM OmittedStay == Spec => OmittedColumnsStay
<1> DEFINE A ==
      \A s \in Slots :
       (request[s] # Idle /\ request[s].kind = "patch" /\ request'[s] = Idle) =>
         \A b \in Bikes, c \in Columns \ request[s].named : bikes'[b][c] = bikes[b][c]
<1>1. IInv /\ [Next]_vars => [A]_vars
  BY OmittedStep
<1>2. QED BY <1>1, GarageHolds, PTL DEF Spec, OmittedColumnsStay

-----------------------------------------------------------------------------
(* The age gate *)

\* A date of birth that is stored is of the past, and was old enough when it was
\* stored; it still is, because days only pass.
OldEnough == born # NoDate => ~Earlier(date, born) /\ YearsOld(born, date) >= MinAge

\* Only granted consents are stored.
OnlyGranted == \A i \in 1..Len(consents) : consents[i] = "granted"

AgeInv == AgeTypeOK /\ OldEnough /\ OnlyGranted

\* Dates are ordered, and their parts are numbers.
LEMMA DateParts ==
  ASSUME NEW d \in Dates
  PROVE  /\ d.year \in Nat /\ d.month \in {2, 3} /\ d.day \in {1, 28, 29}
         /\ d = [year |-> d.year, month |-> d.month, day |-> d.day]
         /\ d.month = 3 <=> d.day = 1
         /\ d.day = 29 => Leap(d.year)
BY Calendar DEF Dates

\* Years do not fall as days pass.
LEMMA YearsGrow ==
  ASSUME NEW b \in Dates, NEW s \in Dates, NEW t \in Dates, Earlier(s, t)
  PROVE  YearsOld(b, s) <= YearsOld(b, t) /\ YearsOld(b, s) \in Int /\ YearsOld(b, t) \in Int
BY DateParts DEF YearsOld, Earlier, EarlierInYear

\* A number of years is reached on the birthday, neither before nor after.
LEMMA YearsCountBirthdays ==
  ASSUME NEW b \in Dates, NEW t \in Dates, NEW n \in Nat
  PROVE  (YearsOld(b, t) >= n) <=> ~Earlier(t, Birthday(b, n))
<1>1. CASE b.day = 29 /\ ~Leap(b.year + n)
  BY <1>1, DateParts DEF YearsOld, Earlier, EarlierInYear, Birthday
<1>2. CASE ~(b.day = 29 /\ ~Leap(b.year + n))
  BY <1>2, DateParts DEF YearsOld, Earlier, EarlierInYear, Birthday
<1>3. QED BY <1>1, <1>2

-----------------------------------------------------------------------------
LEMMA AgeInvInit == AgeInit => AgeInv
BY Calendar, Distinct, Room DEF AgeInit, AgeInv, AgeTypeOK, OldEnough, OnlyGranted, Dates

\* A date that is accepted is of the past and old enough.
LEMMA SetKeeps ==
  ASSUME AgeInv, NEW d \in Dates, SetDateOfBirth(d)
  PROVE  AgeInv'
BY DEF AgeInv, AgeTypeOK, OldEnough, OnlyGranted, SetDateOfBirth, Acceptable

LEMMA RecordKeeps ==
  ASSUME AgeInv, RecordGranted
  PROVE  AgeInv'
<1> USE DEF AgeInv, AgeTypeOK, OldEnough, OnlyGranted, RecordGranted
<1>1. AgeTypeOK'
  BY Room DEF ConsentStatus
<1>2. OnlyGranted'
  BY Room DEF ConsentStatus
<1>3. OldEnough'
  OBVIOUS
<1>4. QED BY <1>1, <1>2, <1>3

\* Earlier is transitive, so what was of the past stays so.
LEMMA DayKeeps ==
  ASSUME AgeInv, NextDay
  PROVE  AgeInv' /\ Earlier(date, date') /\ date' \in Dates
<1> PICK d \in Dates : Earlier(date, d) /\ date' = d
  BY DEF NextDay
<1>1. AgeTypeOK' /\ OnlyGranted'
  BY DEF AgeInv, AgeTypeOK, OnlyGranted, NextDay
<1>2. ASSUME born' # NoDate PROVE ~Earlier(date', born') /\ YearsOld(born', date') >= MinAge
  <2>1. born' = born /\ born \in Dates /\ date \in Dates /\ ~Earlier(date, born)
    BY <1>2 DEF AgeInv, AgeTypeOK, OldEnough, NextDay
  <2>2. ~Earlier(date', born)
    BY <2>1, DateParts DEF Earlier, EarlierInYear
  <2>3. YearsOld(born, date') >= MinAge
    BY <1>2, <2>1, YearsGrow, Ages DEF AgeInv, OldEnough
  <2>4. QED BY <2>1, <2>2, <2>3
<1>3. QED BY <1>1, <1>2 DEF AgeInv, OldEnough

\* The gate, told by age.
LEMMA GateIsAge ==
  ASSUME AgeInv, born # NoDate
  PROVE  /\ Eligibility \in {"needs_consent", "consented", "adult"}
         /\ (Eligibility = "adult") <=> (YearsOld(born, date) >= AdultAge)
         /\ (Eligibility = "adult") <=> ~Earlier(date, Birthday(born, AdultAge))
<1>1. born \in Dates /\ date \in Dates /\ YearsOld(born, date) >= MinAge
  BY DEF AgeInv, AgeTypeOK, OldEnough
<1>2. YearsOld(born, date) \in Int
  BY <1>1, DateParts DEF YearsOld
<1>3. ~(YearsOld(born, date) < MinAge)
  BY <1>1, <1>2, Ages
<1>4. CASE YearsOld(born, date) >= AdultAge
  BY <1>1, <1>3, <1>4, YearsCountBirthdays, Ages DEF Eligibility
<1>5. CASE ~(YearsOld(born, date) >= AdultAge)
  BY <1>1, <1>3, <1>5, YearsCountBirthdays, Ages DEF Eligibility
<1>6. QED BY <1>4, <1>5

\* The same of the state after a step.
LEMMA NextGateIsAge ==
  ASSUME AgeInv', born' # NoDate
  PROVE  /\ Eligibility' \in {"needs_consent", "consented", "adult"}
         /\ (Eligibility' = "adult") <=> (YearsOld(born', date') >= AdultAge)
         /\ (Eligibility' = "adult") <=> ~Earlier(date', Birthday(born', AdultAge))
<1>1. born' \in Dates /\ date' \in Dates /\ YearsOld(born', date') >= MinAge
  BY DEF AgeInv, AgeTypeOK, OldEnough
<1>2. YearsOld(born', date') \in Int
  BY <1>1, DateParts DEF YearsOld
<1>3. ~(YearsOld(born', date') < MinAge)
  BY <1>1, <1>2, Ages
<1>4. CASE YearsOld(born', date') >= AdultAge
  BY <1>1, <1>3, <1>4, YearsCountBirthdays, Ages DEF Eligibility
<1>5. CASE ~(YearsOld(born', date') >= AdultAge)
  BY <1>1, <1>3, <1>5, YearsCountBirthdays, Ages DEF Eligibility
<1>6. QED BY <1>4, <1>5

\* A consent that counts.
GateOpen == consents # <<>> /\ LatestForMinor = "granted"

\* A consent is never taken back, and an age never falls.
LEMMA AccessStep ==
  ASSUME AgeInv, AgeInv', AgeNext, born' = born
  PROVE  Access[Eligibility] <= Access[Eligibility']
<1>1. CASE born = NoDate
  BY <1>1 DEF Eligibility, Access
<1>2. CASE born # NoDate
  <2>1. born \in Dates /\ date \in Dates /\ date' \in Dates
    BY <1>2 DEF AgeInv, AgeTypeOK
  <2>2. YearsOld(born, date) <= YearsOld(born, date')
    <3>1. CASE NextDay
      BY <2>1, <3>1, DayKeeps, YearsGrow
    <3>2. CASE RecordGranted \/ \E d \in Dates : SetDateOfBirth(d)
      <4>1. date' = date
        BY <3>2 DEF RecordGranted, SetDateOfBirth
      <4>2. YearsOld(born, date) \in Int
        BY <2>1, DateParts DEF YearsOld
      <4>3. QED BY <4>1, <4>2
    <3>3. QED BY <3>1, <3>2 DEF AgeNext
  <2>3. /\ YearsOld(born, date) \in Int /\ YearsOld(born, date') \in Int
    BY <2>1, DateParts DEF YearsOld
  <2>4. Eligibility = "adult" => Eligibility' = "adult"
    BY <1>2, <2>2, <2>3, GateIsAge, Ages, born' = born, born' # NoDate DEF Eligibility
  <2>5. GateOpen => GateOpen'
    <3>1. consents \in Seq(ConsentStatus) /\ consents' \in Seq(ConsentStatus)
      BY DEF AgeInv, AgeTypeOK
    <3>2. consents # <<>> => consents' # <<>>
      BY <3>1 DEF AgeNext, SetDateOfBirth, RecordGranted, NextDay
    <3>3. consents' # <<>> => LatestForMinor' = "granted"
      <4>1. consents' # <<>> => Len(consents') \in 1..Len(consents')
        BY <3>1
      <4>2. QED BY <4>1 DEF AgeInv, OnlyGranted, LatestForMinor
    <3>4. QED BY <3>2, <3>3 DEF GateOpen
  <2>6. Eligibility' \in {"needs_consent", "consented", "adult"}
    BY <1>2, NextGateIsAge
  <2>7. Eligibility \in {"needs_consent", "consented", "adult"}
    BY <1>2, GateIsAge
  <2>8. Eligibility = "consented" => Eligibility' \in {"consented", "adult"}
    BY <1>2, <2>5, <2>6 DEF GateOpen, Eligibility
  <2>9. QED BY <2>4, <2>6, <2>7, <2>8 DEF Access
<1>3. QED BY <1>1, <1>2

-----------------------------------------------------------------------------
LEMMA AgeInvKept ==
  ASSUME AgeInv, [AgeNext]_ageVars
  PROVE  AgeInv'
<1>1. ASSUME NEW d \in Dates, SetDateOfBirth(d) PROVE AgeInv'
  BY <1>1, SetKeeps
<1>2. CASE RecordGranted
  BY <1>2, RecordKeeps
<1>3. CASE NextDay
  BY <1>3, DayKeeps
<1>4. CASE UNCHANGED ageVars
  BY <1>4 DEF ageVars, AgeInv, AgeTypeOK, OldEnough, OnlyGranted
<1>5. QED BY <1>1, <1>2, <1>3, <1>4 DEF AgeNext

\* Dates of birth that are stored are of the past and of nobody who is a child, and
\* only granted consents are stored, in every state.
THEOREM AgeInvHolds == AgeSpec => []AgeInv
<1>1. AgeInit => AgeInv
  BY AgeInvInit
<1>2. AgeInv /\ [AgeNext]_ageVars => AgeInv'
  BY AgeInvKept
<1>3. QED BY <1>1, <1>2, PTL DEF AgeSpec

\* The gate of services/age_gate.py for all ages and years: nobody who is stored is a
\* child, time takes no access away, and adults have had that birthday.
THEOREM AccessGrowsHolds == AgeSpec => AccessOnlyGrows
<1> DEFINE A ==
      /\ born' # NoDate => Eligibility' \in {"needs_consent", "consented", "adult"}
      /\ born' = born => Access[Eligibility] <= Access[Eligibility']
      /\ born' # NoDate =>
           ((Eligibility' = "adult") <=> ~Earlier(date', Birthday(born', AdultAge)))
<1>1. AgeInv /\ AgeInv' /\ [AgeNext]_ageVars => [A]_ageVars
  <2> SUFFICES ASSUME AgeInv, AgeInv', AgeNext PROVE A
    OBVIOUS
  <2>1. born' # NoDate => /\ Eligibility' \in {"needs_consent", "consented", "adult"}
                          /\ (Eligibility' = "adult") <=> ~Earlier(date', Birthday(born', AdultAge))
    BY NextGateIsAge
  <2>2. born' = born => Access[Eligibility] <= Access[Eligibility']
    BY AccessStep
  <2>3. QED BY <2>1, <2>2
<1>2. QED BY <1>1, AgeInvHolds, PTL DEF AgeSpec, AccessOnlyGrows

-----------------------------------------------------------------------------
(* DueState: the log *)

DueIInv == DueTypes /\ IsFiniteSet(log)

LEMMA DueNumbers ==
  /\ MaxHours \in Nat /\ MaxDay \in Nat /\ MaxRecords \in Nat /\ Limit \in Nat /\ Limit > 0
  /\ DueSoonHours \in Nat /\ DueSoonDays \in Nat /\ Absent \notin Int
  /\ \A n \in Intervals \union Periods : n \in Nat /\ n > 0
<1>1. MaxHours \in Nat /\ MaxDay \in Nat /\ MaxRecords \in Nat /\ Limit \in Nat /\ Limit > 0
  BY DueBounds
<1>2. DueSoonHours \in Nat /\ DueSoonDays \in Nat
  BY Soon
<1>3. \A n \in Intervals \union Periods : n \in Nat /\ n > 0
  BY PositiveIntervals
<1> QED BY <1>1, <1>2, <1>3, NoNumber

\* The next entry is later than all others.
LEMMA NextEntryIs ==
  ASSUME DueTypes
  PROVE  NextEntry \in Nat /\ \A r \in log : r.created < NextEntry
<1> DEFINE T == {0} \union {r.created : r \in log}
<1>1. MaxRecords \in Nat
  BY DueNumbers
<1>2. \A r \in log : r.created \in 1..MaxRecords
  BY DEF DueTypes, Records
<1>3. T \in SUBSET (0..MaxRecords) /\ T # {}
  BY <1>1, <1>2
<1>4. Max(T) \in T /\ \A y \in T : y <= Max(T)
  <2> HIDE DEF T
  <2> QED BY <1>1, <1>3, MaxIs
<1>5. Max(T) \in Nat
  <2>1. \A y \in T : y \in Nat
    BY <1>2
  <2> HIDE DEF T
  <2> QED BY <1>4, <2>1
<1>6. NextEntry = Max(T) + 1
  BY DEF NextEntry
<1>7. \A r \in log : r.created \in T /\ r.created \in Nat
  BY <1>2
<1> HIDE DEF T
<1> QED BY <1>4, <1>5, <1>6, <1>7

LEMMA NewEntry ==
  ASSUME DueTypes, NEW e \in Records, e.created = NextEntry
  PROVE  /\ \A r, s \in log \union {e} : r.created = s.created => r = s
         /\ e \notin log
<1>1. \A r \in log : r.created < NextEntry /\ NextEntry \in Nat
  BY NextEntryIs
<1>2. \A r \in log : r.created \in Nat
  BY DEF DueTypes, Records
<1>3. \A r \in log : r.created # e.created
  BY <1>1, <1>2
<1> QED BY <1>3 DEF DueTypes

LEMMA DueInitOK == DueInit => DueIInv
<1> SUFFICES ASSUME DueInit PROVE DueIInv
  OBVIOUS
<1>1. 0 \in 0..MaxDay
  BY DueNumbers
<1>2. DueTypes
  BY <1>1 DEF DueInit, DueTypes
<1>3. IsFiniteSet(log)
  BY FS_EmptySet DEF DueInit
<1> QED BY <1>2, <1>3 DEF DueIInv

\* What a service that is logged leaves in the log.
LEMMA LogWrites ==
  ASSUME DueIInv, NEW when \in 0..MaxDay, NEW hours \in ReadingOrNone, NEW matching \in BOOLEAN,
         NEW sync, NEW guess, LogService(when, hours, matching, sync, guess)
  PROVE  \E e \in Records : /\ log' = log \union {e} /\ e.created = NextEntry /\ e.date = when
                            /\ e.matching = matching /\ e \notin log
                            /\ e.hours = IF matching THEN hours ELSE Absent
<1> DEFINE e == [created |-> NextEntry, date |-> when,
                 hours |-> IF matching THEN hours ELSE Absent, matching |-> matching]
<1>1. NextEntry \in 1..MaxRecords /\ log' = log \union {e}
  BY DEF LogService
<1>2. (IF matching THEN hours ELSE Absent) \in ReadingOrNone
  BY DEF ReadingOrNone
<1>3. e \in Records /\ e.created = NextEntry
  BY <1>1, <1>2 DEF Records
<1>4. e \notin log
  <2> HIDE DEF e
  <2> QED BY <1>3, NewEntry DEF DueIInv
<1> QED BY <1>1, <1>3, <1>4

LEMMA LogKeeps ==
  ASSUME DueIInv, NEW when \in 0..MaxDay, NEW hours \in ReadingOrNone, NEW matching \in BOOLEAN,
         NEW sync \in BOOLEAN, NEW guess \in BOOLEAN,
         LogService(when, hours, matching, sync, guess)
  PROVE  DueIInv'
<1>1. PICK e \in Records : log' = log \union {e} /\ e.created = NextEntry
  BY LogWrites
<1>2. \A r, s \in log' : r.created = s.created => r = s
  BY <1>1, NewEntry DEF DueIInv
<1>3. log' \subseteq Records /\ IsFiniteSet(log')
  BY <1>1, FS_AddElement DEF DueIInv, DueTypes
<1>4. meter' \in ReadingOrNone /\ estimated' \in BOOLEAN /\ rule' = rule /\ today' = today
  BY DEF LogService, DueIInv, DueTypes
<1> QED BY <1>2, <1>3, <1>4 DEF DueIInv, DueTypes

LEMMA EditWrites ==
  ASSUME DueIInv, NEW r \in log, NEW when \in 0..MaxDay, NEW hours \in ReadingOrNone,
         NEW matching \in BOOLEAN, EditService(r, when, hours, matching)
  PROVE  \E e \in Records : log' = (log \ {r}) \union {e} /\ e.created = r.created
<1> DEFINE e == [r EXCEPT !.date = when, !.hours = hours, !.matching = matching]
<1>1. r \in Records
  BY DEF DueIInv, DueTypes
<1>2. e \in Records /\ e.created = r.created
  BY <1>1 DEF Records
<1>3. log' = (log \ {r}) \union {e}
  BY DEF EditService
<1> QED BY <1>2, <1>3

LEMMA EditKeeps ==
  ASSUME DueIInv, NEW r \in log, NEW when \in 0..MaxDay, NEW hours \in ReadingOrNone,
         NEW matching \in BOOLEAN, EditService(r, when, hours, matching)
  PROVE  DueIInv'
<1>1. PICK e \in Records : log' = (log \ {r}) \union {e} /\ e.created = r.created
  BY EditWrites
<1>2. \A s \in log \ {r} : s.created # e.created
  BY <1>1 DEF DueIInv, DueTypes
<1>3. \A t, s \in log' : t.created = s.created => t = s
  BY <1>1, <1>2 DEF DueIInv, DueTypes
<1>4. log' \subseteq Records /\ IsFiniteSet(log')
  <2>1. IsFiniteSet(log \ {r})
    BY FS_RemoveElement DEF DueIInv
  <2> QED BY <1>1, <2>1, FS_AddElement DEF DueIInv, DueTypes
<1>5. UNCHANGED <<rule, meter, estimated, today>>
  BY DEF EditService
<1> QED BY <1>3, <1>4, <1>5 DEF DueIInv, DueTypes

LEMMA DueKept == DueIInv /\ [DueNext]_dueVars => DueIInv'
<1> SUFFICES ASSUME DueIInv, [DueNext]_dueVars PROVE DueIInv'
  OBVIOUS
<1>1. ASSUME NEW when \in 0..MaxDay, NEW hours \in ReadingOrNone, NEW matching \in BOOLEAN,
             NEW sync \in BOOLEAN, NEW guess \in BOOLEAN,
             LogService(when, hours, matching, sync, guess)
      PROVE  DueIInv'
  BY <1>1, LogKeeps
<1>2. ASSUME NEW r \in log, NEW when \in 0..MaxDay, NEW matching \in BOOLEAN,
             NEW hours \in IF matching THEN ReadingOrNone ELSE {Absent},
             EditService(r, when, hours, matching)
      PROVE  DueIInv'
  <2>1. hours \in ReadingOrNone
    BY DEF ReadingOrNone
  <2> QED BY <1>2, <2>1, EditKeeps
<1>3. ASSUME NEW r \in log, DeleteService(r) PROVE DueIInv'
  <2>1. IsFiniteSet(log') /\ log' \subseteq log
    BY <1>3, FS_RemoveElement DEF DeleteService, DueIInv
  <2> QED BY <1>3, <2>1 DEF DeleteService, DueIInv, DueTypes
<1>4. ASSUME NEW hours \in Hours, NEW guess \in BOOLEAN, ReadMeter(hours, guess) PROVE DueIInv'
  BY <1>4 DEF ReadMeter, DueIInv, DueTypes, ReadingOrNone
<1>5. ASSUME DayPasses PROVE DueIInv'
  BY <1>5, DueNumbers DEF DayPasses, DueIInv, DueTypes
<1>6. ASSUME UNCHANGED dueVars PROVE DueIInv'
  BY <1>6 DEF dueVars, DueIInv, DueTypes
<1> QED BY <1>1, <1>2, <1>3, <1>4, <1>5, <1>6 DEF DueNext

THEOREM DueHolds == DueSpec => []DueIInv
  BY DueInitOK, DueKept, PTL DEF DueSpec

-----------------------------------------------------------------------------
(* DueState: the last service *)

Newest(r, S) == \A s \in S : r = s \/ Newer(r, s)
Ordered(S) == \A r, s \in S : r # s => Newer(r, s) \/ Newer(s, r)
Dated(S) == \A r \in S : r.date \in Nat /\ r.created \in Nat

\* Of finitely many services one is the newest.
LEMMA NewestExists ==
  ASSUME NEW S, IsFiniteSet(S), Dated(S), Ordered(S), S # {}
  PROVE  \E r \in S : Newest(r, S)
<1> DEFINE G == {T \in SUBSET S : T # {} => \E r \in T : Newest(r, T)}
<1>1. ASSUME NEW T \in SUBSET S, \A U \in SUBSET T : U # T => U \in G, T # {}
      PROVE  \E r \in T : Newest(r, T)
  <2>1. PICK x \in T : TRUE
    BY <1>1
  <2>2. T \ {x} \in G
    BY <1>1, <2>1
  <2>3. CASE T \ {x} = {}
    BY <2>1, <2>3 DEF Newest
  <2>4. CASE T \ {x} # {}
    <3>1. PICK y \in T \ {x} : Newest(y, T \ {x})
      BY <2>2, <2>4
    <3>2. x \in S /\ y \in S /\ x # y
      BY <2>1, <3>1
    <3>3. CASE Newer(y, x)
      <4>1. Newest(y, T)
        BY <3>1, <3>3 DEF Newest
      <4> QED BY <3>1, <4>1
    <3>4. CASE Newer(x, y)
      <4>1. ASSUME NEW s \in T, x # s PROVE Newer(x, s)
        <5>1. y = s \/ Newer(y, s)
          BY <3>1, <4>1 DEF Newest
        <5>2. s.date \in Nat /\ s.created \in Nat /\ x.date \in Nat /\ x.created \in Nat
              /\ y.date \in Nat /\ y.created \in Nat
          BY <3>2, <4>1 DEF Dated
        <5> QED BY <3>4, <5>1, <5>2 DEF Newer
      <4> QED BY <2>1, <4>1 DEF Newest
    <3> QED BY <3>2, <3>3, <3>4 DEF Ordered
  <2> QED BY <2>3, <2>4
<1>2. \A T \in SUBSET S : (\A U \in SUBSET T : U # T => U \in G) => T \in G
  BY <1>1
<1> HIDE DEF G
<1>3. \A T \in SUBSET S : T \in G
  BY <1>2, SubsetsAreGood
<1> USE DEF G
<1> QED BY <1>3

\* The newest one is the only one.
LEMMA NewestIs ==
  ASSUME NEW S, Dated(S), NEW r \in S, Newest(r, S)
  PROVE  (CHOOSE x \in S : \A s \in S : x = s \/ Newer(x, s)) = r
<1> DEFINE y == CHOOSE x \in S : \A s \in S : x = s \/ Newer(x, s)
<1>1. y \in S /\ Newest(y, S)
  BY DEF Newest
<1> HIDE DEF y
<1>2. (y = r \/ Newer(y, r)) /\ (y = r \/ Newer(r, y))
  BY <1>1 DEF Newest
<1>3. y.date \in Nat /\ y.created \in Nat /\ r.date \in Nat /\ r.created \in Nat
  BY <1>1 DEF Dated
<1>4. y = r
  BY <1>2, <1>3 DEF Newer
<1> QED BY <1>4 DEF y

LEMMA EntriesAre ==
  ASSUME DueIInv
  PROVE  /\ Ordered(log) /\ Dated(log)
         /\ \A r \in log : r.hours \in Nat \union {Absent} /\ r.created # 0
<1>1. MaxHours \in Nat /\ MaxDay \in Nat /\ MaxRecords \in Nat
  BY DueNumbers
<1>2. ASSUME NEW r \in log
      PROVE  /\ r.created \in Nat /\ r.created # 0 /\ r.date \in Nat
             /\ r.hours \in Nat \union {Absent}
  <2>1. r.created \in 1..MaxRecords /\ r.date \in 0..MaxDay /\ r.hours \in ReadingOrNone
    BY DEF DueIInv, DueTypes, Records
  <2> QED BY <1>1, <2>1 DEF ReadingOrNone, Hours
<1>3. ASSUME NEW r \in log, NEW s \in log, r # s PROVE Newer(r, s) \/ Newer(s, r)
  <2>1. r.created # s.created
    BY <1>3 DEF DueIInv, DueTypes
  <2> QED BY <1>2, <2>1 DEF Newer
<1> QED BY <1>2, <1>3 DEF Ordered, Dated

LEMMA MatchesAre ==
  ASSUME DueIInv
  PROVE  /\ Matches \subseteq Read /\ Read \subseteq log /\ IsFiniteSet(Matches)
         /\ Ordered(Matches) /\ Dated(Matches) /\ NoService \notin log
<1>1. Matches \subseteq Read /\ Read \subseteq log
  BY DEF Matches, Read
<1>2. IsFiniteSet(Matches)
  BY <1>1, FS_Subset DEF DueIInv
<1>3. Ordered(Matches) /\ Dated(Matches)
  BY <1>1, EntriesAre DEF Ordered, Dated
<1>4. NoService.created = 0
  BY DEF NoService
<1>5. NoService \notin log
  BY <1>4, EntriesAre
<1> QED BY <1>1, <1>2, <1>3, <1>5

\* The last matching service is the newest of those that are read.
LEMMA LastIs ==
  ASSUME DueIInv
  PROVE  \/ Matches = {} /\ LastService = NoService
         \/ /\ LastService \in Matches /\ Newest(LastService, Matches)
            /\ LastService # NoService
<1>1. CASE Matches = {}
  BY <1>1 DEF LastService
<1>2. CASE Matches # {}
  <2>1. PICK r \in Matches : Newest(r, Matches)
    BY <1>2, MatchesAre, NewestExists
  <2>2. LastService = r
    BY <1>2, <2>1, MatchesAre, NewestIs DEF LastService
  <2>3. r # NoService
    BY <2>1, MatchesAre
  <2> QED BY <2>1, <2>2, <2>3
<1> QED BY <1>1, <1>2

LEMMA LastIsNewest ==
  ASSUME DueIInv, NEW r \in Matches, Newest(r, Matches)
  PROVE  LastService = r
<1>1. Matches # {} /\ Dated(Matches)
  BY MatchesAre
<1> QED BY <1>1, NewestIs DEF LastService

LEMMA LastIsNewestThen == (\A r \in Matches : DueIInv /\ Newest(r, Matches) => LastService = r)'
<1>1. \A r \in Matches : DueIInv /\ Newest(r, Matches) => LastService = r
  BY LastIsNewest
<1> QED BY <1>1, PTL

\* Due is about the last service.
LEMMA DueIs == Due = Judged(LastService, HourStatus(LastService), DayStatus(LastService))
<1> DEFINE J == Judged(LastService, HourStatus(LastService), DayStatus(LastService))
           S == UNION {{Judged(last, hour, day) : hour \in {HourStatus(last)},
                                                  day \in {DayStatus(last)}} : last \in {LastService}}
<1>1. S = {J}
  OBVIOUS
<1>2. Due = CHOOSE due \in S : TRUE
  BY DEF Due
<1> HIDE DEF S, J
<1>3. Due = J
  BY <1>1, <1>2
<1> QED BY <1>3 DEF J

LEMMA DueThen == (Due = Judged(LastService, HourStatus(LastService), DayStatus(LastService)))'
  BY DueIs, PTL

\* What the last service says of the meter and the day.
Known(last) == last.hours \in Nat \union {Absent} /\ last.date \in Nat

LEMMA LastKnown == DueIInv => Known(LastService)
<1> SUFFICES ASSUME DueIInv PROVE Known(LastService)
  OBVIOUS
<1>1. CASE LastService = NoService
  BY <1>1 DEF Known, NoService
<1>2. CASE LastService \in Matches
  BY <1>2, MatchesAre, EntriesAre DEF Known, Dated
<1> QED BY <1>1, <1>2, LastIs

\* The intervals and readings a due item is made of.
LEMMA StateIs ==
  ASSUME DueIInv
  PROVE  /\ rule.initial \in Nat \union {Absent} /\ rule.recurring \in Nat \union {Absent}
         /\ rule.calendar \in Nat \union {Absent}
         /\ rule.initial # 0 /\ rule.recurring # 0 /\ rule.calendar # 0
         /\ meter \in Nat \union {Absent} /\ today \in Nat
<1>1. /\ rule.initial \in Intervals \union {Absent} /\ rule.recurring \in Intervals \union {Absent}
      /\ rule.calendar \in Periods \union {Absent}
  BY DEF DueIInv, DueTypes, Rules
<1>2. \A n \in Intervals \union Periods : n \in Nat /\ n # 0
  BY DueNumbers
<1>3. Absent # 0
  BY DueNumbers
<1>4. meter \in 0..MaxHours \union {Absent} /\ today \in 0..MaxDay
  BY DEF DueIInv, DueTypes, ReadingOrNone, Hours
<1>5. meter \in Nat \union {Absent} /\ today \in Nat
  BY <1>4, DueNumbers
<1> QED BY <1>1, <1>2, <1>3, <1>5

-----------------------------------------------------------------------------
(* DueState: the verdict *)

Scores4 == {"none", "ok", "due_soon", "overdue"}

\* The second is the first or worse.
Worsens(s, t) ==
  \/ s = t
  \/ s = "ok" /\ t \in {"due_soon", "overdue"}
  \/ s = "due_soon" /\ t = "overdue"

LEMMA ScoredIs ==
  ASSUME NEW a \in Int \union {Absent}, NEW soon \in Nat
  PROVE  /\ Scored(a, soon) \in Scores4
         /\ Scored(a, soon) = "none" <=> a = Absent
         /\ Scored(a, soon) = "overdue" <=> (a # Absent /\ a <= 0)
         /\ Scored(a, soon) = "ok" <=> (a # Absent /\ a > soon)
<1>1. CASE a = Absent
  <2>1. Scored(a, soon) = "none"
    BY <1>1 DEF Scored
  <2> QED BY <1>1, <2>1 DEF Scores4
<1>2. CASE a # Absent /\ a <= 0
  <2>1. Scored(a, soon) = "overdue"
    BY <1>2 DEF Scored
  <2>2. a \in Int /\ ~(a > soon)
    BY <1>2
  <2> QED BY <1>2, <2>1, <2>2 DEF Scores4
<1>3. CASE a # Absent /\ a > 0 /\ a <= soon
  <2>1. a \in Int
    BY <1>3
  <2>2. Scored(a, soon) = "due_soon"
    BY <1>3, <2>1 DEF Scored
  <2>3. ~(a > soon) /\ ~(a <= 0)
    BY <1>3, <2>1
  <2> QED BY <1>3, <2>2, <2>3 DEF Scores4
<1>4. CASE a # Absent /\ a > soon
  <2>1. a \in Int /\ ~(a <= 0) /\ ~(a <= soon)
    BY <1>4
  <2>2. Scored(a, soon) = "ok"
    BY <1>4, <2>1 DEF Scored
  <2> QED BY <1>4, <2>1, <2>2 DEF Scores4
<1> QED BY <1>1, <1>2, <1>3, <1>4

\* With fewer hours or days left a threshold is as near or nearer.
LEMMA ScoredWorsens ==
  ASSUME NEW a \in Int \union {Absent}, NEW b \in Int \union {Absent}, NEW soon \in Nat,
         a = Absent <=> b = Absent, a # Absent => b <= a
  PROVE  Worsens(Scored(a, soon), Scored(b, soon))
<1>1. CASE a = Absent
  BY <1>1 DEF Worsens
<1>2. CASE a # Absent
  <2>1. a \in Int /\ b \in Int /\ b <= a
    BY <1>2
  <2>2. (a <= 0 => b <= 0) /\ (b > soon => a > soon)
    BY <2>1
  <2>3. Scored(b, soon) = "ok" => Scored(a, soon) = "ok"
    BY <1>2, <2>2, ScoredIs
  <2>4. Scored(a, soon) = "overdue" => Scored(b, soon) = "overdue"
    BY <1>2, <2>2, ScoredIs
  <2>5. Scored(a, soon) # "none" /\ Scored(b, soon) # "none"
    BY <1>2, ScoredIs
  <2>6. Scored(a, soon) \in Scores4 /\ Scored(b, soon) \in Scores4
    BY ScoredIs
  <2> QED BY <2>3, <2>4, <2>5, <2>6 DEF Scores4, Worsens
<1> QED BY <1>1, <1>2

\* Two thresholds as one verdict.
LEMMA CombinedIs ==
  ASSUME NEW h \in Scores4, NEW d \in Scores4
  PROVE  Combined({h, d} \ {"none"}) =
           IF "overdue" \in {h, d}
           THEN IF ~rule.first /\ "ok" \in {h, d} THEN "due_soon" ELSE "overdue"
           ELSE IF "due_soon" \in {h, d} THEN "due_soon" ELSE "ok"
<1> DEFINE S == {h, d} \ {"none"}
<1>1. \A x : x # "none" => (x \in S <=> x \in {h, d})
  OBVIOUS
<1>2. S \subseteq {"ok", "due_soon", "overdue"}
  BY DEF Scores4
<1>3. S # {"ok"} <=> (S = {} \/ "due_soon" \in S \/ "overdue" \in S)
  BY <1>2
<1>4. "ok" \in S <=> "ok" \in {h, d}
  BY <1>1
<1>5. "due_soon" \in S <=> "due_soon" \in {h, d}
  BY <1>1
<1>6. "overdue" \in S <=> "overdue" \in {h, d}
  BY <1>1
<1>7. "ok" \in S => S # {}
  OBVIOUS
<1> HIDE DEF S
<1>8. Combined(S) = IF "overdue" \in S
                    THEN IF ~rule.first /\ "ok" \in S THEN "due_soon" ELSE "overdue"
                    ELSE IF "due_soon" \in S THEN "due_soon" ELSE "ok"
  <2>1. Combined(S) = IF ~rule.first /\ "ok" \in S /\ S # {"ok"} THEN "due_soon" ELSE Worst(S)
    BY DEF Combined
  <2>2. CASE "overdue" \in S
    <3>1. Worst(S) = "overdue"
      BY <2>2 DEF Worst
    <3> QED BY <1>3, <2>1, <2>2, <3>1
  <2>3. CASE "overdue" \notin S /\ "due_soon" \in S
    <3>1. Worst(S) = "due_soon"
      BY <2>3 DEF Worst
    <3> QED BY <2>1, <2>3, <3>1
  <2>4. CASE "overdue" \notin S /\ "due_soon" \notin S
    <3>1. Worst(S) = "ok"
      BY <2>4 DEF Worst
    <3>2. ~("ok" \in S /\ S # {"ok"})
      BY <1>3, <1>7, <2>4
    <3> QED BY <2>1, <2>4, <3>1, <3>2
  <2> QED BY <2>2, <2>3, <2>4
<1>9. QED BY <1>4, <1>5, <1>6, <1>8 DEF S

\* The order of the verdicts: _URGENCY.
Falls(s, t) ==
  \/ s = t
  \/ s = "due_soon" /\ t = "overdue"
  \/ s = "never_serviced" /\ t \in {"overdue", "due_soon"}
  \/ s = "unknown" /\ t \in {"overdue", "due_soon", "never_serviced"}
  \/ s = "ok" /\ t \in {"overdue", "due_soon", "never_serviced", "unknown"}

\* The verdict on two thresholds.
LEMMA VerdictIs ==
  ASSUME NEW last, NEW h \in Scores4, NEW d \in Scores4
  PROVE  Verdict(last, h, d) =
           IF h = "none" /\ d = "none"
           THEN IF last = NoService THEN "never_serviced" ELSE "unknown"
           ELSE IF "overdue" \in {h, d}
           THEN IF \/ ~rule.first /\ "ok" \in {h, d}
                   \/ estimated /\ h = "overdue" /\ d \in {"none", "ok"}
                THEN "due_soon" ELSE "overdue"
           ELSE IF "due_soon" \in {h, d} THEN "due_soon"
           ELSE IF last = NoService THEN "never_serviced" ELSE "ok"
<1> DEFINE S == {h, d} \ {"none"}
<1>1. S = {} <=> h = "none" /\ d = "none"
  OBVIOUS
<1>2. Combined(S) = IF "overdue" \in {h, d}
                    THEN IF ~rule.first /\ "ok" \in {h, d} THEN "due_soon" ELSE "overdue"
                    ELSE IF "due_soon" \in {h, d} THEN "due_soon" ELSE "ok"
  BY CombinedIs
<1>3. Softened(h, d) <=> /\ Combined(S) = "overdue" /\ estimated
                         /\ h = "overdue" /\ d \in {"none", "ok"}
  BY DEF Softened
<1> DEFINE V == Verdict(last, h, d)
<1>4. V = CASE S = {} -> IF last = NoService THEN "never_serviced" ELSE "unknown"
            [] Softened(h, d) -> "due_soon"
            [] ~Softened(h, d) /\ Combined(S) = "ok" /\ last = NoService -> "never_serviced"
            [] OTHER -> Combined(S)
  BY DEF Verdict
<1> HIDE DEF S, V
<1>5. CASE S = {}
  <2>1. ~Softened(h, d)
    BY <1>1, <1>3, <1>5
  <2>2. "overdue" \notin {h, d} /\ "due_soon" \notin {h, d}
    BY <1>1, <1>5
  <2>3. Combined(S) = "ok"
    BY <1>2, <2>2
  <2>4. V = IF last = NoService THEN "never_serviced" ELSE "unknown"
    BY <1>4, <1>5, <2>1, <2>3
  <2> QED BY <1>1, <1>5, <2>4 DEF V
<1>6. CASE S # {} /\ Softened(h, d)
  <2>1. V = "due_soon"
    BY <1>4, <1>6
  <2> QED BY <1>1, <1>2, <1>3, <1>6, <2>1 DEF V
<1>7. CASE S # {} /\ ~Softened(h, d)
  <2>1. V = IF Combined(S) = "ok" /\ last = NoService THEN "never_serviced" ELSE Combined(S)
    BY <1>4, <1>7
  <2>2. ~(h = "none" /\ d = "none")
    BY <1>1, <1>7
  <2>3. CASE "overdue" \in {h, d}
    <3>1. V = IF ~rule.first /\ "ok" \in {h, d} THEN "due_soon" ELSE "overdue"
      BY <1>2, <2>1, <2>3
    <3>2. ~(~rule.first /\ "ok" \in {h, d}) => ~(estimated /\ h = "overdue" /\ d \in {"none", "ok"})
      BY <1>2, <1>3, <1>7, <2>3
    <3> QED BY <2>2, <2>3, <3>1, <3>2 DEF V
  <2>4. CASE "overdue" \notin {h, d}
    <3>1. V = IF "due_soon" \in {h, d} THEN "due_soon"
              ELSE IF last = NoService THEN "never_serviced" ELSE "ok"
      BY <1>2, <2>1, <2>4
    <3> QED BY <2>2, <2>4, <3>1 DEF V
  <2> QED BY <2>3, <2>4
<1> QED BY <1>5, <1>6, <1>7

\* Two thresholds that are as near or nearer give the same verdict or a more urgent one.
LEMMA VerdictFalls ==
  ASSUME NEW last, NEW h \in Scores4, NEW d \in Scores4, NEW h2 \in Scores4, NEW d2 \in Scores4,
         Worsens(h, h2), Worsens(d, d2)
  PROVE  Falls(Verdict(last, h, d), Verdict(last, h2, d2))
<1> DEFINE V == Verdict(last, h, d)
           W == Verdict(last, h2, d2)
<1>1. V = IF h = "none" /\ d = "none" THEN IF last = NoService THEN "never_serviced" ELSE "unknown"
          ELSE IF "overdue" \in {h, d}
          THEN IF \/ ~rule.first /\ "ok" \in {h, d}
                  \/ estimated /\ h = "overdue" /\ d \in {"none", "ok"}
               THEN "due_soon" ELSE "overdue"
          ELSE IF "due_soon" \in {h, d} THEN "due_soon"
          ELSE IF last = NoService THEN "never_serviced" ELSE "ok"
  BY VerdictIs
<1>2. W = IF h2 = "none" /\ d2 = "none" THEN IF last = NoService THEN "never_serviced" ELSE "unknown"
          ELSE IF "overdue" \in {h2, d2}
          THEN IF \/ ~rule.first /\ "ok" \in {h2, d2}
                  \/ estimated /\ h2 = "overdue" /\ d2 \in {"none", "ok"}
               THEN "due_soon" ELSE "overdue"
          ELSE IF "due_soon" \in {h2, d2} THEN "due_soon"
          ELSE IF last = NoService THEN "never_serviced" ELSE "ok"
  BY VerdictIs
<1> HIDE DEF V, W
<1>3. (h = "none" <=> h2 = "none") /\ (d = "none" <=> d2 = "none")
  BY DEF Worsens
<1>4. CASE h = "none" /\ d = "none"
  BY <1>1, <1>2, <1>3, <1>4 DEF Falls, V, W
<1>5. CASE ~(h = "none" /\ d = "none")
  <2>1. V \in {"never_serviced", "ok"} => "overdue" \notin {h, d} /\ "due_soon" \notin {h, d}
    BY <1>1, <1>5
  <2>2. V \in {"never_serviced", "ok", "due_soon", "overdue"}
        /\ W \in {"never_serviced", "ok", "due_soon", "overdue"}
    BY <1>1, <1>2, <1>3, <1>5
  <2>3. CASE V = "overdue"
    <3>1. /\ "overdue" \in {h, d} /\ ~(~rule.first /\ "ok" \in {h, d})
          /\ ~(estimated /\ h = "overdue" /\ d \in {"none", "ok"})
      BY <1>1, <1>5, <2>3
    <3>2. "overdue" \in {h2, d2} /\ ~(~rule.first /\ "ok" \in {h2, d2})
      BY <3>1 DEF Worsens
    <3>3. ~(estimated /\ h2 = "overdue" /\ d2 \in {"none", "ok"})
      BY <3>1 DEF Worsens
    <3>4. W = "overdue"
      BY <1>2, <1>3, <1>5, <3>2, <3>3
    <3> QED BY <2>3, <3>4 DEF Falls, V, W
  <2>4. CASE V = "due_soon"
    <3>1. "overdue" \in {h, d} \/ "due_soon" \in {h, d}
      BY <1>1, <1>5, <2>4
    <3>2. "overdue" \in {h2, d2} \/ "due_soon" \in {h2, d2}
      BY <3>1 DEF Worsens
    <3>3. W \in {"due_soon", "overdue"}
      BY <1>2, <1>3, <1>5, <3>2
    <3> QED BY <2>4, <3>3 DEF Falls, V, W
  <2>5. CASE V = "never_serviced"
    <3>1. last = NoService
      BY <1>1, <1>5, <2>5
    <3>2. W # "ok"
      BY <1>2, <1>3, <1>5, <3>1
    <3> QED BY <2>2, <2>5, <3>2 DEF Falls, V, W
  <2>6. CASE V = "ok"
    BY <2>2, <2>6 DEF Falls, V, W
  <2> QED BY <2>2, <2>3, <2>4, <2>5, <2>6
<1> QED BY <1>4, <1>5

-----------------------------------------------------------------------------
(* DueState: what is left *)

\* What a threshold is scored on.
LEMMA LeftIs ==
  ASSUME DueIInv, NEW last, Known(last)
  PROVE  /\ HourInterval(last) \in Nat \union {Absent} /\ HourInterval(last) # 0
         /\ HoursLeft(last) \in Int \union {Absent}
         /\ DaysLeft(last) \in Int \union {Absent}
         /\ HoursLeft(last) = Absent <=> Absent \in {HourInterval(last), meter, last.hours}
         /\ DaysLeft(last) = Absent <=> (rule.calendar = Absent \/ last = NoService)
<1>1. Absent \notin Int
  BY DueNumbers
<1>2. HourInterval(last) \in Nat \union {Absent} /\ HourInterval(last) # 0
  BY StateIs DEF HourInterval, FirstOf
<1>3. ASSUME Absent \in {HourInterval(last), meter, last.hours} PROVE HoursLeft(last) = Absent
  BY <1>3 DEF HoursLeft
<1>4. ASSUME Absent \notin {HourInterval(last), meter, last.hours}
      PROVE  HoursLeft(last) \in Int
  <2>1. HourInterval(last) \in Nat /\ meter \in Nat /\ last.hours \in Nat
    BY <1>2, <1>4, StateIs DEF Known
  <2>2. HoursLeft(last) = last.hours + HourInterval(last) - meter
    BY <1>4 DEF HoursLeft
  <2> QED BY <2>1, <2>2
<1>5. HoursLeft(last) \in Int \union {Absent}
      /\ (HoursLeft(last) = Absent <=> Absent \in {HourInterval(last), meter, last.hours})
  BY <1>1, <1>3, <1>4 DEF HoursLeft
<1>6. ASSUME ~(rule.calendar = Absent \/ last = NoService) PROVE DaysLeft(last) \in Int
  <2>1. rule.calendar \in Nat /\ last.date \in Nat /\ today \in Nat
    BY <1>6, StateIs DEF Known
  <2>2. DaysLeft(last) = last.date + rule.calendar - today
    BY <1>6 DEF DaysLeft
  <2> QED BY <2>1, <2>2
<1>7. DaysLeft(last) \in Int \union {Absent}
      /\ (DaysLeft(last) = Absent <=> (rule.calendar = Absent \/ last = NoService))
  BY <1>1, <1>6 DEF DaysLeft
<1> QED BY <1>2, <1>5, <1>7

LEMMA LeftThen ==
  (\A last : DueIInv /\ Known(last) =>
     /\ HoursLeft(last) \in Int \union {Absent} /\ DaysLeft(last) \in Int \union {Absent}
     /\ HoursLeft(last) = Absent <=> Absent \in {HourInterval(last), meter, last.hours}
     /\ DaysLeft(last) = Absent <=> (rule.calendar = Absent \/ last = NoService))'
<1>1. \A last : DueIInv /\ Known(last) =>
        /\ HoursLeft(last) \in Int \union {Absent} /\ DaysLeft(last) \in Int \union {Absent}
        /\ HoursLeft(last) = Absent <=> Absent \in {HourInterval(last), meter, last.hours}
        /\ DaysLeft(last) = Absent <=> (rule.calendar = Absent \/ last = NoService)
  BY LeftIs
<1> QED BY <1>1, PTL

\* What a step of riding on and of time leaves as it is.
LEMMA AgingIs ==
  ASSUME DueIInv, [DueNext]_dueVars, Aging
  PROVE  /\ rule' = rule /\ log' = log /\ estimated' = estimated
         /\ today' = today \/ today' = today + 1
         /\ meter' = meter \/ (meter \in Nat /\ meter' \in Nat /\ meter' > meter)
<1>1. rule' = rule /\ (today' = today \/ today' = today + 1)
  BY DEF DueNext, dueVars, LogService, EditService, DeleteService, ReadMeter, DayPasses
<1>2. meter' = meter \/ (meter' # Absent /\ meter' \in ReadingOrNone)
  <2>1. \A hours \in Hours : hours \in ReadingOrNone /\ hours # Absent
    BY DueNumbers DEF Hours, ReadingOrNone
  <2> QED BY <2>1 DEF DueNext, dueVars, LogService, EditService, DeleteService, ReadMeter, DayPasses
<1>3. meter' = meter \/ meter' \in Nat
  BY <1>2, DueNumbers DEF ReadingOrNone, Hours
<1> QED BY <1>1, <1>3, StateIs DEF Aging

LEMMA StatusesAre ==
  ASSUME DueIInv, NEW last, Known(last)
  PROVE  HourStatus(last) \in Scores4 /\ DayStatus(last) \in Scores4
<1>1. HoursLeft(last) \in Int \union {Absent} /\ DaysLeft(last) \in Int \union {Absent}
  BY LeftIs
<1> QED BY <1>1, DueNumbers, ScoredIs DEF HourStatus, DayStatus

\* Riding on and days that pass bring the thresholds nearer.
LEMMA StatusesWorsen ==
  ASSUME DueIInv, DueIInv', [DueNext]_dueVars, Aging, NEW CONSTANT last, Known(last)
  PROVE  Worsens(HourStatus(last), HourStatus(last)') /\ Worsens(DayStatus(last), DayStatus(last)')
<1>1. /\ rule' = rule
      /\ today' = today \/ today' = today + 1
      /\ meter' = meter \/ (meter \in Nat /\ meter' \in Nat /\ meter' > meter)
  BY AgingIs
<1>2. /\ HoursLeft(last)' \in Int \union {Absent} /\ DaysLeft(last)' \in Int \union {Absent}
      /\ HoursLeft(last)' = Absent <=> Absent \in {HourInterval(last)', meter', last.hours}
      /\ DaysLeft(last)' = Absent <=> (rule'.calendar = Absent \/ last = NoService)
  BY LeftThen DEF Known
<1>3. HourInterval(last)' = HourInterval(last)
  BY <1>1 DEF HourInterval, FirstOf
<1>4. /\ HoursLeft(last) \in Int \union {Absent} /\ DaysLeft(last) \in Int \union {Absent}
      /\ HoursLeft(last) = Absent <=> Absent \in {HourInterval(last), meter, last.hours}
      /\ DaysLeft(last) = Absent <=> (rule.calendar = Absent \/ last = NoService)
  BY LeftIs
<1>5. HoursLeft(last) = Absent <=> HoursLeft(last)' = Absent
  BY <1>1, <1>2, <1>3, <1>4, DueNumbers
<1>6. ASSUME HoursLeft(last) # Absent PROVE HoursLeft(last)' <= HoursLeft(last)
  <2>1. /\ HoursLeft(last) = last.hours + HourInterval(last) - meter
        /\ HoursLeft(last)' = last.hours + HourInterval(last) - meter'
    BY <1>2, <1>3, <1>4, <1>5, <1>6 DEF HoursLeft
  <2>2. last.hours \in Nat /\ HourInterval(last) \in Nat /\ meter \in Nat
    BY <1>4, <1>6, LeftIs, StateIs DEF Known
  <2>3. meter' \in Nat /\ meter' >= meter
    BY <1>1, <2>2
  <2> QED BY <2>1, <2>2, <2>3
<1>7. ASSUME DaysLeft(last) # Absent PROVE DaysLeft(last)' <= DaysLeft(last)
  <2>1. /\ DaysLeft(last) = last.date + rule.calendar - today
        /\ DaysLeft(last)' = last.date + rule.calendar - today'
    BY <1>1, <1>4, <1>7 DEF DaysLeft
  <2>2. last.date \in Nat /\ rule.calendar \in Nat /\ today \in Nat
    BY <1>4, <1>7, StateIs DEF Known
  <2> QED BY <1>1, <2>1, <2>2
<1>8. DaysLeft(last) = Absent <=> DaysLeft(last)' = Absent
  BY <1>1, <1>2, <1>4
<1>9. Worsens(Scored(HoursLeft(last), DueSoonHours), Scored(HoursLeft(last)', DueSoonHours))
  BY <1>2, <1>4, <1>5, <1>6, DueNumbers, ScoredWorsens
<1>10. Worsens(Scored(DaysLeft(last), DueSoonDays), Scored(DaysLeft(last)', DueSoonDays))
  BY <1>2, <1>4, <1>7, <1>8, DueNumbers, ScoredWorsens
<1>11. HourStatus(last)' = Scored(HoursLeft(last)', DueSoonHours)
       /\ DayStatus(last)' = Scored(DaysLeft(last)', DueSoonDays)
  BY DEF HourStatus, DayStatus, Scored
<1> QED BY <1>9, <1>10, <1>11 DEF HourStatus, DayStatus

\* The status of what is due, then and now.
LEMMA DueStatusIs ==
  ASSUME DueIInv
  PROVE  /\ Due.status = Verdict(LastService, HourStatus(LastService), DayStatus(LastService))
         /\ Due.last = LastService
<1>1. Due = Judged(LastService, HourStatus(LastService), DayStatus(LastService))
  BY DueIs
<1> QED BY <1>1 DEF Judged

LEMMA UrgencyGrows ==
  ASSUME DueIInv, DueIInv', [DueNext]_dueVars, Aging
  PROVE  Falls(Due.status, Due'.status)
<1>1. rule' = rule /\ log' = log /\ estimated' = estimated
  BY AgingIs
<1>2. LastService' = LastService
  BY <1>1 DEF LastService, Matches, Read
<1>3. PICK last, h, d, h2, d2 : /\ last = LastService /\ h = HourStatus(last) /\ d = DayStatus(last)
                                /\ h2 = HourStatus(last)' /\ d2 = DayStatus(last)'
  OBVIOUS
<1>4. Known(last)
  BY <1>3, LastKnown
<1>5. Worsens(h, h2) /\ Worsens(d, d2)
  BY <1>3, <1>4, StatusesWorsen
<1>6. h \in Scores4 /\ d \in Scores4
  BY <1>3, <1>4, StatusesAre
<1>7. h2 \in Scores4 /\ d2 \in Scores4
  BY <1>5, <1>6 DEF Worsens, Scores4
<1>8. Falls(Verdict(last, h, d), Verdict(last, h2, d2))
  BY <1>5, <1>6, <1>7, VerdictFalls
<1>9. Due.status = Verdict(last, h, d)
  BY <1>3, DueStatusIs
<1>10. Due' = Judged(last, h2, d2)'
  BY <1>2, <1>3, DueThen DEF HourStatus, DayStatus
<1>11. Judged(last, h2, d2)'.status = Verdict(last, h2, d2)'
  BY DEF Judged
<1>12. Verdict(last, h2, d2)' = Verdict(last, h2, d2)
  BY <1>1 DEF Verdict, Softened, Combined
<1> QED BY <1>8, <1>9, <1>10, <1>11, <1>12

-----------------------------------------------------------------------------
(* DueState: what is entered counts by its date *)

\* A service that is new in the log was entered last.
LEMMA AddedIs ==
  ASSUME DueIInv, DueIInv', [DueNext]_dueVars, meter' = meter, log \subseteq log',
         NEW r \in log', r \notin log
  PROVE  /\ rule' = rule /\ today' = today /\ log' = log \union {r}
         /\ \A s \in log : s.created < r.created
<1>1. ASSUME NEW when \in 0..MaxDay, NEW hours \in ReadingOrNone, NEW matching \in BOOLEAN,
             NEW sync \in BOOLEAN, NEW guess \in BOOLEAN,
             LogService(when, hours, matching, sync, guess)
      PROVE  /\ rule' = rule /\ today' = today /\ log' = log \union {r}
             /\ \A s \in log : s.created < r.created
  <2>1. PICK e \in Records : log' = log \union {e} /\ e.created = NextEntry
    BY <1>1, LogWrites
  <2>2. r = e
    BY <2>1
  <2>3. \A s \in log : s.created < NextEntry
    BY NextEntryIs DEF DueIInv
  <2>4. rule' = rule /\ today' = today
    BY <1>1 DEF LogService
  <2> QED BY <2>1, <2>2, <2>3, <2>4
<1>2. ASSUME NEW s \in log, NEW when \in 0..MaxDay, NEW matching \in BOOLEAN,
             NEW hours \in IF matching THEN ReadingOrNone ELSE {Absent},
             EditService(s, when, hours, matching)
      PROVE  FALSE
  <2>1. hours \in ReadingOrNone
    BY DEF ReadingOrNone
  <2>2. PICK e \in Records : log' = (log \ {s}) \union {e} /\ e.created = s.created
    BY <1>2, <2>1, EditWrites
  <2>3. s \in log' /\ e \in log'
    BY <2>2
  <2>4. \A t, u \in log' : t.created = u.created => t = u
    BY DEF DueIInv, DueTypes
  <2>5. s = e
    BY <2>2, <2>3, <2>4
  <2> QED BY <2>2, <2>5
<1>3. ASSUME log' \subseteq log PROVE FALSE
  BY <1>3
<1> QED BY <1>1, <1>2, <1>3
     DEF DueNext, dueVars, DeleteService, ReadMeter, DayPasses

LEMMA NotOverdue ==
  ASSUME NEW last, NEW h \in Scores4, NEW d \in Scores4, h # "overdue", d # "overdue"
  PROVE  Verdict(last, h, d) # "overdue"
<1>1. "overdue" \notin {h, d}
  OBVIOUS
<1> QED BY <1>1, VerdictIs

LEMMA NotOverdueThen ==
  (\A last : \A h, d \in Scores4 :
     h # "overdue" /\ d # "overdue" => Verdict(last, h, d) # "overdue")'
<1>1. \A last : \A h, d \in Scores4 :
        h # "overdue" /\ d # "overdue" => Verdict(last, h, d) # "overdue"
  BY NotOverdue
<1> QED BY <1>1, PTL

\* A service of today at these hours leaves no threshold overdue.
LEMMA CurrentIsNotOverdue ==
  ASSUME DueIInv, NEW r, Known(r), r.hours = meter, r.date = today
  PROVE  Verdict(r, HourStatus(r), DayStatus(r)) # "overdue"
<1>1. /\ HoursLeft(r) \in Int \union {Absent} /\ DaysLeft(r) \in Int \union {Absent}
      /\ HourInterval(r) \in Nat \union {Absent} /\ HourInterval(r) # 0
  BY LeftIs
<1>2. ASSUME HoursLeft(r) # Absent PROVE HoursLeft(r) > 0
  <2>1. HoursLeft(r) = r.hours + HourInterval(r) - meter
    BY <1>2 DEF HoursLeft
  <2>2. Absent \notin {HourInterval(r), meter}
    BY <1>2, LeftIs
  <2>3. HourInterval(r) \in Nat /\ HourInterval(r) # 0 /\ meter \in Nat
    BY <1>1, <2>2, StateIs
  <2> QED BY <2>1, <2>3
<1>3. ASSUME DaysLeft(r) # Absent PROVE DaysLeft(r) > 0
  <2>1. DaysLeft(r) = r.date + rule.calendar - today
    BY <1>3 DEF DaysLeft
  <2>2. rule.calendar # Absent
    BY <1>3, LeftIs
  <2>3. rule.calendar \in Nat /\ rule.calendar # 0 /\ today \in Nat
    BY <2>2, StateIs
  <2> QED BY <2>1, <2>3
<1>4. HourStatus(r) \in Scores4 /\ DayStatus(r) \in Scores4
  BY StatusesAre
<1>5. HourStatus(r) # "overdue"
  <2>1. HourStatus(r) = "overdue" => HoursLeft(r) # Absent /\ HoursLeft(r) <= 0
    BY <1>1, DueNumbers, ScoredIs DEF HourStatus
  <2> QED BY <1>1, <1>2, <2>1
<1>6. DayStatus(r) # "overdue"
  <2>1. DayStatus(r) = "overdue" => DaysLeft(r) # Absent /\ DaysLeft(r) <= 0
    BY <1>1, DueNumbers, ScoredIs DEF DayStatus
  <2> QED BY <1>1, <1>3, <2>1
<1> QED BY <1>4, <1>5, <1>6, NotOverdue

LEMMA CurrentThen ==
  (DueIInv /\ Known(LastService) /\ LastService.hours = meter /\ LastService.date = today =>
     Due.status # "overdue")'
<1>1. DueIInv /\ Known(LastService) /\ LastService.hours = meter /\ LastService.date = today =>
        Due.status # "overdue"
  BY CurrentIsNotOverdue, DueStatusIs
<1> QED BY <1>1, PTL

\* A service that is newer than all others is read, and is the last one.
LEMMA NewestIsLast ==
  ASSUME DueIInv, NEW r \in log, r.matching, \A s \in log : r = s \/ Newer(r, s)
  PROVE  LastService = r
<1>1. Dated(log)
  BY EntriesAre
<1>2. \A s \in log : ~Newer(s, r)
  <2> SUFFICES ASSUME NEW s \in log PROVE ~Newer(s, r)
    OBVIOUS
  <2>1. s.date \in Nat /\ s.created \in Nat /\ r.date \in Nat /\ r.created \in Nat
    BY <1>1 DEF Dated
  <2> QED BY <2>1 DEF Newer
<1>3. {s \in log : Newer(s, r)} = {}
  BY <1>2
<1>4. Cardinality({s \in log : Newer(s, r)}) < Limit
  BY <1>3, FS_EmptySet, DueNumbers
<1>5. r \in Matches
  BY <1>4 DEF Matches, Read
<1>6. Newest(r, Matches)
  BY MatchesAre DEF Newest
<1> QED BY <1>5, <1>6, LastIsNewest

LEMMA NewestIsLastThen ==
  (\A r \in log : DueIInv /\ r.matching /\ (\A s \in log : r = s \/ Newer(r, s)) =>
     LastService = r)'
<1>1. \A r \in log : DueIInv /\ r.matching /\ (\A s \in log : r = s \/ Newer(r, s)) =>
        LastService = r
  BY NewestIsLast
<1> QED BY <1>1, PTL

LEMMA KnownThen == (DueIInv => Dated(log) /\ Known(LastService))'
<1>1. DueIInv => Dated(log) /\ Known(LastService)
  BY EntriesAre, LastKnown
<1> QED BY <1>1, PTL

LEMMA ServiceClearsIt ==
  ASSUME DueIInv, DueIInv', [DueNext]_dueVars, meter' = meter, log \subseteq log'
  PROVE  ServiceClears
<1> SUFFICES ASSUME \A s \in log : s.date <= today, NEW r \in log' \ log, LoggedNow(r)
             PROVE  Due'.status # "overdue"
  BY DEF ServiceClears
<1>1. /\ today' = today /\ log' = log \union {r}
      /\ \A s \in log : s.created < r.created
  BY AddedIs
<1>2. Dated(log')
  BY KnownThen DEF Dated
<1>3. ASSUME NEW s \in log', s # r PROVE Newer(r, s)
  <2>1. s \in log
    BY <1>1, <1>3
  <2>2. s.date <= today /\ s.created < r.created /\ r.date = today
    BY <1>1, <2>1 DEF LoggedNow
  <2>3. s.date \in Nat /\ s.created \in Nat /\ r.date \in Nat /\ r.created \in Nat
    BY <1>2, <1>3 DEF Dated
  <2> QED BY <2>2, <2>3 DEF Newer
<1>4. LastService' = r
  BY <1>3, NewestIsLastThen DEF LoggedNow
<1>5. Known(LastService)' /\ LastService'.hours = meter' /\ LastService'.date = today'
  BY <1>1, <1>4, KnownThen DEF LoggedNow
<1> QED BY <1>5, CurrentThen

LEMMA BackdatedChangesNothing ==
  ASSUME DueIInv, DueIInv', [DueNext]_dueVars, meter' = meter, log \subseteq log'
  PROVE  BackdatedIsNeutral
<1> SUFFICES ASSUME NEW r \in log' \ log, estimated' = estimated, Due.last # NoService,
                    r.date < Due.last.date
             PROVE  Due' = Due
  BY DEF BackdatedIsNeutral
<1>1. rule' = rule /\ today' = today /\ log' = log \union {r}
  BY AddedIs
<1>2. PICK l : l = LastService /\ l = Due.last
  BY DueStatusIs
<1>3. l \in Matches /\ Newest(l, Matches)
  BY <1>2, LastIs
<1>4. Matches \subseteq Read /\ Read \subseteq log
  BY MatchesAre
<1>5. l \in log /\ l.matching
  BY <1>3, <1>4 DEF Matches
<1>6. Dated(log')
  BY KnownThen DEF Dated
<1>7. ~Newer(r, l) /\ Newer(l, r)
  <2>1. l.date \in Nat /\ r.date \in Nat
    BY <1>1, <1>5, <1>6 DEF Dated
  <2>2. r.date < l.date
    BY <1>2
  <2> QED BY <2>1, <2>2 DEF Newer
<1>8. {s \in log' : Newer(s, l)} = {s \in log : Newer(s, l)}
  BY <1>1, <1>7
<1>9. l \in Matches'
  BY <1>1, <1>3, <1>5, <1>8 DEF Matches, Read
<1>10. ASSUME NEW x \in Matches', x # r PROVE x \in Matches
  <2>1. x \in log' /\ x.matching /\ Cardinality({s \in log' : Newer(s, x)}) < Limit
    BY DEF Matches, Read
  <2>2. PICK A, B : A = {s \in log' : Newer(s, x)} /\ B = {s \in log : Newer(s, x)}
    OBVIOUS
  <2>3. IsFiniteSet(A)
    <3>1. IsFiniteSet(log')
      BY DEF DueIInv
    <3> QED BY <2>2, <3>1, FS_Subset
  <2>4. B \in SUBSET A
    BY <1>1, <2>2
  <2>5. Cardinality(B) <= Cardinality(A) /\ IsFiniteSet(B)
    BY <2>3, <2>4, FS_Subset
  <2>6. Cardinality(A) \in Nat /\ Cardinality(B) \in Nat
    BY <2>3, <2>5, FS_CardinalityType
  <2>7. Cardinality(B) < Limit
    BY <2>1, <2>2, <2>5, <2>6, DueNumbers
  <2> QED BY <1>1, <1>10, <2>1, <2>2, <2>7 DEF Matches, Read
<1>11. Newest(l, Matches')
  BY <1>3, <1>7, <1>10 DEF Newest
<1>12. LastService' = l
  BY <1>9, <1>11, LastIsNewestThen DEF Newest
<1>13. HourStatus(l)' = HourStatus(l) /\ DayStatus(l)' = DayStatus(l)
  BY <1>1 DEF HourStatus, DayStatus, HoursLeft, DaysLeft, HourInterval
<1>14. PICK h, d : h = HourStatus(l) /\ d = DayStatus(l)
  OBVIOUS
<1>15. Due' = Judged(l, h, d)'
  BY <1>12, <1>13, <1>14, DueThen DEF HourStatus, DayStatus
<1>16. Judged(l, h, d)' = Judged(l, h, d)
  BY <1>1 DEF Judged, Verdict, Softened, Combined
<1>17. Due = Judged(l, h, d)
  BY <1>2, <1>14, DueIs
<1> QED BY <1>15, <1>16, <1>17

\* Services count by their date: one logged today with the hours of the meter clears the
\* item, one of an earlier date than the last leaves it alone (derive_due_items).
THEOREM HistoryHolds == DueSpec => HistoryCounts
<1>1. DueIInv /\ DueIInv' /\ [DueNext]_dueVars =>
        [(meter' = meter /\ log \subseteq log') => ServiceClears /\ BackdatedIsNeutral]_dueVars
  BY ServiceClearsIt, BackdatedChangesNothing
<1> QED BY <1>1, DueHolds, PTL DEF DueSpec, HistoryCounts

-----------------------------------------------------------------------------
(* Recommendations: urgency and hints *)

LEMMA UrgencyIs ==
  ASSUME NEW s, NEW t, Falls(s, t), s \in {"overdue", "due_soon", "never_serviced", "unknown", "ok"}
  PROVE  /\ Urgency[t] <= Urgency[s]
         /\ s = "overdue" => t = "overdue"
         /\ s \in {"due_soon", "never_serviced"} => t \in {"overdue", "due_soon", "never_serviced"}
<1>1. /\ Urgency["overdue"] = 0 /\ Urgency["due_soon"] = 1 /\ Urgency["never_serviced"] = 2
      /\ Urgency["unknown"] = 3 /\ Urgency["ok"] = 4
  BY DEF Urgency
<1>2. Urgency[t] <= Urgency[s]
  <2>1. CASE s = t
    BY <1>1, <2>1
  <2>2. CASE s # t
    BY <1>1, <2>2 DEF Falls
  <2> QED BY <2>1, <2>2
<1>3. s = "overdue" => t = "overdue"
  BY DEF Falls
<1>4. s \in {"due_soon", "never_serviced"} => t \in {"overdue", "due_soon", "never_serviced"}
  BY DEF Falls
<1> QED BY <1>2, <1>3, <1>4

LEMMA StatusIs ==
  ASSUME DueIInv
  PROVE  Due.status \in {"overdue", "due_soon", "never_serviced", "unknown", "ok"}
<1>1. PICK last, h, d : last = LastService /\ h = HourStatus(last) /\ d = DayStatus(last)
  OBVIOUS
<1>2. h \in Scores4 /\ d \in Scores4
  BY <1>1, LastKnown, StatusesAre
<1>3. Verdict(last, h, d) \in {"overdue", "due_soon", "never_serviced", "unknown", "ok"}
  BY <1>2, VerdictIs
<1> QED BY <1>1, <1>3, DueStatusIs

\* A status at least as urgent has every hint, as urging.
LEMMA HintsStay ==
  ASSUME NEW item, NEW next, NEW tags, Falls(item.status, next.status),
         item.status \in {"overdue", "due_soon", "never_serviced", "unknown", "ok"},
         NEW h \in Hints(item, tags)
  PROVE  \E g \in Hints(next, tags) : h.earlier => g.earlier
<1>1. Hinted(item, tags) /\ h.earlier = Sooner(item, tags)
  BY DEF Hints
<1>2. Sooner(item, tags) => Sooner(next, tags)
  BY UrgencyIs DEF Sooner
<1>3. Hinted(next, tags)
  <2>1. tags # {}
    BY <1>1 DEF Hinted
  <2>2. CASE Sooner(item, tags)
    BY <1>2, <2>1, <2>2 DEF Hinted
  <2>3. CASE "watch" \in tags /\ item.status \in {"due_soon", "never_serviced"}
    <3>1. next.status \in {"overdue", "due_soon", "never_serviced"}
      BY <2>3, UrgencyIs
    <3> QED BY <2>1, <2>3, <3>1 DEF Hinted, Sooner
  <2> QED BY <1>1, <2>2, <2>3 DEF Hinted
<1>4. PICK g : g = [source |-> "hints", earlier |-> Sooner(next, tags), quotes |-> {}]
  OBVIOUS
<1>5. g \in Hints(next, tags) /\ g.earlier = Sooner(next, tags)
  BY <1>3, <1>4 DEF Hints
<1> QED BY <1>1, <1>2, <1>5

LEMMA PriorityIs ==
  ASSUME NEW status
  PROVE  Priority(status) = "act_now" <=> status = "overdue"
BY DEF Priority

LEMMA HotterHolds ==
  ASSUME DueIInv, DueIInv', [DueNext]_dueVars, Aging
  PROVE  \A item \in {Recommended}, next \in {Recommended'} : Hotter(item, next)
<1> SUFFICES ASSUME NEW item, NEW next, item = Recommended, next = Recommended'
             PROVE  Hotter(item, next)
  OBVIOUS
<1>1. item.status = Due.status /\ item.priority = Priority(Due.status)
  BY DEF Recommended, Baseline
<1>2. next.status = Due'.status /\ next.priority = Priority(Due'.status)
  BY DEF Recommended, Baseline, Priority
<1>3. Falls(item.status, next.status)
  BY <1>1, <1>2, UrgencyGrows
<1>4. item.status \in {"overdue", "due_soon", "never_serviced", "unknown", "ok"}
  BY <1>1, StatusIs
<1>5. Urgency[next.status] <= Urgency[item.status]
      /\ (item.status = "overdue" => next.status = "overdue")
  BY <1>3, <1>4, UrgencyIs
<1>6. item.priority = "act_now" => next.priority = "act_now"
  BY <1>1, <1>2, <1>5, PriorityIs
<1>7. \A tags \in SUBSET Conditions : \A h \in Hints(item, tags) :
        \E g \in Hints(next, tags) : h.earlier => g.earlier
  BY <1>3, <1>4, HintsStay
<1> QED BY <1>5, <1>6, <1>7 DEF Hotter

\* Riding on and letting days pass never makes an item less urgent, nor takes an advice
\* back (_combine, _priority, apply_condition_hints).
THEOREM UrgencyHolds == DueSpec => UrgencyNeverFalls
<1>1. DueIInv /\ DueIInv' /\ [DueNext]_dueVars =>
        [Aging => \A item \in {Recommended}, next \in {Recommended'} : Hotter(item, next)]_dueVars
  BY HotterHolds
<1> QED BY <1>1, DueHolds, PTL DEF DueSpec, UrgencyNeverFalls

LEMMA HintsGrow ==
  ASSUME DueIInv
  PROVE  HintsGrowWithTags
<1> SUFFICES ASSUME NEW item, item = Recommended, NEW tags \in SUBSET Conditions
             PROVE  /\ (item.status = "overdue" /\ tags # {}) =>
                         \E h \in Hints(item, tags) : h.earlier
                    /\ \A h \in Hints(item, tags) : \A c \in Conditions :
                         \E g \in Hints(item, tags \union {c}) : h.earlier => g.earlier
  BY DEF HintsGrowWithTags
<1>1. ASSUME NEW tt, Hinted(item, tt)
      PROVE  \E g \in Hints(item, tt) : g.earlier = Sooner(item, tt)
  <2>1. PICK g : g = [source |-> "hints", earlier |-> Sooner(item, tt), quotes |-> {}]
    OBVIOUS
  <2> QED BY <1>1, <2>1 DEF Hints
<1>2. ASSUME item.status = "overdue", tags # {} PROVE \E h \in Hints(item, tags) : h.earlier
  <2>1. Hinted(item, tags) /\ Sooner(item, tags)
    BY <1>2 DEF Hinted, Sooner
  <2>2. PICK g \in Hints(item, tags) : g.earlier = Sooner(item, tags)
    BY <1>1, <2>1
  <2>3. g.earlier
    BY <2>1, <2>2
  <2> QED BY <2>3
<1>3. ASSUME NEW h \in Hints(item, tags), NEW c \in Conditions
      PROVE  \E g \in Hints(item, tags \union {c}) : h.earlier => g.earlier
  <2>1. Hinted(item, tags) /\ h.earlier = Sooner(item, tags)
    BY DEF Hints
  <2>2. Sooner(item, tags) => Sooner(item, tags \union {c})
    BY DEF Sooner
  <2>3. Hinted(item, tags \union {c})
    BY <2>1, <2>2 DEF Hinted
  <2>4. PICK g \in Hints(item, tags \union {c}) : g.earlier = Sooner(item, tags \union {c})
    BY <1>1, <2>3
  <2> QED BY <2>1, <2>2, <2>4
<1> QED BY <1>2, <1>3

-----------------------------------------------------------------------------
(* Recommendations: what the model adds *)

Advices == [source: {"hints", "ai"}, earlier: BOOLEAN, quotes: SUBSET Quotes]

LEMMA HintsAre == \A item, tags : Hints(item, tags) \in SUBSET Advices
<1> SUFFICES ASSUME NEW item, NEW tags PROVE Hints(item, tags) \in SUBSET Advices
  OBVIOUS
<1>1. Sooner(item, tags) \in BOOLEAN
  BY DEF Sooner
<1> QED BY <1>1 DEF Hints, Advices

LEMMA TakeIs == \A item : \A list \in SUBSET Advices, row \in Rows :
  Take(list, row, item) \in SUBSET Advices
<1> SUFFICES ASSUME NEW item, NEW list \in SUBSET Advices, NEW row \in Rows
             PROVE  Take(list, row, item) \in SUBSET Advices
  OBVIOUS
<1>1. row.earlier \in BOOLEAN /\ row.quotes \in SUBSET Quotes
  BY DEF Rows
<1>2. [source |-> "ai", earlier |-> row.earlier, quotes |-> row.quotes] \in Advices
  BY <1>1 DEF Advices
<1> QED BY <1>2 DEF Take

\* The hints with what is taken of the rows of an answer.
Enriched(item, tags, q) ==
  FoldLeft(LAMBDA list, row : Take(list, row, item), Hints(item, tags), q)

\* What has been taken after each row.
Along(v, n, item, tags, q) ==
  /\ v[0] = Hints(item, tags) /\ Enriched(item, tags, q) = v[n]
  /\ \A i \in 1..n : v[i] = Take(v[i - 1], q[i], item)

LEMMA AdviceAlong ==
  ASSUME NEW item, NEW tags, NEW q \in Seq(Rows)
  PROVE  \E v : Along(v, Len(q), item, tags, q)
<1> DEFINE n == Len(q)
           base == Hints(item, tags)
           g == [x \in (SUBSET Advices) \X Rows |-> Take(x[1], x[2], item)]
           c == CHOOSE c : c = [s \in SUBSET (1..n) |->
                  IF s = {} THEN base ELSE Take(c[s \ {Max(s)}], q[Max(s)], item)]
<1>1. n \in Nat /\ q \in [1..n -> Rows]
  OBVIOUS
<1>2. g \in [(SUBSET Advices) \X Rows -> SUBSET Advices] /\ base \in SUBSET Advices
  BY TakeIs, HintsAre
<1>3. \A x \in SUBSET Advices, y \in Rows : g[<<x, y>>] = Take(x, y, item)
  OBVIOUS
<1>4. Enriched(item, tags, q) = c[1..n]
  BY <1>1 DEF Enriched, FoldLeft, MapThenFoldSet
<1>5. c = CHOOSE d : d = [s \in SUBSET (1..n) |->
             IF s = {} THEN base ELSE Take(d[s \ {Max(s)}], q[Max(s)], item)]
  OBVIOUS
<1> HIDE DEF g, n, c, base
<1>6. c = [s \in SUBSET (1..n) |->
             IF s = {} THEN base ELSE Take(c[s \ {Max(s)}], q[Max(s)], item)]
  <2>1. PICK h, v : /\ FoldsTo(h, 1..n, base, g, q)
                    /\ Typed(h, 1..n, SUBSET Advices, Rows, q)
                    /\ Values(v, n, SUBSET Advices, Rows, base, g, q)
    BY <1>1, <1>2, FoldAlong
  <2>2. h = [s \in SUBSET (1..n) |->
             IF s = {} THEN base ELSE Take(h[s \ {Max(s)}], q[Max(s)], item)]
    BY <1>3, <2>1 DEF FoldsTo, Typed
  <2> QED BY <1>5, <2>2
<1>7. FoldsLike(c, 1..n, SUBSET Advices, Rows, base, g, q)
  BY <1>3, <1>6 DEF FoldsLike
<1>8. PICK v : Values(v, n, SUBSET Advices, Rows, base, g, q) /\ Ends(v, n, c)
  BY <1>1, <1>2, <1>7, FoldRounds
<1>9. \A i \in 1..n : v[i] = Take(v[i - 1], q[i], item)
  BY <1>3, <1>8 DEF Values
<1>10. Along(v, n, item, tags, q)
  BY <1>4, <1>8, <1>9 DEF base, Values, Ends, Along
<1> QED BY <1>10 DEF n

\* The hints, or one advice about an item that has none, which quotes nothing else.
Added(item, tags, list) ==
  \/ list = Hints(item, tags)
  \/ /\ Hints(item, tags) = {}
     /\ \E row \in Rows : /\ ~Conflicting(row.quotes, item)
                          /\ list = {[source |-> "ai", earlier |-> row.earlier, quotes |-> row.quotes]}

LEMMA TakeAdds ==
  ASSUME NEW item, NEW tags, NEW list, Added(item, tags, list), NEW row \in Rows
  PROVE  Added(item, tags, Take(list, row, item))
<1>1. CASE list # {} \/ ~row.usable \/ Conflicting(row.quotes, item)
  BY <1>1 DEF Take
<1>2. CASE ~(list # {} \/ ~row.usable \/ Conflicting(row.quotes, item))
  <2>1. Take(list, row, item) = {[source |-> "ai", earlier |-> row.earlier, quotes |-> row.quotes]}
    BY <1>2 DEF Take
  <2>2. Hints(item, tags) = {}
    BY <1>2 DEF Added
  <2> QED BY <1>2, <2>1, <2>2 DEF Added
<1> QED BY <1>1, <1>2

LEMMA AdviceAdds ==
  ASSUME NEW item, NEW tags, NEW q \in Seq(Rows)
  PROVE  Added(item, tags, Advice(item, tags, q))
<1>1. CASE tags = {} /\ item.status = "ok"
  <2>1. Advice(item, tags, q) = Hints(item, tags)
    BY <1>1 DEF Advice
  <2> QED BY <2>1 DEF Added
<1>2. CASE ~(tags = {} /\ item.status = "ok")
  <2>1. PICK n : n = Len(q) /\ n \in Nat
    OBVIOUS
  <2>2. PICK v : Along(v, Len(q), item, tags, q)
    BY AdviceAlong
  <2>3. Advice(item, tags, q) = Enriched(item, tags, q)
    BY <1>2 DEF Advice, Enriched
  <2> DEFINE G == {i \in 0..n : Added(item, tags, v[i])}
  <2>4. 0 \in G
    BY <2>1, <2>2 DEF Added, Along
  <2>5. ASSUME NEW i \in 1..n, i - 1 \in G PROVE i \in G
    <3>1. q[i] \in Rows
      BY <2>1
    <3>2. Added(item, tags, Take(v[i - 1], q[i], item))
      BY <2>5, <3>1, TakeAdds
    <3>3. i \in 0..n
      BY <2>1
    <3>4. v[i] = Take(v[i - 1], q[i], item)
      BY <2>1, <2>2 DEF Along
    <3> QED BY <3>2, <3>3, <3>4
  <2> HIDE DEF G
  <2>6. \A i \in 0..n : i \in G
    BY <2>1, <2>4, <2>5, NumbersAreGood
  <2> USE DEF G
  <2> QED BY <2>1, <2>2, <2>3, <2>6 DEF Along
<1> QED BY <1>1, <1>2

\* What does not conflict with the intervals of the rule repeats them.
LEMMA QuotesFit ==
  ASSUME NEW item, item = Recommended, NEW row \in Rows, ~Conflicting(row.quotes, item),
         NEW q \in row.quotes
  PROVE  IF q[1] = "hours" THEN {rule.initial, rule.recurring} \subseteq {Absent} \/
                                q[2] \in {rule.initial, rule.recurring}
         ELSE rule.calendar \in {Absent, q[2]}
<1>1. item.hours = {rule.initial, rule.recurring} \ {Absent}
      /\ item.days = {rule.calendar} \ {Absent}
  BY DEF Recommended, Baseline
<1>2. ~(IF q[1] = "hours" THEN item.hours # {} /\ q[2] \notin item.hours
        ELSE item.days # {} /\ q[2] \notin item.days)
  BY DEF Conflicting
<1> QED BY <1>1, <1>2

LEMMA OneAtMost ==
  ASSUME NEW item, NEW tags
  PROVE  Cardinality(Hints(item, tags)) <= 1
<1>1. PICK h : h = [source |-> "hints", earlier |-> Sooner(item, tags), quotes |-> {}]
  OBVIOUS
<1>2. Hints(item, tags) = {} \/ Hints(item, tags) = {h}
  BY <1>1 DEF Hints
<1>3. Cardinality({}) = 0 /\ Cardinality({h}) = 1
  BY FS_EmptySet, FS_Singleton
<1> QED BY <1>2, <1>3

LEMMA AddsOnly ==
  ASSUME NEW item, item = Recommended, NEW tags, NEW q \in Seq(Rows)
  PROVE  OnlyAdds(item, tags, Advice(item, tags, q))
<1>1. PICK list : list = Advice(item, tags, q)
  OBVIOUS
<1>2. Added(item, tags, list)
  BY <1>1, AdviceAdds
<1>3. CASE list = Hints(item, tags)
  <2>1. \A a \in list : a.quotes = {}
    BY <1>3 DEF Hints
  <2>2. Cardinality(list) <= 1
    BY <1>3, OneAtMost
  <2> QED BY <1>1, <1>3, <2>1, <2>2 DEF OnlyAdds
<1>4. CASE list # Hints(item, tags)
  <2>1. PICK row \in Rows :
          /\ ~Conflicting(row.quotes, item) /\ Hints(item, tags) = {}
          /\ list = {[source |-> "ai", earlier |-> row.earlier, quotes |-> row.quotes]}
    BY <1>2, <1>4 DEF Added
  <2>2. PICK a : a = [source |-> "ai", earlier |-> row.earlier, quotes |-> row.quotes]
    OBVIOUS
  <2>3. list = {a} /\ a.quotes = row.quotes
    BY <2>1, <2>2
  <2>4. Cardinality(list) = 1
    BY <2>3, FS_Singleton
  <2>5. \A x \in list : \A r \in x.quotes :
          IF r[1] = "hours" THEN {rule.initial, rule.recurring} \subseteq {Absent} \/
                                 r[2] \in {rule.initial, rule.recurring}
          ELSE rule.calendar \in {Absent, r[2]}
    BY <2>1, <2>3, QuotesFit
  <2> QED BY <1>1, <2>1, <2>4, <2>5 DEF OnlyAdds
<1> QED BY <1>3, <1>4

LEMMA BoundedSequences == \A q \in BoundedSeq(Rows, MaxRows) : q \in Seq(Rows)
<1>1. MaxRows \in Nat
  BY RowBound
<1> QED BY <1>1 DEF BoundedSeq, SeqOf

LEMMA AdviceInvIs == DueIInv => AdviceInv
<1> SUFFICES ASSUME DueIInv PROVE AdviceInv
  OBVIOUS
<1>1. HintsGrowWithTags
  BY HintsGrow
<1>2. ModelOnlyAdds
  <2>1. ASSUME NEW item, item = Recommended, NEW tags \in SUBSET Conditions,
               NEW q \in BoundedSeq(Rows, MaxRows)
        PROVE  OnlyAdds(item, tags, Advice(item, tags, q))
    BY <2>1, BoundedSequences, AddsOnly
  <2> QED BY <2>1 DEF ModelOnlyAdds
<1> QED BY <1>1, <1>2 DEF AdviceInv, DueIInv

\* Advice only grows with the conditions named, and what the model answers is added to it
\* without displacing or contradicting anything (build_recommendations).
THEOREM AdviceHolds == DueSpec => []AdviceInv
  BY DueHolds, AdviceInvIs, PTL

\* The same of an answer of any length, in every state.
THEOREM ModelAdds ==
  \A item \in {Recommended}, tags \in SUBSET Conditions, answer \in Seq(Rows) :
    OnlyAdds(item, tags, Advice(item, tags, answer))
  BY AddsOnly
=============================================================================
