-------------------------- MODULE ClubFormsProofs ---------------------------
(***************************************************************************)
(* A computer's number is unique in its club, a request adds all of its    *)
(* computers or none, and batches number them consecutively; and the forms *)
(* side by side do what each of them promises: for any number of clubs,    *)
(* requests and values.  For computers this follows from their own         *)
(* specification, which the forms implement.                               *)
(***************************************************************************)
EXTENDS ClubForms, FiniteSetTheorems, FunctionTheorems, TLAPS

(* What uq_computers_club_number says of a club's rows.                    *)
NumbersAreUnique ==
  \A s, t \in seats : s.club = t.club /\ s.number = t.number => s = t

(* A request that is open has not been answered, so that it has no row.    *)
IInv ==
  /\ NumbersAreUnique
  /\ AllOrNothing
  /\ DOMAIN req = Requests
  /\ \A r \in Requests : req[r].open => req[r].answer = None
  /\ \A r \in Requests : DOMAIN req[r] = DOMAIN NotSent
  /\ \A s \in seats : s.of \in Requests

(* At the start there are no rows and no answers.                          *)
THEOREM InitIInv == Init => IInv
BY SeatNumbersAssumption DEF Init, IInv, NumbersAreUnique, AllOrNothing, NotSent

(* A request that was not sent before adds no row and is not done.         *)
LEMMA SentKeepsIInv ==
  ASSUME IInv, NEW r \in Requests, NEW c, NEW wants, NEW batch,
         NEW answer \in {None, "invalid", "exists", "denied"}, Sent(r, c, wants, batch, answer)
  PROVE  IInv'
<1>1. answer # "done"
  BY SeatNumbersAssumption
<1>2. req' = [req EXCEPT ![r] = req'[r]] /\ seats' = seats
  BY DEF Sent, IInv
<1>3. /\ req'[r].answer = answer
      /\ req'[r].open = (answer = None)
      /\ DOMAIN req'[r] = DOMAIN NotSent
  BY DEF Sent, IInv, NotSent
<1>4. {s \in seats : s.of = r} = {}
  BY SeatNumbersAssumption DEF IInv, AllOrNothing, Sent, NotSent
<1>5. AllOrNothing'
  BY <1>1, <1>2, <1>3, <1>4 DEF AllOrNothing, IInv, Rows
<1> QED
  BY <1>2, <1>3, <1>5 DEF IInv, NumbersAreUnique

(* Only what is recorded of the request changes, and it is an error.       *)
LEMMA ErrorKeepsIInv ==
  ASSUME IInv, NEW r \in Requests, req[r].open, End(r, "error"), UNCHANGED seats
  PROVE  IInv'
<1>1. req[r].answer # "done"
  BY SeatNumbersAssumption DEF IInv
<1>2. /\ req'[r].answer = "error" /\ ~ req'[r].open
      /\ DOMAIN req'[r] = DOMAIN NotSent
      /\ \A q \in Requests \ {r} : req'[q] = req[q]
      /\ DOMAIN req' = Requests
  BY DEF End, IInv, NotSent
<1>3. AllOrNothing'
  BY <1>1, <1>2 DEF AllOrNothing, IInv, Rows
<1> QED
  BY <1>2, <1>3 DEF IInv, NumbersAreUnique

(* The constraint has let the rows in, so that their numbers are new.      *)
LEMMA InsertKeepsIInv ==
  ASSUME IInv, NEW r \in Requests, req[r].open, ~ Collides(r), Inserted(r)
  PROVE  IInv'
<1> DEFINE new == Rows(r, req[r].wants)
<1>1. seats' = seats \union new
  BY DEF Inserted
<1>2. {s \in seats : s.of = r} = {}
  BY SeatNumbersAssumption DEF IInv, AllOrNothing
<1>3. /\ req'[r].answer = "done" /\ ~ req'[r].open
      /\ req'[r].wants = req[r].wants /\ req'[r].club = req[r].club
      /\ DOMAIN req'[r] = DOMAIN NotSent
      /\ \A q \in Requests \ {r} : req'[q] = req[q]
      /\ DOMAIN req' = Requests
  BY DEF Inserted, End, IInv, NotSent
<1>4. \A s \in new : s.of = r /\ s.club = req[r].club /\ s.number \in req[r].wants
  BY DEF Rows
<1>5. \A s \in seats, t \in new : ~ (s.club = t.club /\ s.number = t.number)
  BY <1>4 DEF Collides, NumbersOf
<1>6. \A s, t \in new : s.number = t.number => s = t
  BY DEF Rows
<1>7. NumbersAreUnique'
  BY <1>1, <1>5, <1>6 DEF NumbersAreUnique, IInv
<1>8. {s \in seats' : s.of = r} = Rows(r, req[r].wants)
  BY <1>1, <1>2, <1>4
<1>9. \A q \in Requests \ {r} : {s \in seats' : s.of = q} = {s \in seats : s.of = q}
  BY <1>1, <1>4
<1>10. AllOrNothing'
  <2>1. ASSUME NEW q \in Requests
        PROVE  {s \in seats' : s.of = q} =
                 IF req'[q].answer = "done"
                 THEN {[club |-> req'[q].club, number |-> n, of |-> q] : n \in req'[q].wants}
                 ELSE {}
    BY <1>3, <1>8, <1>9 DEF IInv, AllOrNothing, Rows
  <2> QED
    BY <2>1 DEF AllOrNothing, Rows
<1> QED
  BY <1>1, <1>3, <1>4, <1>7, <1>10 DEF IInv

(* Every step keeps the strengthened invariant.                            *)
THEOREM StepIInv == IInv /\ [Next]_vars => IInv'
<1> SUFFICES ASSUME IInv, [Next]_vars PROVE IInv'
  OBVIOUS
<1>1. ASSUME NEW r \in Requests, NEW c \in Clubs, NEW n \in Counts, AddComputers(r, c, n)
      PROVE  IInv'
  BY <1>1, SentKeepsIInv DEF AddComputers
<1>2. ASSUME NEW r \in Requests, NEW c \in Clubs, NEW n \in Numbers, AddComputer(r, c, n)
      PROVE  IInv'
  BY <1>2, SentKeepsIInv DEF AddComputer
<1>3. ASSUME NEW r \in Requests, Commit(r)
      PROVE  IInv'
  BY <1>3, InsertKeepsIInv, ErrorKeepsIInv DEF Commit, Rejected
<1>4. ASSUME NEW r \in Requests, CommitFails(r)
      PROVE  IInv'
  BY <1>4, ErrorKeepsIInv DEF CommitFails
<1>5. ASSUME NEW r \in Requests, NEW c \in Clubs, DenyComputers(r, c)
      PROVE  IInv'
  BY <1>5, SentKeepsIInv DEF DenyComputers
<1>6. CASE UNCHANGED <<seats, req>>
  BY <1>6 DEF IInv, NumbersAreUnique, AllOrNothing, Rows
<1> QED
  BY <1>1, <1>2, <1>3, <1>4, <1>5, <1>6 DEF Next, vars

(* A request ends with all of its computers or with none.                  *)
THEOREM AllOrNothingHolds == Spec => []AllOrNothing
<1>1. IInv => AllOrNothing
  BY DEF IInv
<1> QED
  BY InitIInv, StepIInv, <1>1, PTL DEF Spec

-----------------------------------------------------------------------------
(* Some number bounds those a request is about to use, and those that are  *)
(* used; without one there would be no largest number to continue from.    *)
Bounded(numbers) == \E b \in Nat : \A n \in numbers : n <= b

TInv ==
  /\ TypeOK
  /\ \A c \in Clubs : Bounded(NumbersOf(c))
  /\ \A r \in Requests : Bounded(req[r].wants)
  /\ \A r \in Requests : req[r].open => req[r].club \in Clubs /\ req[r].answer = None

(* A bounded set of numbers that is not empty has a largest one.           *)
LEMMA LargestNumber ==
  ASSUME NEW S, S \subseteq Nat, S # {}, Bounded(S)
  PROVE  \E n \in S : \A m \in S : m <= n
<1> DEFINE B == {b \in Nat : \A n \in S : n <= b}
<1>1. B \subseteq Nat /\ B # {}
  BY DEF Bounded
<1> HIDE DEF B
<1>2. PICK b \in B : \A d \in B : ~ (<<d, b>> \in OpToRel(<, Nat))
  BY <1>1, WFMin, NatLessThanWellFounded
<1>3. ASSUME NEW d \in B PROVE b <= d
  <2>1. b \in Nat /\ d \in Nat
    BY <1>1
  <2>2. d < b => <<d, b>> \in OpToRel(<, Nat)
    BY <2>1 DEF OpToRel
  <2>3. ~ (d < b)
    BY <1>2, <2>2, Zenon
  <2> QED
    BY <2>1, <2>3
<1>4. b \in Nat /\ \A n \in S : n <= b
  BY <1>1 DEF B
<1>5. b \in S
  <2> SUFFICES ASSUME b \notin S PROVE FALSE
    OBVIOUS
  <2>1. \A n \in S : n <= b - 1
    BY <1>4
  <2>2. b - 1 \in Nat
    <3>1. PICK n \in S : TRUE
      OBVIOUS
    <3> QED
      BY <1>4, <2>1, <3>1
  <2>3. b - 1 \in B
    BY <2>1, <2>2 DEF B
  <2> QED
    BY <1>3, <1>4, <2>3
<1> QED
  BY <1>4, <1>5

(* The number a batch continues from.                                      *)
LEMMA LastNumberIsLargest ==
  ASSUME TInv, NEW c \in Clubs
  PROVE  /\ LastNumber(c) \in Nat
         /\ \A n \in NumbersOf(c) : n <= LastNumber(c)
<1>1. NumbersOf(c) \subseteq Nat
  BY DEF TInv, TypeOK, NumbersOf
<1>2. CASE NumbersOf(c) = {}
  BY <1>2 DEF LastNumber
<1>3. CASE NumbersOf(c) # {}
  <2>1. \E n \in NumbersOf(c) : \A m \in NumbersOf(c) : m <= n
    BY <1>1, <1>3, LargestNumber DEF TInv
  <2>2. LastNumber(c) \in NumbersOf(c) /\ \A m \in NumbersOf(c) : m <= LastNumber(c)
    BY <1>3, <2>1 DEF LastNumber
  <2> QED
    BY <1>1, <2>2
<1> QED
  BY <1>2, <1>3

LEMMA SentKeepsTInv ==
  ASSUME TInv, NEW r \in Requests, NEW c \in Clubs, NEW wants, NEW batch \in BOOLEAN,
         NEW answer \in {None, "invalid", "exists", "denied"},
         answer = None => wants \subseteq Nat \ {0} /\ Bounded(wants),
         Sent(r, c, wants, batch, answer)
  PROVE  TInv'
<1>1. seats' = seats /\ active' = active
  BY DEF Sent
<1>2. /\ req' = [req EXCEPT ![r] = req'[r]]
      /\ req'[r] \in [club : Clubs \union {None}, wants : SUBSET (Nat \ {0}),
                      batch : BOOLEAN, open : BOOLEAN, answer : Answers]
      /\ Bounded(req'[r].wants)
      /\ req'[r].open => req'[r].club \in Clubs /\ req'[r].answer = None
  BY DEF Sent, TInv, TypeOK, Answers, Bounded
<1>3. TypeOK'
  BY <1>1, <1>2 DEF TInv, TypeOK
<1>4. \A q \in Requests :
        /\ Bounded(req'[q].wants)
        /\ req'[q].open => req'[q].club \in Clubs /\ req'[q].answer = None
  BY <1>2 DEF TInv, TypeOK
<1> QED
  BY <1>1, <1>3, <1>4 DEF TInv, NumbersOf, Bounded

LEMMA EndKeepsRequests ==
  ASSUME TInv, NEW r \in Requests, NEW a \in {"done", "error"}, End(r, a)
  PROVE  /\ req' \in [Requests -> [club : Clubs \union {None}, wants : SUBSET (Nat \ {0}),
                                   batch : BOOLEAN, open : BOOLEAN, answer : Answers]]
         /\ \A q \in Requests :
              /\ req'[q].wants = req[q].wants /\ req'[q].club = req[q].club
              /\ req'[q].batch = req[q].batch
         /\ \A q \in Requests \ {r} : req'[q] = req[q]
         /\ ~ req'[r].open /\ req'[r].answer = a
BY DEF TInv, TypeOK, End, Answers

LEMMA InsertKeepsTInv ==
  ASSUME TInv, NEW r \in Requests, req[r].open, Inserted(r), UNCHANGED active
  PROVE  TInv'
<1>1. /\ req' \in [Requests -> [club : Clubs \union {None}, wants : SUBSET (Nat \ {0}),
                                batch : BOOLEAN, open : BOOLEAN, answer : Answers]]
      /\ \A q \in Requests : req'[q].wants = req[q].wants /\ req'[q].club = req[q].club
      /\ \A q \in Requests \ {r} : req'[q] = req[q]
      /\ ~ req'[r].open
  BY EndKeepsRequests DEF Inserted
<1>2. Rows(r, req[r].wants) \subseteq [club : Clubs, number : Nat \ {0}, of : Requests]
  BY DEF Rows, TInv, TypeOK
<1>3. seats' \subseteq [club : Clubs, number : Nat \ {0}, of : Requests]
  BY <1>2 DEF Inserted, TInv, TypeOK
<1>4. TypeOK'
  BY <1>1, <1>3 DEF TInv, TypeOK
<1>5. ASSUME NEW c \in Clubs PROVE Bounded(NumbersOf(c)')
  <2>1. PICK b \in Nat : \A n \in NumbersOf(c) : n <= b
    BY DEF TInv, Bounded
  <2>2. PICK d \in Nat : \A n \in req[r].wants : n <= d
    BY DEF TInv, Bounded
  <2>3. NumbersOf(c)' \subseteq NumbersOf(c) \union req[r].wants
    BY DEF Inserted, Rows, NumbersOf
  <2>4. NumbersOf(c) \subseteq Nat /\ req[r].wants \subseteq Nat
    BY DEF TInv, TypeOK, NumbersOf
  <2>5. \A n \in NumbersOf(c)' : n <= b + d
    BY <2>1, <2>2, <2>3, <2>4
  <2> QED
    BY <2>5 DEF Bounded
<1> QED
  BY <1>1, <1>4, <1>5 DEF TInv

(* At the start there are no numbers.                                      *)
THEOREM InitTInv == Init => TInv
<1> SUFFICES ASSUME Init PROVE TInv
  OBVIOUS
<1>1. TypeOK
  BY DEF Init, TypeOK, NotSent, Answers
<1>2. \A c \in Clubs : NumbersOf(c) = {}
  BY DEF Init, NumbersOf
<1>3. \A r \in Requests : req[r].wants = {} /\ ~ req[r].open
  BY DEF Init, NotSent
<1>4. Bounded({})
  BY DEF Bounded
<1> QED
  BY <1>1, <1>2, <1>3, <1>4 DEF TInv

(* Every step keeps the types and the bounds.                              *)
THEOREM StepTInv == TInv /\ [Next]_vars => TInv'
<1> SUFFICES ASSUME TInv, [Next]_vars PROVE TInv'
  OBVIOUS
<1>1. ASSUME NEW r \in Requests, NEW c \in Clubs, NEW n \in Counts, AddComputers(r, c, n)
      PROVE  TInv'
  <2> DEFINE answer == IF n \in 1 .. MaxCount THEN None ELSE "invalid"
             wants == {LastNumber(c) + i : i \in 1 .. n}
  <2>1. LastNumber(c) \in Nat /\ n \in Int
    BY LastNumberIsLargest, SeatNumbersAssumption
  <2>2. answer = None => wants \subseteq Nat \ {0} /\ Bounded(wants)
    <3>1. SUFFICES ASSUME n \in 1 .. MaxCount PROVE wants \subseteq Nat \ {0} /\ Bounded(wants)
      BY SeatNumbersAssumption
    <3>2. LastNumber(c) + n \in Nat /\ \A i \in wants : i <= LastNumber(c) + n
      BY <2>1, <3>1
    <3> QED
      BY <2>1, <3>2 DEF Bounded
  <2>3. Sent(r, c, wants, TRUE, answer)
    BY <1>1 DEF AddComputers
  <2> HIDE DEF wants
  <2> QED
    BY <2>2, <2>3, SentKeepsTInv
<1>2. ASSUME NEW r \in Requests, NEW c \in Clubs, NEW n \in Numbers, AddComputer(r, c, n)
      PROVE  TInv'
  <2> DEFINE answer == IF n < 1 THEN "invalid" ELSE IF n \in NumbersOf(c) THEN "exists" ELSE None
  <2>1. answer = None => {n} \subseteq Nat \ {0} /\ Bounded({n})
    BY SeatNumbersAssumption DEF Bounded
  <2> QED
    BY <1>2, <2>1, SentKeepsTInv DEF AddComputer
<1>3. ASSUME NEW r \in Requests, NEW c \in Clubs, DenyComputers(r, c)
      PROVE  TInv'
  BY <1>3, SentKeepsTInv, SeatNumbersAssumption DEF DenyComputers
<1>4. ASSUME NEW r \in Requests, req[r].open, End(r, "error"), UNCHANGED <<seats, active>>
      PROVE  TInv'
  BY <1>4, EndKeepsRequests DEF TInv, TypeOK, NumbersOf, Bounded
<1>5. ASSUME NEW r \in Requests, Commit(r) PROVE TInv'
  BY <1>4, <1>5, InsertKeepsTInv DEF Commit, Rejected
<1>6. ASSUME NEW c \in Clubs, Moderate(c), UNCHANGED <<seats, req>> PROVE TInv'
  BY <1>6 DEF Moderate, TInv, TypeOK, NumbersOf, Bounded
<1>7. CASE UNCHANGED vars
  BY <1>7 DEF vars, TInv, TypeOK, NumbersOf, Bounded
<1> QED
  BY <1>1, <1>2, <1>3, <1>4, <1>5, <1>6, <1>7 DEF Next, CommitFails

(* Requests, answers and rows keep their types.                            *)
THEOREM TypeOKHolds == Spec => []TypeOK
<1>1. TInv => TypeOK
  BY DEF TInv
<1> QED
  BY InitTInv, StepTInv, <1>1, PTL DEF Spec

-----------------------------------------------------------------------------
(* An open batch continues from a number up to which all numbers are used. *)
OnlyBatches == \A r \in Requests : req[r].answer = "done" => req[r].batch

UpTo(c, k) == NumbersOf(c) = 1 .. k

ContinuesFrom(r, m, n) ==
  m < n /\ req[r].wants = m + 1 .. n /\ 1 .. m \subseteq NumbersOf(req[r].club)

BInv ==
  OnlyBatches =>
    /\ \A c \in Clubs : \E k \in Nat : UpTo(c, k)
    /\ \A r \in Requests : req[r].open /\ req[r].batch =>
         \E m, n \in Nat : ContinuesFrom(r, m, n)

LEMMA InitBInv == Init => BInv
<1> SUFFICES ASSUME Init PROVE BInv
  OBVIOUS
<1>1. \A c \in Clubs : UpTo(c, 0)
  BY DEF Init, UpTo, NumbersOf
<1> QED
  BY <1>1 DEF Init, BInv, NotSent

(* What was sent before stays as it is.                                    *)
LEMMA SentKeepsBInv ==
  ASSUME TInv, BInv, NEW r \in Requests, NEW c \in Clubs, NEW wants, NEW batch \in BOOLEAN,
         NEW answer \in {None, "invalid", "exists", "denied"},
         Sent(r, c, wants, batch, answer),
         answer = None /\ batch /\ OnlyBatches => 
           \E m, n \in Nat : m < n /\ wants = m + 1 .. n /\ 1 .. m \subseteq NumbersOf(c)
  PROVE  BInv'
<1> SUFFICES ASSUME OnlyBatches' PROVE BInv'
  BY DEF BInv
<1>1. /\ seats' = seats
      /\ \A q \in Requests \ {r} : req'[q] = req[q]
      /\ req'[r] = [club |-> c, batch |-> batch, open |-> answer = None, answer |-> answer,
                   wants |-> IF answer = None THEN wants ELSE {}]
  BY DEF Sent, TInv, TypeOK
<1>2. req'[r].open = (answer = None) /\ req'[r].batch = batch
  BY DEF Sent, TInv, TypeOK
<1>3. req[r].answer = None
  BY DEF Sent, NotSent
<1>4. OnlyBatches
  BY <1>1, <1>3, SeatNumbersAssumption DEF OnlyBatches
<1>5. \A d \in Clubs : \E k \in Nat : UpTo(d, k)'
  BY <1>1, <1>4 DEF BInv, UpTo, NumbersOf
<1>6. ASSUME NEW q \in Requests, req'[q].open, req'[q].batch
      PROVE  \E m, n \in Nat : ContinuesFrom(q, m, n)'
  <2>1. CASE q = r
    <3>1. answer = None /\ batch
      BY <1>2, <1>6, <2>1
    <3>2. PICK m, n \in Nat : m < n /\ wants = m + 1 .. n /\ 1 .. m \subseteq NumbersOf(c)
      BY <1>4, <3>1
    <3>3. NumbersOf(c)' = NumbersOf(c)
      BY <1>1 DEF NumbersOf
    <3>4. ContinuesFrom(q, m, n)'
      BY <1>1, <2>1, <3>1, <3>2, <3>3 DEF ContinuesFrom
    <3> QED
      BY <3>4
  <2>2. CASE q # r
    <3>1. req'[q] = req[q]
      BY <1>1, <2>2
    <3>2. PICK m, n \in Nat : ContinuesFrom(q, m, n)
      BY <1>4, <1>6, <3>1 DEF BInv
    <3>3. ContinuesFrom(q, m, n)'
      BY <1>1, <3>1, <3>2 DEF ContinuesFrom, NumbersOf
    <3> QED
      BY <3>3
  <2> QED
    BY <2>1, <2>2
<1> QED
  BY <1>5, <1>6 DEF BInv

(* Whoever ends with an error was no reason to doubt that all are batches. *)
LEMMA ErrorKeepsBInv ==
  ASSUME TInv, BInv, NEW r \in Requests, req[r].open, End(r, "error"), UNCHANGED seats
  PROVE  BInv'
<1> SUFFICES ASSUME OnlyBatches' PROVE BInv'
  BY DEF BInv
<1>1. /\ \A q \in Requests : /\ req'[q].wants = req[q].wants /\ req'[q].club = req[q].club
                             /\ req'[q].batch = req[q].batch
      /\ \A q \in Requests \ {r} : req'[q] = req[q]
      /\ ~ req'[r].open
  BY EndKeepsRequests
<1>2. OnlyBatches
  BY <1>1, SeatNumbersAssumption DEF OnlyBatches, TInv
<1>3. \A d \in Clubs : \E k \in Nat : UpTo(d, k)'
  BY <1>2 DEF BInv, UpTo, NumbersOf
<1>4. \A q \in Requests : req'[q].open => q # r /\ req[q].open
  BY <1>1
<1>5. ASSUME NEW q \in Requests, req'[q].open, req'[q].batch
      PROVE  \E m, n \in Nat : ContinuesFrom(q, m, n)'
  <2>1. PICK m, n \in Nat : ContinuesFrom(q, m, n)
    BY <1>1, <1>2, <1>4, <1>5 DEF BInv
  <2>2. ContinuesFrom(q, m, n)'
    BY <1>1, <2>1 DEF ContinuesFrom, NumbersOf
  <2> QED
    BY <2>2
<1> QED
  BY <1>3, <1>5 DEF BInv

(* The constraint lets a batch in only if it continues from the last       *)
(* number: one that read an older one would meet a number that is used.    *)
LEMMA InsertKeepsBInv ==
  ASSUME TInv, BInv, NEW r \in Requests, req[r].open, ~ Collides(r), Inserted(r)
  PROVE  BInv'
<1> SUFFICES ASSUME OnlyBatches' PROVE BInv'
  BY DEF BInv
<1>1. /\ \A q \in Requests : /\ req'[q].wants = req[q].wants /\ req'[q].club = req[q].club
                             /\ req'[q].batch = req[q].batch
      /\ \A q \in Requests \ {r} : req'[q] = req[q]
      /\ ~ req'[r].open /\ req'[r].answer = "done"
  BY EndKeepsRequests DEF Inserted
<1>2. OnlyBatches /\ req[r].batch
  BY <1>1, SeatNumbersAssumption DEF OnlyBatches, TInv
<1>3. PICK c \in Clubs : c = req[r].club
  BY DEF TInv
<1>4. /\ NumbersOf(c)' = NumbersOf(c) \union req[r].wants
      /\ \A d \in Clubs \ {c} : NumbersOf(d)' = NumbersOf(d)
  <2>1. \A s : s \in Rows(r, req[r].wants) => s.club = c /\ s.number \in req[r].wants
    BY <1>3 DEF Rows
  <2>2. ASSUME NEW n \in req[r].wants PROVE \E s \in Rows(r, req[r].wants) : s.number = n
    <3>1. [club |-> req[r].club, number |-> n, of |-> r] \in Rows(r, req[r].wants)
      BY DEF Rows
    <3> QED
      BY <3>1
  <2>3. seats' = seats \union Rows(r, req[r].wants)
    BY DEF Inserted
  <2>4. ASSUME NEW d \in Clubs, d # c PROVE NumbersOf(d)' = NumbersOf(d)
    BY <2>1, <2>3, <2>4 DEF NumbersOf
  <2>5. NumbersOf(c)' \subseteq NumbersOf(c) \union req[r].wants
    BY <2>1, <2>3 DEF NumbersOf
  <2>6. NumbersOf(c) \subseteq NumbersOf(c)'
    BY <2>3 DEF NumbersOf
  <2>7. req[r].wants \subseteq NumbersOf(c)'
    BY <2>1, <2>2, <2>3 DEF NumbersOf
  <2> QED
    BY <2>4, <2>5, <2>6, <2>7
<1>5. PICK m, n \in Nat : ContinuesFrom(r, m, n)
  BY <1>2 DEF BInv
<1>6. PICK k \in Nat : UpTo(c, k)
  BY <1>2, <1>3 DEF BInv
<1>7. m = k
  <2>1. m < n /\ 1 .. m \subseteq 1 .. k /\ (m + 1 .. n) \intersect (1 .. k) = {}
    BY <1>3, <1>5, <1>6 DEF ContinuesFrom, UpTo, Collides
  <2>2. m <= k
    BY <2>1
  <2>3. m + 1 \notin 1 .. k
    BY <2>1
  <2> QED
    BY <2>2, <2>3
<1>8. UpTo(c, n)'
  BY <1>3, <1>4, <1>5, <1>6, <1>7 DEF UpTo, ContinuesFrom
<1>9. \A d \in Clubs : \E j \in Nat : UpTo(d, j)'
  BY <1>2, <1>4, <1>8 DEF BInv, UpTo
<1>10. ASSUME NEW q \in Requests, req'[q].open, req'[q].batch
       PROVE  \E i, j \in Nat : ContinuesFrom(q, i, j)'
  <2>1. q # r /\ req[q].open /\ req[q].batch /\ req'[q] = req[q]
    BY <1>1, <1>10
  <2>2. PICK i, j \in Nat : ContinuesFrom(q, i, j)
    BY <1>2, <2>1 DEF BInv
  <2>3. PICK d \in Clubs : d = req[q].club
    BY <2>1 DEF TInv
  <2>4. NumbersOf(d) \subseteq NumbersOf(d)'
    BY <1>4
  <2>5. ContinuesFrom(q, i, j)'
    BY <2>1, <2>2, <2>3, <2>4 DEF ContinuesFrom
  <2> QED
    BY <2>5
<1> QED
  BY <1>9, <1>10 DEF BInv

(* Every step keeps the numbers of batches consecutive.                    *)
THEOREM StepBInv == TInv /\ BInv /\ [Next]_vars => BInv'
<1> SUFFICES ASSUME TInv, BInv, [Next]_vars PROVE BInv'
  OBVIOUS
<1>1. ASSUME NEW r \in Requests, NEW c \in Clubs, NEW n \in Counts, AddComputers(r, c, n)
      PROVE  BInv'
  <2> DEFINE answer == IF n \in 1 .. MaxCount THEN None ELSE "invalid"
             wants == {LastNumber(c) + i : i \in 1 .. n}
  <2>1. ASSUME answer = None, OnlyBatches
        PROVE  \E i, j \in Nat : i < j /\ wants = i + 1 .. j /\ 1 .. i \subseteq NumbersOf(c)
    <3>1. n \in 1 .. MaxCount
      BY <2>1, SeatNumbersAssumption
    <3>2. PICK k \in Nat : NumbersOf(c) = 1 .. k
      BY <2>1 DEF BInv, UpTo
    <3>3. LastNumber(c) = k
      <4>1. CASE k = 0
        BY <3>2, <4>1 DEF LastNumber
      <4>2. CASE k # 0
        <5>1. NumbersOf(c) # {} /\ k \in NumbersOf(c)
          BY <3>2, <4>2
        <5>2. LastNumber(c) \in NumbersOf(c) /\ \A m \in NumbersOf(c) : m <= LastNumber(c)
          <6>1. \E x \in NumbersOf(c) : \A m \in NumbersOf(c) : m <= x
            BY <3>2, <5>1
          <6> QED
            BY <5>1, <6>1 DEF LastNumber
        <5> QED
          BY <3>2, <5>1, <5>2
      <4> QED
        BY <4>1, <4>2
    <3>4. k < k + n /\ k + n \in Nat /\ wants = k + 1 .. k + n
      BY <3>1, <3>3
    <3> QED
      BY <3>2, <3>4
  <2>2. Sent(r, c, wants, TRUE, answer)
    BY <1>1 DEF AddComputers
  <2> HIDE DEF wants
  <2> QED
    BY <2>1, <2>2, SentKeepsBInv
<1>2. ASSUME NEW r \in Requests, NEW c \in Clubs, NEW n \in Numbers, AddComputer(r, c, n)
      PROVE  BInv'
  BY <1>2, SentKeepsBInv DEF AddComputer
<1>3. ASSUME NEW r \in Requests, NEW c \in Clubs, DenyComputers(r, c)
      PROVE  BInv'
  BY <1>3, SentKeepsBInv DEF DenyComputers
<1>4. ASSUME NEW r \in Requests, Commit(r) PROVE BInv'
  BY <1>4, InsertKeepsBInv, ErrorKeepsBInv DEF Commit, Rejected
<1>5. ASSUME NEW r \in Requests, CommitFails(r) PROVE BInv'
  BY <1>5, ErrorKeepsBInv DEF CommitFails
<1>6. CASE UNCHANGED <<seats, req>>
  BY <1>6 DEF BInv, OnlyBatches, UpTo, ContinuesFrom, NumbersOf
<1> QED
  BY <1>1, <1>2, <1>3, <1>4, <1>5, <1>6 DEF Next, vars

(* Distinct rows have distinct numbers, so that there are as many rows as  *)
(* numbers.                                                                *)
LEMMA RowsAreCounted ==
  ASSUME NumbersAreUnique, NEW c \in Clubs, NEW k \in Nat, UpTo(c, k)
  PROVE  Cardinality({s \in seats : s.club = c}) = k
<1> DEFINE rows == {s \in seats : s.club = c}
           row == [n \in 1 .. k |-> CHOOSE s \in rows : s.number = n]
<1>1. \A n \in 1 .. k : \E s \in rows : s.number = n
  BY DEF UpTo, NumbersOf
<1>2. \A n \in 1 .. k : row[n] \in rows /\ row[n].number = n
  BY <1>1
<1>3. \A s \in rows : s.number \in 1 .. k /\ row[s.number] = s
  <2>1. \A s \in rows : s.number \in 1 .. k
    BY DEF UpTo, NumbersOf
  <2> QED
    BY <1>2, <2>1 DEF NumbersAreUnique
<1>4. row \in [1 .. k -> rows]
  BY <1>2
<1> HIDE DEF row, rows
<1>5. row \in Bijection(1 .. k, rows)
  BY <1>2, <1>3, <1>4, Fun_IsBij
<1> QED
  BY <1>5, FS_CountingElements DEF ExistsBijection, rows

(* As long as computers are added in batches, a club's are numbered        *)
(* 1, 2, 3 and so on, whatever overlaps or fails (admin.py:380).           *)
THEOREM BatchesAreConsecutiveHolds == Spec => []BatchesAreConsecutive
<1>1. IInv /\ BInv => BatchesAreConsecutive
  BY RowsAreCounted DEF IInv, BInv, OnlyBatches, BatchesAreConsecutive, UpTo
<1> QED
  BY InitIInv, StepIInv, InitTInv, StepTInv, InitBInv, StepBInv, <1>1, PTL DEF Spec

-----------------------------------------------------------------------------
(* What the other forms do is a stutter for the computers.                 *)
THEOREM FormsImplementSeatNumbers == FormsSpec => Spec
<1>1. FormsInit => Init
  BY DEF FormsInit
<1>2. [FormsNext]_formsVars => [Next]_vars
  <2>1. ASSUME NEW r \in Requests, SeatForm(r) PROVE Next
    BY <2>1 DEF SeatForm, Next
  <2>2. ASSUME NEW r \in Requests, IntegrationForm(r) \/ GoodsForm(r) \/ ReviewForm(r)
        PROVE  UNCHANGED vars
    BY <2>2 DEF IntegrationForm, GoodsForm, ReviewForm
  <2>3. ASSUME NEW c \in Clubs, ModerateClub(c) PROVE Next
    BY <2>3 DEF ModerateClub, Next
  <2>4. UNCHANGED formsVars => UNCHANGED vars
    BY DEF formsVars
  <2> QED
    BY <2>1, <2>2, <2>3, <2>4 DEF FormsNext
<1> QED
  BY <1>1, <1>2, PTL DEF FormsSpec, Spec

(* What is proved of computers holds whatever else is sent.                *)
THEOREM ComputersAmongForms ==
  FormsSpec => [](TypeOK /\ AllOrNothing /\ BatchesAreConsecutive)
BY FormsImplementSeatNumbers, TypeOKHolds, AllOrNothingHolds,
   BatchesAreConsecutiveHolds, PTL

-----------------------------------------------------------------------------
FormType ==
  [op : {"save", "test", None}, club : Clubs \union {None},
   sent : Settings \union {None}, read : Row \union {None},
   phase : {"unsent", "find", "check", "write", "touch", "ended"},
   result : Status,
   answer : Status \union {"saved", "invalid", "denied", "not_configured", "error"}]

(* A row that was read is still there, since nothing deletes one; a test   *)
(* has read one, and what a save was sent has an address.                  *)
ReadInv(r) ==
  /\ form[r].phase \in {"find", "write", "check", "touch"} => form[r].club \in Clubs
  /\ form[r].phase = "find" => form[r].op \in {"save", "test"}
  /\ form[r].phase = "find" /\ form[r].op = "save" => form[r].sent \in Settings
  /\ form[r].phase = "write" => form[r].sent \in Settings
  /\ form[r].phase \in {"check", "touch"} => form[r].read # None
  /\ form[r].read # None =>
       form[r].club \in Clubs /\ integration[form[r].club] # None

SettingsInv ==
  /\ IntegrationType
  /\ \A r \in Requests : ReadInv(r)
  /\ \A c \in Clubs : saved[c] # None => integration[c] # None
  /\ SavedSettingsStay

(* Nothing is saved.                                                       *)
THEOREM InitSettingsInv == IntegrationInit => SettingsInv
<1> SUFFICES ASSUME IntegrationInit PROVE SettingsInv
  OBVIOUS
<1>1. /\ form \in [Requests -> {NoForm}]
      /\ integration \in [Clubs -> {None}] /\ saved \in [Clubs -> {None}]
  BY DEF IntegrationInit
<1>2. NoForm \in FormType
  BY DEF NoForm, FormType, Status
<1>3. IntegrationType
  BY <1>1, <1>2 DEF IntegrationType, FormType
<1>4. \A r \in Requests : ReadInv(r)
  BY <1>1 DEF ReadInv, NoForm
<1> QED
  BY <1>1, <1>3, <1>4 DEF SettingsInv, SavedSettingsStay

(* A request that writes no row only has to keep its own record in order.  *)
LEMMA FormKeepsSettingsInv ==
  ASSUME SettingsInv, NEW r \in Requests, UNCHANGED <<integration, saved>>,
         form' = [form EXCEPT ![r] = form'[r]],
         form'[r] \in FormType,
         ReadInv(r)'
  PROVE  SettingsInv'
<1>1. IntegrationType'
  BY DEF SettingsInv, IntegrationType, FormType
<1>2. \A q \in Requests : ReadInv(q)'
  BY DEF SettingsInv, IntegrationType, ReadInv
<1> QED
  BY <1>1, <1>2 DEF SettingsInv, SavedSettingsStay

LEMMA EndKeepsSettingsInv ==
  ASSUME SettingsInv, NEW r \in Requests, UNCHANGED <<integration, saved>>,
         NEW a \in Status \union {"saved", "invalid", "denied", "not_configured", "error"},
         EndForm(r, a)
  PROVE  SettingsInv'
<1>1. /\ form' = [form EXCEPT ![r] = form'[r]]
      /\ form'[r] = [form[r] EXCEPT !.phase = "ended", !.answer = a]
  BY DEF EndForm, SettingsInv, IntegrationType
<1>2. ReadInv(r)'
  BY <1>1 DEF SettingsInv, ReadInv, IntegrationType
<1> QED
  BY <1>1, <1>2, FormKeepsSettingsInv DEF SettingsInv, IntegrationType, FormType

(* A form is sent, and refused at once or not.                             *)
LEMMA SendKeepsSettingsInv ==
  ASSUME SettingsInv, NEW r \in Requests, NEW c \in Clubs,
         SendTest(r, c) \/ DenyForm(r, c) \/ \E s \in Settings : SendSave(r, c, s)
  PROVE  SettingsInv'
<1> USE DEF SettingsInv, IntegrationType
<1>1. ASSUME SendTest(r, c) PROVE SettingsInv'
  <2>1. /\ form' = [form EXCEPT ![r] = form'[r]]
        /\ form'[r] = [op |-> "test", club |-> c, sent |-> None, read |-> None,
                      phase |-> "find", result |-> None, answer |-> None]
    BY <1>1 DEF SendTest, NoForm
  <2>2. form'[r] \in FormType /\ ReadInv(r)'
    BY <2>1 DEF FormType, ReadInv, Status
  <2> QED
    BY <1>1, <2>1, <2>2, FormKeepsSettingsInv DEF SendTest
<1>2. ASSUME DenyForm(r, c) PROVE SettingsInv'
  <2>1. /\ form' = [form EXCEPT ![r] = form'[r]]
        /\ form'[r] = [op |-> None, club |-> c, sent |-> None, read |-> None,
                      phase |-> "ended", result |-> None, answer |-> "denied"]
    BY <1>2 DEF DenyForm, NoForm
  <2>2. form'[r] \in FormType /\ ReadInv(r)'
    BY <2>1 DEF FormType, ReadInv, Status
  <2> QED
    BY <1>2, <2>1, <2>2, FormKeepsSettingsInv DEF DenyForm
<1>3. ASSUME NEW s \in Settings, SendSave(r, c, s) PROVE SettingsInv'
  <2>1. /\ form' = [form EXCEPT ![r] = form'[r]]
        /\ \/ form'[r] = [op |-> "save", club |-> c, sent |-> s, read |-> None,
                         phase |-> "ended", result |-> None, answer |-> "invalid"]
           \/ form'[r] = [op |-> "save", club |-> c, sent |-> s, read |-> None,
                         phase |-> "find", result |-> None, answer |-> None]
    BY <1>3 DEF SendSave, NoForm
  <2>2. form'[r] \in FormType /\ ReadInv(r)'
    BY <2>1 DEF FormType, ReadInv, Status
  <2> QED
    BY <1>3, <2>1, <2>2, FormKeepsSettingsInv DEF SendSave
<1> QED
  BY <1>1, <1>2, <1>3

(* The row is read, or the outside system has answered.                    *)
LEMMA ReadKeepsSettingsInv ==
  ASSUME SettingsInv, NEW r \in Requests, FindIntegration(r) \/ CheckIntegration(r)
  PROVE  SettingsInv'
<1> DEFINE row == integration[form[r].club]
<1>1. ASSUME FindIntegration(r), form[r].op = "test", row = None PROVE SettingsInv'
  BY <1>1, EndKeepsSettingsInv DEF FindIntegration
<1>2. ASSUME FindIntegration(r), ~ (form[r].op = "test" /\ row = None) PROVE SettingsInv'
  <2>1. form[r].phase = "find" /\ form[r].club \in Clubs /\ row \in Row \union {None}
    BY <1>2 DEF FindIntegration, SettingsInv, ReadInv, IntegrationType
  <2>2. /\ form' = [form EXCEPT ![r] = form'[r]]
        /\ form'[r] = [form[r] EXCEPT !.read = row,
                         !.phase = IF form[r].op = "save" THEN "write" ELSE "check"]
    BY <1>2, <2>1 DEF FindIntegration, SettingsInv, IntegrationType
  <2>3. form'[r] \in FormType
    <3>1. form[r] \in FormType
      BY DEF FormType, SettingsInv, IntegrationType
    <3>2. \A p \in {"write", "check"} : [form[r] EXCEPT !.read = row, !.phase = p] \in FormType
      BY <2>1, <3>1 DEF FormType
    <3> QED
      BY <2>2, <3>2
  <2>4. UNCHANGED <<integration, saved>>
    BY <1>2 DEF FindIntegration
  <2>5. ReadInv(r)'
    BY <1>2, <2>1, <2>2, <2>4 DEF ReadInv, SettingsInv, IntegrationType
  <2> QED
    BY <2>2, <2>3, <2>4, <2>5, FormKeepsSettingsInv
<1>3. ASSUME NEW result \in {"ok", "failed"}, form[r].phase = "check",
             form' = [form EXCEPT ![r].phase = "touch", ![r].result = result],
             UNCHANGED <<integration, saved>>
      PROVE  SettingsInv'
  <2>1. /\ form' = [form EXCEPT ![r] = form'[r]]
        /\ form'[r] = [form[r] EXCEPT !.phase = "touch", !.result = result]
    BY <1>3 DEF SettingsInv, IntegrationType
  <2>2. form'[r] \in FormType
    BY <2>1 DEF FormType, SettingsInv, IntegrationType, Status
  <2>3. ReadInv(r)'
    BY <1>3, <2>1 DEF ReadInv, SettingsInv, IntegrationType
  <2> QED
    BY <1>3, <2>1, <2>2, <2>3, FormKeepsSettingsInv
<1>4. ASSUME CheckIntegration(r) PROVE SettingsInv'
  BY <1>3, <1>4, EndKeepsSettingsInv DEF CheckIntegration
<1> QED
  BY <1>1, <1>2, <1>4

(* A save or a test writes the row of its club, and ends.                  *)
LEMMA WriteKeepsSettingsInv ==
  ASSUME SettingsInv, NEW r \in Requests, NEW c \in Clubs, NEW row \in Row,
         NEW s \in Settings \union {None},
         NEW a \in Status \union {"saved", "error"}, EndForm(r, a),
         integration' = [integration EXCEPT ![c] = row],
         saved' = [saved EXCEPT ![c] = s],
         s # None => SettingsOf(row) = s
  PROVE  SettingsInv'
<1>1. /\ form' = [form EXCEPT ![r] = form'[r]]
      /\ form'[r] = [form[r] EXCEPT !.phase = "ended", !.answer = a]
  BY DEF EndForm, SettingsInv, IntegrationType
<1>2. form'[r] \in FormType
  BY <1>1 DEF FormType, SettingsInv, IntegrationType
<1>3. IntegrationType'
  BY <1>1, <1>2 DEF SettingsInv, IntegrationType, FormType
<1>4. /\ \A d \in Clubs : integration[d] # None => integration'[d] # None
      /\ integration'[c] = row /\ row # None /\ saved'[c] = s
      /\ \A d \in Clubs \ {c} : integration'[d] = integration[d] /\ saved'[d] = saved[d]
  BY IntegrationsAssumption DEF SettingsInv, IntegrationType
<1>5. ASSUME NEW q \in Requests PROVE ReadInv(q)'
  <2>1. CASE q = r
    <3>1. form'[q].phase = "ended" /\ form'[q].read = form[q].read /\ form'[q].club = form[q].club
      <4>1. form[r] \in FormType
        BY DEF FormType, SettingsInv, IntegrationType
      <4> QED
        BY <1>1, <2>1, <4>1 DEF FormType
    <3>2. form[q].read # None => form[q].club \in Clubs /\ integration[form[q].club] # None
      BY DEF SettingsInv, ReadInv
    <3> QED
      BY <1>4, <3>1, <3>2 DEF ReadInv
  <2>2. CASE q # r
    <3>1. form'[q] = form[q]
      BY <1>1, <2>2 DEF SettingsInv, IntegrationType
    <3>2. ReadInv(q)
      BY DEF SettingsInv
    <3> QED
      BY <1>4, <3>1, <3>2 DEF ReadInv
  <2> QED
    BY <2>1, <2>2
<1>6. SavedSettingsStay'
  BY <1>4 DEF SettingsInv, SavedSettingsStay, SettingsOf
<1> QED
  BY <1>3, <1>4, <1>5, <1>6 DEF SettingsInv

(* The columns that a save does not write already have what it was sent,   *)
(* unless another save came between; a test writes the status only.        *)
LEMMA CommitKeepsSettingsInv ==
  ASSUME SettingsInv, NEW r \in Requests,
         SaveIntegration(r) \/ TouchStatus(r) \/ IntegrationFails(r)
  PROVE  SettingsInv'
<1> DEFINE q == form[r]
           row == integration[q.club]
<1>1. ASSUME SaveIntegration(r), q.read = None PROVE SettingsInv'
  <2>1. q.club \in Clubs /\ q.sent \in Settings /\ q.sent # None
    BY <1>1, IntegrationsAssumption DEF SaveIntegration, SettingsInv, ReadInv
  <2>2. CASE row # None
    BY <1>1, <2>2, EndKeepsSettingsInv DEF SaveIntegration, InsertIntegration
  <2>3. CASE row = None
    <3> DEFINE new == [url |-> q.sent.url, secret |-> q.sent.secret, status |-> None]
    <3>1. new \in Row /\ SettingsOf(new) = q.sent
      BY <2>1 DEF Row, Settings, SettingsOf, Status
    <3>2. /\ integration' = [integration EXCEPT ![q.club] = new]
          /\ saved' = [saved EXCEPT ![q.club] = q.sent]
          /\ EndForm(r, "saved")
      BY <1>1, <2>3 DEF SaveIntegration, InsertIntegration
    <3> HIDE DEF new
    <3> QED
      BY <2>1, <3>1, <3>2, WriteKeepsSettingsInv
  <2> QED
    BY <2>2, <2>3
<1>2. ASSUME SaveIntegration(r), q.read # None PROVE SettingsInv'
  <2>1. /\ q.club \in Clubs /\ q.sent \in Settings
        /\ row \in Row /\ q.read \in Row
    BY <1>2 DEF SaveIntegration, SettingsInv, ReadInv, IntegrationType
  <2> DEFINE new == [url |-> Written(row.url, q.read.url, q.sent.url),
                     secret |-> Written(row.secret, q.read.secret, q.sent.secret),
                     status |-> row.status]
             s == IF SettingsOf(row) = SettingsOf(q.read) THEN q.sent ELSE None
  <2>2. new \in Row /\ s \in Settings \union {None}
    BY <2>1 DEF Row, Settings, Written
  <2>3. s # None => SettingsOf(new) = s
    <3>1. SUFFICES ASSUME SettingsOf(row) = SettingsOf(q.read) PROVE SettingsOf(new) = q.sent
      OBVIOUS
    <3>2. row.url = q.read.url /\ row.secret = q.read.secret
      BY <3>1 DEF SettingsOf
    <3> QED
      BY <2>1, <3>2 DEF SettingsOf, Written, Settings
  <2>4. integration' = [integration EXCEPT ![q.club] = new]
    BY <1>2, <2>1 DEF SaveIntegration, UpdateIntegration, Row, SettingsInv, IntegrationType
  <2>5. saved' = [saved EXCEPT ![q.club] = s] /\ EndForm(r, "saved")
    BY <1>2 DEF SaveIntegration, UpdateIntegration
  <2> HIDE DEF new, s
  <2> QED
    BY <2>1, <2>2, <2>3, <2>4, <2>5, WriteKeepsSettingsInv
<1>3. ASSUME TouchStatus(r) PROVE SettingsInv'
  <2>1. /\ q.club \in Clubs /\ row \in Row /\ q.read \in Row
        /\ q.result \in Status
    BY <1>3 DEF TouchStatus, SettingsInv, ReadInv, IntegrationType
  <2> DEFINE st == Written(row.status, q.read.status, q.result)
             new == [url |-> row.url, secret |-> row.secret, status |-> st]
  <2>2. new \in Row /\ SettingsOf(new) = SettingsOf(row)
    BY <2>1 DEF Row, Written, SettingsOf
  <2>3. integration' = [integration EXCEPT ![q.club] = new]
    <3>1. integration' = [integration EXCEPT ![q.club].status = st]
      BY <1>3 DEF TouchStatus
    <3> HIDE DEF st
    <3>2. integration' = [integration EXCEPT ![q.club] = [row EXCEPT !.status = st]]
      BY <3>1
    <3>3. [row EXCEPT !.status = st] = new
      BY <2>1 DEF Row
    <3> QED
      BY <3>2, <3>3
  <2>4. saved' = [saved EXCEPT ![q.club] = saved[q.club]] /\ EndForm(r, q.result)
    BY <1>3, <2>1 DEF TouchStatus, SettingsInv, IntegrationType
  <2>5. saved[q.club] \in Settings \union {None}
    BY <2>1 DEF SettingsInv, IntegrationType
  <2>6. saved[q.club] # None => SettingsOf(new) = saved[q.club]
    BY <2>1, <2>2 DEF SettingsInv, SavedSettingsStay
  <2> HIDE DEF new
  <2> QED
    BY <2>1, <2>2, <2>3, <2>4, <2>5, <2>6, WriteKeepsSettingsInv
<1>4. ASSUME IntegrationFails(r) PROVE SettingsInv'
  BY <1>4, EndKeepsSettingsInv DEF IntegrationFails
<1> QED
  BY <1>1, <1>2, <1>3, <1>4

(* Every form keeps the settings in order.                                 *)
THEOREM StepSettingsInv == SettingsInv /\ [FormsNext]_formsVars => SettingsInv'
<1> SUFFICES ASSUME SettingsInv, [FormsNext]_formsVars PROVE SettingsInv'
  OBVIOUS
<1>1. ASSUME UNCHANGED integrationVars PROVE SettingsInv'
  BY <1>1 DEF integrationVars, SettingsInv, IntegrationType, ReadInv, SavedSettingsStay
<1>2. ASSUME NEW r \in Requests, IntegrationForm(r) PROVE SettingsInv'
  BY <1>2, SendKeepsSettingsInv, ReadKeepsSettingsInv, CommitKeepsSettingsInv
     DEF IntegrationForm, IntegrationStep
<1>3. ASSUME NEW r \in Requests, SeatForm(r) \/ GoodsForm(r) \/ ReviewForm(r)
      PROVE  UNCHANGED integrationVars
  BY <1>3 DEF SeatForm, GoodsForm, ReviewForm
<1>4. ASSUME NEW c \in Clubs, ModerateClub(c) PROVE UNCHANGED integrationVars
  BY <1>4 DEF ModerateClub
<1> QED
  BY <1>1, <1>2, <1>3, <1>4 DEF FormsNext, formsVars

(* A connection test that ends late takes back no setting, and no column   *)
(* of an earlier save stays between those of a later one                   *)
(* (web/admin.py:747).                                                     *)
THEOREM SavedSettingsStayHolds == FormsSpec => []SavedSettingsStay
<1>1. FormsInit => SettingsInv
  BY InitSettingsInv DEF FormsInit
<1>2. SettingsInv => SavedSettingsStay
  BY DEF SettingsInv
<1> QED
  BY <1>1, <1>2, StepSettingsInv, PTL DEF FormsSpec

-----------------------------------------------------------------------------
(* What a request is about to insert has passed the checks of its form.    *)
GoodsInv ==
  /\ DOMAIN sheet = Requests
  /\ \A r \in Requests :
       /\ DOMAIN sheet[r] = DOMAIN NoSheet
       /\ sheet[r].open => sheet[r].answer # "refused"
       /\ \A row \in sheet[r].rows : MeetsConstraints(row) /\ NumberOf(row) \in Int
       /\ sheet[r].answer = "refused" =>
            \E row \in sheet[r].rows : NumberOf(row) > MaxInteger

(* There are no rows.                                                      *)
THEOREM InitGoodsInv == GoodsInit => GoodsInv
BY GoodsAssumption DEF GoodsInit, GoodsInv, NoSheet

LEMMA SendKeepsGoodsInv ==
  ASSUME GoodsInv, NEW r \in Requests, NEW valid \in BOOLEAN, NEW rows,
         SendSheet(r, valid, rows),
         valid => \A row \in rows : MeetsConstraints(row) /\ NumberOf(row) \in Int
  PROVE  GoodsInv'
<1>1. /\ sheet' = [sheet EXCEPT ![r] = sheet'[r]]
      /\ sheet'[r].rows = IF valid THEN rows ELSE {}
      /\ DOMAIN sheet'[r] = DOMAIN NoSheet
      /\ sheet'[r].answer = IF valid THEN None ELSE "invalid"
  BY DEF SendSheet, GoodsInv, NoSheet
<1>2. sheet'[r].answer # "refused"
  BY <1>1, GoodsAssumption
<1> QED
  BY <1>1, <1>2 DEF GoodsInv

LEMMA ProductFits ==
  ASSUME NEW n \in Nat
  PROVE  MeetsConstraints(Product(n)) /\ NumberOf(Product(n)) \in Int
<1>1. Product(n).table = "products" /\ Product(n).price = n
  BY DEF Product
<1> QED
  BY <1>1 DEF MeetsConstraints, NumberOf

(* Every form of the four checks what the constraints demand.              *)
LEMMA FormKeepsGoodsInv ==
  ASSUME GoodsInv, NEW r \in Requests,
         \/ \E n \in Amounts : AddProduct(r, n) \/ AddExpense(r, n)
         \/ \E n \in Amounts, paid, bonus \in Durations : AddPackage(r, n, paid, bonus)
         \/ \E cells \in SUBSET Cells : ImportProducts(r, cells)
  PROVE  GoodsInv'
<1>1. ASSUME NEW n \in Amounts, AddProduct(r, n) PROVE GoodsInv'
  <2> DEFINE valid == n >= 0
  <2>1. valid => \A row \in {Product(n)} : MeetsConstraints(row) /\ NumberOf(row) \in Int
    BY ProductFits, GoodsAssumption
  <2>2. valid \in BOOLEAN /\ SendSheet(r, valid, {Product(n)})
    BY <1>1 DEF AddProduct
  <2> HIDE DEF valid
  <2> QED
    BY <2>1, <2>2, SendKeepsGoodsInv
<1>2. ASSUME NEW n \in Amounts, AddExpense(r, n) PROVE GoodsInv'
  <2> DEFINE valid == n > 0
  <2>1. Expense(n).table = "expenses" /\ Expense(n).amount = n /\ n \in Int
    BY GoodsAssumption DEF Expense
  <2>2. valid => MeetsConstraints(Expense(n)) /\ NumberOf(Expense(n)) \in Int
    BY <2>1 DEF MeetsConstraints, NumberOf
  <2>3. valid \in BOOLEAN /\ SendSheet(r, valid, {Expense(n)})
    BY <1>2 DEF AddExpense
  <2> HIDE DEF valid
  <2> QED
    BY <2>2, <2>3, SendKeepsGoodsInv
<1>3. ASSUME NEW n \in Amounts, NEW paid \in Durations, NEW bonus \in Durations,
             AddPackage(r, n, paid, bonus)
      PROVE  GoodsInv'
  <2> DEFINE valid == n >= 0 /\ PackageFits(paid, bonus)
  <2>1. valid => \A row \in {Package(n, paid, bonus)} :
                   MeetsConstraints(row) /\ NumberOf(row) \in Int
    <3> DEFINE row == Package(n, paid, bonus)
    <3>1. /\ row.table = "packages" /\ row.price = n /\ row.paid = paid
          /\ row.bonus = bonus /\ row.duration = paid + bonus
          /\ n \in Int /\ paid \in Int /\ bonus \in Int
      BY GoodsAssumption DEF Package
    <3> HIDE DEF row
    <3>2. valid => MeetsConstraints(row) /\ NumberOf(row) \in Int
      BY <3>1 DEF PackageFits, MeetsConstraints, NumberOf
    <3> QED
      BY <3>2 DEF row
  <2>2. valid \in BOOLEAN
    BY DEF PackageFits
  <2>3. SendSheet(r, valid, {Package(n, paid, bonus)})
    BY <1>3 DEF AddPackage
  <2> HIDE DEF valid
  <2> QED
    BY <2>1, <2>2, <2>3, SendKeepsGoodsInv
<1>4. ASSUME NEW cells \in SUBSET Cells, ImportProducts(r, cells) PROVE GoodsInv'
  <2>1. \A n \in Parsed(cells) : n \in Nat
    BY DEF Parsed
  <2>2. \A row \in {Product(n) : n \in Parsed(cells)} :
          MeetsConstraints(row) /\ NumberOf(row) \in Int
    BY <2>1, ProductFits
  <2> QED
    BY <1>4, <2>2, SendKeepsGoodsInv DEF ImportProducts
<1> QED
  BY <1>1, <1>2, <1>3, <1>4

(* A commit refuses only what a constraint or the column refuses.          *)
LEMMA GoodsStepKeepsGoodsInv ==
  ASSUME GoodsInv, NEW r \in Requests,
         GoodsStep(r) \/ BreakImport(r) \/ \E c \in Clubs : DenySheet(r, c)
  PROVE  GoodsInv'
<1>1. ASSUME NEW a \in {"done", "error", "denied"}, NEW o, 
             sheet' = [sheet EXCEPT ![r].open = o, ![r].answer = a]
      PROVE  GoodsInv'
  BY <1>1 DEF GoodsInv
<1>2. ASSUME EndSheet(r, "refused"), \E row \in sheet[r].rows : ~ Insertable(row)
      PROVE  GoodsInv'
  <2>1. \E row \in sheet[r].rows : NumberOf(row) > MaxInteger
    BY <1>2, GoodsAssumption DEF Insertable, GoodsInv
  <2>2. /\ sheet' = [sheet EXCEPT ![r] = sheet'[r]]
        /\ sheet'[r].rows = sheet[r].rows /\ ~ sheet'[r].open
        /\ DOMAIN sheet'[r] = DOMAIN sheet[r]
    BY <1>2 DEF EndSheet, GoodsInv, NoSheet
  <2> QED
    BY <2>1, <2>2 DEF GoodsInv
<1>3. ASSUME NEW c \in Clubs, DenySheet(r, c) PROVE GoodsInv'
  BY <1>3 DEF DenySheet, GoodsInv, NoSheet
<1>4. ASSUME CommitSheet(r) PROVE GoodsInv'
  BY <1>1, <1>2, <1>4 DEF CommitSheet, EndSheet
<1>5. ASSUME SheetFails(r) PROVE GoodsInv'
  BY <1>1, <1>5 DEF SheetFails, EndSheet
<1>6. ASSUME BreakImport(r) PROVE GoodsInv'
  BY <1>6 DEF BreakImport, GoodsInv, NoSheet
<1> QED
  BY <1>3, <1>4, <1>5, <1>6 DEF GoodsStep

(* Every form keeps the rows in order.                                     *)
THEOREM StepGoodsInv == GoodsInv /\ [FormsNext]_formsVars => GoodsInv'
<1> SUFFICES ASSUME GoodsInv, [FormsNext]_formsVars PROVE GoodsInv'
  OBVIOUS
<1>1. ASSUME UNCHANGED goodsVars PROVE GoodsInv'
  BY <1>1 DEF goodsVars, GoodsInv
<1>2. ASSUME NEW r \in Requests, GoodsForm(r) PROVE GoodsInv'
  BY <1>2, FormKeepsGoodsInv, GoodsStepKeepsGoodsInv DEF GoodsForm
<1>3. ASSUME NEW r \in Requests, SeatForm(r) \/ IntegrationForm(r) \/ ReviewForm(r)
      PROVE  UNCHANGED goodsVars
  BY <1>3 DEF SeatForm, IntegrationForm, ReviewForm
<1>4. ASSUME NEW c \in Clubs, ModerateClub(c) PROVE UNCHANGED goodsVars
  BY <1>4 DEF ModerateClub
<1> QED
  BY <1>1, <1>2, <1>3, <1>4 DEF FormsNext, formsVars

(* No constraint refuses what a form has let through (web/admin.py:134).   *)
THEOREM ChecksCoverConstraintsHolds == FormsSpec => []ChecksCoverConstraints
<1>1. FormsInit => GoodsInv
  BY InitGoodsInv DEF FormsInit
<1>2. GoodsInv => ChecksCoverConstraints
  BY DEF GoodsInv, ChecksCoverConstraints
<1> QED
  BY <1>1, <1>2, StepGoodsInv, PTL DEF FormsSpec

-----------------------------------------------------------------------------
CreatedFor(u, c) == {r \in Of(u, c) : opinion[r].answer = "created"}

OpinionInv(r) ==
  LET q == opinion[r] IN
  /\ DOMAIN q = DOMAIN NoOpinion
  /\ q.phase # "ended" => q.answer # "created"
  /\ q.phase \in {"club", "review", "write"} =>
       q.user \in Users /\ q.club \in Clubs /\ Text(q) \in Review
  /\ q.phase = "write" /\ q.read # None => review[<<q.user, q.club>>] # None /\ q.read \in Review

(* A review that is there was added by one request.                        *)
ReviewInv ==
  /\ review \in [Users \X Clubs -> Review \union {None}]
  /\ DOMAIN opinion = Requests
  /\ \A r \in Requests : OpinionInv(r)
  /\ \A u \in Users, c \in Clubs :
       IF review[<<u, c>>] = None THEN CreatedFor(u, c) = {}
       ELSE \E r \in Requests : CreatedFor(u, c) = {r}

(* There are no reviews.                                                   *)
THEOREM InitReviewInv == ReviewInit => ReviewInv
<1> SUFFICES ASSUME ReviewInit PROVE ReviewInv
  OBVIOUS
<1>1. \A u \in Users, c \in Clubs : review[<<u, c>>] = None
  BY DEF ReviewInit
<1>2. \A r \in Requests : OpinionInv(r) /\ opinion[r].answer # "created"
  BY ReviewsAssumption DEF ReviewInit, OpinionInv, NoOpinion
<1>3. \A u \in Users, c \in Clubs : CreatedFor(u, c) = {}
  BY <1>2 DEF CreatedFor, Of
<1> QED
  BY <1>1, <1>2, <1>3 DEF ReviewInit, ReviewInv

(* A request that adds no review only has to keep its record in order.     *)
LEMMA OpinionKeepsReviewInv ==
  ASSUME ReviewInv, NEW r \in Requests, UNCHANGED review,
         opinion' = [opinion EXCEPT ![r] = opinion'[r]],
         opinion[r].answer # "created", opinion'[r].answer # "created",
         OpinionInv(r)'
  PROVE  ReviewInv'
<1>1. \A q \in Requests \ {r} : opinion'[q] = opinion[q]
  BY DEF ReviewInv
<1>2. \A q \in Requests : OpinionInv(q)'
  BY <1>1 DEF ReviewInv, OpinionInv
<1>3. \A u \in Users, c \in Clubs : CreatedFor(u, c)' = CreatedFor(u, c)
  BY <1>1 DEF CreatedFor, Of
<1>4. DOMAIN opinion' = Requests
  BY DEF ReviewInv
<1> QED
  BY <1>2, <1>3, <1>4 DEF ReviewInv

LEMMA ReadKeepsReviewInv ==
  ASSUME ReviewInv, NEW r \in Requests,
         FindClub(r) \/ FindReview(r) \/ ReviewFails(r)
           \/ (InsertReview(r) /\ AnswerReview(r, "error") /\ UNCHANGED review
                 /\ opinion[r].phase = "write")
  PROVE  ReviewInv'
<1> DEFINE q == opinion[r]
<1>1. OpinionInv(r) /\ DOMAIN opinion = Requests
  BY DEF ReviewInv
<1>2. q.phase \in {"club", "review", "write"} /\ q.answer # "created" /\ UNCHANGED review
  BY <1>1 DEF FindClub, FindReview, ReviewFails, OpinionInv
<1>3. \/ opinion' = [opinion EXCEPT ![r].phase = "review"]
      \/ /\ opinion' = [opinion EXCEPT ![r].phase = "write", ![r].read = review[<<q.user, q.club>>]]
      \/ opinion' = [opinion EXCEPT ![r].phase = "ended", ![r].answer = "not_found"]
      \/ opinion' = [opinion EXCEPT ![r].phase = "ended", ![r].answer = "error"]
  BY DEF FindClub, FindReview, ReviewFails, AnswerReview
<1>4. review[<<q.user, q.club>>] \in Review \union {None}
  BY <1>1, <1>2 DEF OpinionInv, ReviewInv
<1>5. /\ opinion' = [opinion EXCEPT ![r] = opinion'[r]]
      /\ DOMAIN opinion'[r] = DOMAIN NoOpinion
      /\ opinion'[r].answer # "created"
      /\ opinion'[r].user = q.user /\ opinion'[r].club = q.club
      /\ opinion'[r].rating = q.rating /\ opinion'[r].comment = q.comment
      /\ opinion'[r].phase = "write" => opinion'[r].read = review[<<q.user, q.club>>]
  BY <1>1, <1>2, <1>3 DEF OpinionInv, NoOpinion
<1>6. OpinionInv(r)'
  BY <1>1, <1>2, <1>4, <1>5 DEF OpinionInv, Text
<1> QED
  BY <1>2, <1>5, <1>6, OpinionKeepsReviewInv

LEMMA SubmitKeepsReviewInv ==
  ASSUME ReviewInv, NEW r \in Requests, NEW u \in Users, NEW c \in Clubs,
         NEW n \in Ratings, NEW t \in Comments \union {None}, Submit(r, u, c, n, t)
  PROVE  ReviewInv'
<1>1. /\ opinion' = [opinion EXCEPT ![r] = opinion'[r]]
      /\ opinion'[r] = [user |-> u, club |-> c, rating |-> n, comment |-> t, read |-> None,
                       phase |-> IF n \in 1 .. 5 THEN "club" ELSE "ended",
                       answer |-> IF n \in 1 .. 5 THEN None ELSE "invalid"]
  BY DEF Submit, NoOpinion, ReviewInv
<1>2. opinion[r].answer # "created" /\ UNCHANGED review
  BY DEF Submit, ReviewInv, OpinionInv
<1>3. opinion'[r].answer # "created"
  BY <1>1, ReviewsAssumption
<1>4. OpinionInv(r)'
  BY <1>1, <1>3 DEF OpinionInv, NoOpinion, Text, Review
<1> QED
  BY <1>1, <1>2, <1>3, <1>4, OpinionKeepsReviewInv

(* The review of one user and club is written, by its first request or by  *)
(* a later one.                                                            *)
LEMMA WriteKeepsReviewInv ==
  ASSUME ReviewInv, NEW r \in Requests, opinion[r].phase = "write",
         NEW u \in Users, NEW c \in Clubs, u = opinion[r].user, c = opinion[r].club,
         NEW text \in Review, NEW a, AnswerReview(r, a),
         review' = [review EXCEPT ![<<u, c>>] = text],
         (a = "created") <=> (review[<<u, c>>] = None)
  PROVE  ReviewInv'
<1>1. OpinionInv(r) /\ DOMAIN opinion = Requests
  BY DEF ReviewInv
<1>2. /\ \A q \in Requests \ {r} : opinion'[q] = opinion[q]
      /\ opinion'[r].phase = "ended" /\ opinion'[r].answer = a
      /\ opinion'[r].user = u /\ opinion'[r].club = c
      /\ DOMAIN opinion'[r] = DOMAIN NoOpinion
      /\ DOMAIN opinion' = Requests
      /\ opinion[r].answer # "created"
  BY <1>1 DEF AnswerReview, OpinionInv, NoOpinion
<1>3. /\ review' \in [Users \X Clubs -> Review \union {None}]
      /\ review'[<<u, c>>] # None
      /\ \A v \in Users, d \in Clubs :
           /\ <<v, d>> # <<u, c>> => review'[<<v, d>>] = review[<<v, d>>]
           /\ review[<<v, d>>] # None => review'[<<v, d>>] # None
  BY ReviewsAssumption DEF ReviewInv
<1>4. \A q \in Requests : OpinionInv(q)'
  <2>1. OpinionInv(r)'
    BY <1>2 DEF OpinionInv
  <2>2. ASSUME NEW q \in Requests, q # r PROVE OpinionInv(q)'
    <3>1. OpinionInv(q) /\ opinion'[q] = opinion[q]
      BY <1>2, <2>2 DEF ReviewInv
    <3> QED
      BY <1>3, <3>1 DEF OpinionInv
  <2> QED
    BY <2>1, <2>2
<1>5. ASSUME NEW v \in Users, NEW d \in Clubs
      PROVE  IF review'[<<v, d>>] = None THEN CreatedFor(v, d)' = {}
             ELSE \E q \in Requests : CreatedFor(v, d)' = {q}
  <2>1. CASE v = u /\ d = c
    <3>1. CASE a = "created"
      <4>1. CreatedFor(v, d) = {}
        BY <2>1, <3>1 DEF ReviewInv
      <4>2. CreatedFor(v, d)' = {r}
        BY <1>2, <2>1, <3>1, <4>1 DEF CreatedFor, Of
      <4> QED
        BY <1>3, <2>1, <4>2
    <3>2. CASE a # "created"
      <4>1. CreatedFor(v, d)' = CreatedFor(v, d)
        BY <1>2, <3>2 DEF CreatedFor, Of
      <4> QED
        BY <1>3, <2>1, <3>2, <4>1 DEF ReviewInv
    <3> QED
      BY <3>1, <3>2
  <2>2. CASE ~ (v = u /\ d = c)
    <3>1. CreatedFor(v, d)' = CreatedFor(v, d)
      BY <1>2, <2>2 DEF CreatedFor, Of
    <3>2. review'[<<v, d>>] = review[<<v, d>>]
      BY <1>3, <2>2
    <3> QED
      BY <3>1, <3>2 DEF ReviewInv
  <2> QED
    BY <2>1, <2>2
<1> QED
  BY <1>2, <1>3, <1>4, <1>5 DEF ReviewInv

LEMMA CommitKeepsReviewInv ==
  ASSUME ReviewInv, NEW r \in Requests, CommitReview(r)
  PROVE  ReviewInv'
<1> DEFINE q == opinion[r]
<1>1. /\ q.phase = "write" /\ OpinionInv(r) /\ Text(q) \in Review
      /\ q.user \in Users /\ q.club \in Clubs
  BY DEF CommitReview, ReviewInv, OpinionInv
<1>2. PICK u \in Users, c \in Clubs : u = q.user /\ c = q.club
  BY <1>1
<1>3. ASSUME q.read = None, review[<<u, c>>] # None PROVE ReviewInv'
  BY <1>1, <1>2, <1>3, ReadKeepsReviewInv DEF CommitReview, InsertReview
<1>4. ASSUME q.read = None, review[<<u, c>>] = None PROVE ReviewInv'
  <2>1. review' = [review EXCEPT ![<<u, c>>] = Text(q)] /\ AnswerReview(r, "created")
    BY <1>2, <1>4 DEF CommitReview, InsertReview
  <2> QED
    BY <1>1, <1>2, <1>4, <2>1, WriteKeepsReviewInv
<1>5. ASSUME q.read # None PROVE ReviewInv'
  <2>1. review[<<u, c>>] \in Review /\ q.read \in Review
    BY <1>1, <1>2, <1>5 DEF OpinionInv, ReviewInv
  <2>2. Updated(review[<<u, c>>], q.read, Text(q)) \in Review
    BY <1>1, <2>1 DEF Updated, Written, Review
  <2>3. /\ review' = [review EXCEPT ![<<u, c>>] = Updated(review[<<u, c>>], q.read, Text(q))]
        /\ AnswerReview(r, "updated")
    BY <1>2, <1>5, <2>1 DEF CommitReview, UpdateReview, ReviewInv
  <2>4. review[<<u, c>>] # None
    BY <2>1, ReviewsAssumption
  <2> QED
    BY <1>1, <1>2, <2>2, <2>3, <2>4, WriteKeepsReviewInv
<1> QED
  BY <1>3, <1>4, <1>5

(* Every form keeps the reviews in order.                                  *)
THEOREM StepReviewInv == ReviewInv /\ [FormsNext]_formsVars => ReviewInv'
<1> SUFFICES ASSUME ReviewInv, [FormsNext]_formsVars PROVE ReviewInv'
  OBVIOUS
<1>1. ASSUME UNCHANGED reviewVars PROVE ReviewInv'
  BY <1>1 DEF reviewVars, ReviewInv, OpinionInv, CreatedFor, Of
<1>2. ASSUME NEW r \in Requests, ReviewForm(r) PROVE ReviewInv'
  BY <1>2, SubmitKeepsReviewInv, ReadKeepsReviewInv, CommitKeepsReviewInv
     DEF ReviewForm, ReviewStep
<1>3. ASSUME NEW r \in Requests, SeatForm(r) \/ IntegrationForm(r) \/ GoodsForm(r)
      PROVE  UNCHANGED reviewVars
  BY <1>3 DEF SeatForm, IntegrationForm, GoodsForm
<1>4. ASSUME NEW c \in Clubs, ModerateClub(c) PROVE UNCHANGED reviewVars
  BY <1>4 DEF ModerateClub
<1> QED
  BY <1>1, <1>2, <1>3, <1>4 DEF FormsNext, formsVars

(* However the first reviews of a user overlap, one of them is told that   *)
(* it was added (review_service.py, uq_club_reviews_club_user).            *)
THEOREM CreatedOnceHolds == FormsSpec => []CreatedOnce
<1>1. FormsInit => ReviewInv
  BY InitReviewInv DEF FormsInit
<1>2. ReviewInv => CreatedOnce
  <2> SUFFICES ASSUME ReviewInv, NEW u \in Users, NEW c \in Clubs
               PROVE  Cardinality(CreatedFor(u, c)) = IF review[<<u, c>>] = None THEN 0 ELSE 1
    BY DEF CreatedOnce, CreatedFor
  <2>1. CASE review[<<u, c>>] = None
    <3>1. CreatedFor(u, c) = {}
      BY <2>1 DEF ReviewInv
    <3> QED
      BY <2>1, <3>1, FS_EmptySet
  <2>2. CASE review[<<u, c>>] # None
    <3>1. PICK r \in Requests : CreatedFor(u, c) = {r}
      BY <2>2 DEF ReviewInv
    <3>2. Cardinality({r}) = 1
      BY FS_Singleton
    <3> QED
      BY <2>2, <3>1, <3>2
  <2> QED
    BY <2>1, <2>2
<1> QED
  BY <1>1, <1>2, StepReviewInv, PTL DEF FormsSpec

(* A request that was not overtaken leaves exactly what it was sent.       *)
THEOREM ExactUnlessRacedHolds == FormsSpec => ExactUnlessRaced
<1> DEFINE Exact == \A r \in Requests :
             /\ CommitReview(r)
             /\ review[<<opinion[r].user, opinion[r].club>>] = opinion[r].read
             => review'[<<opinion[r].user, opinion[r].club>>] = Text(opinion[r])
<1>1. FormsInit => ReviewInv
  BY InitReviewInv DEF FormsInit
<1>2. ReviewInv => Exact
  <2> SUFFICES ASSUME ReviewInv, NEW r \in Requests, CommitReview(r),
                      review[<<opinion[r].user, opinion[r].club>>] = opinion[r].read
               PROVE  review'[<<opinion[r].user, opinion[r].club>>] = Text(opinion[r])
    OBVIOUS
  <2> DEFINE q == opinion[r]
             row == review[<<q.user, q.club>>]
  <2>1. q.phase = "write" /\ q.user \in Users /\ q.club \in Clubs /\ Text(q) \in Review
    BY DEF CommitReview, ReviewInv, OpinionInv
  <2>2. <<q.user, q.club>> \in DOMAIN review
    BY <2>1 DEF ReviewInv
  <2>3. CASE q.read = None
    BY <2>2, <2>3 DEF CommitReview, InsertReview
  <2>4. CASE q.read # None
    <3>1. review' = [review EXCEPT ![<<q.user, q.club>>] = Updated(row, row, Text(q))]
      BY <2>2, <2>4 DEF CommitReview, UpdateReview
    <3>2. row \in Review
      BY <2>1, <2>4 DEF ReviewInv
    <3>3. Updated(row, row, Text(q)) = Text(q)
      BY <2>1, <3>2 DEF Updated, Written, Text, Review
    <3> QED
      BY <2>2, <3>1, <3>3
  <2> QED
    BY <2>3, <2>4
<1>3. ReviewInv /\ [FormsNext]_formsVars => ReviewInv'
  BY StepReviewInv
<1>4. ReviewInv => [Exact]_reviewVars
  BY <1>2
<1> HIDE DEF Exact
<1>5. [][Exact]_reviewVars => ExactUnlessRaced
  BY DEF ExactUnlessRaced, Exact
<1> QED
  BY <1>1, <1>3, <1>4, <1>5, PTL DEF FormsSpec

=============================================================================
