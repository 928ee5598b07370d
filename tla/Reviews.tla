------------------------------ MODULE Reviews -------------------------------
(***************************************************************************)
(* core/services/review_service.py, submit_review: the club is looked up,  *)
(* then the user's review of it, then the review is inserted or the        *)
(* columns that differ from what was read are updated.  No row is locked.  *)
(***************************************************************************)
EXTENDS FormRequests

CONSTANTS
  Users,
  Ratings,        \* what clients send, 1 .. 5 is valid
  Comments        \* normalized comments

Review == [rating : Ratings, comment : Comments \union {None}]

ASSUME ReviewsAssumption == Ratings \subseteq Int /\ None \notin Review \union {"created", "error"}

VARIABLES
  review,         \* club_reviews, by user and club
  opinion         \* the requests that review

reviewVars == <<review, opinion>>

NoOpinion ==
  [user |-> None, club |-> None, rating |-> 0, comment |-> None, read |-> None,
   phase |-> "unsent", answer |-> None]

Text(q) == [rating |-> q.rating, comment |-> q.comment]

AnswerReview(r, a) == opinion' = [opinion EXCEPT ![r].phase = "ended", ![r].answer = a]

-----------------------------------------------------------------------------
Submit(r, u, c, n, t) ==
  /\ opinion[r].phase = "unsent"
  /\ opinion' = [opinion EXCEPT ![r] =
       [NoOpinion EXCEPT !.user = u, !.club = c, !.rating = n, !.comment = t,
                         !.phase = IF n \in 1 .. 5 THEN "club" ELSE "ended",
                         !.answer = IF n \in 1 .. 5 THEN None ELSE "invalid"]]
  /\ UNCHANGED review

FindClub(r) ==
  /\ opinion[r].phase = "club"
  /\ IF opinion[r].club \in active
     THEN opinion' = [opinion EXCEPT ![r].phase = "review"]
     ELSE AnswerReview(r, "not_found")
  /\ UNCHANGED review

FindReview(r) ==
  /\ opinion[r].phase = "review"
  /\ opinion' = [opinion EXCEPT ![r].phase = "write",
                          ![r].read = review[<<opinion[r].user, opinion[r].club>>]]
  /\ UNCHANGED review

(* A slip: there is no such constraint.                                    *)
InsertAnyway(r) ==
  /\ review' = [review EXCEPT ![<<opinion[r].user, opinion[r].club>>] = Text(opinion[r])]
  /\ AnswerReview(r, "created")

(* uq_club_reviews_club_user: the insert of a second review fails.         *)
InsertReview(r) ==
  LET q == opinion[r] IN
  IF review[<<q.user, q.club>>] = None
  THEN /\ review' = [review EXCEPT ![<<q.user, q.club>>] = Text(q)]
       /\ AnswerReview(r, "created")
  ELSE /\ AnswerReview(r, "error")
       /\ UNCHANGED review

(* A slip: an empty comment does not clear the old one.                    *)
UpdatedKeepsComment(row, read, new) ==
  [rating  |-> Written(row.rating, read.rating, new.rating),
   comment |-> IF new.comment = None THEN row.comment
               ELSE Written(row.comment, read.comment, new.comment)]

Updated(row, read, new) ==
  [rating  |-> Written(row.rating, read.rating, new.rating),
   comment |-> Written(row.comment, read.comment, new.comment)]

UpdateReview(r) ==
  LET q == opinion[r] IN
  /\ review' = [review EXCEPT ![<<q.user, q.club>>] = Updated(@, q.read, Text(q))]
  /\ AnswerReview(r, "updated")

CommitReview(r) ==
  /\ opinion[r].phase = "write"
  /\ IF opinion[r].read = None THEN InsertReview(r) ELSE UpdateReview(r)

ReviewFails(r) ==
  /\ opinion[r].phase = "write"
  /\ AnswerReview(r, "error")
  /\ UNCHANGED review

ReviewStep(r) == FindClub(r) \/ FindReview(r) \/ CommitReview(r) \/ ReviewFails(r)

ReviewInit ==
  /\ review = [p \in Users \X Clubs |-> None]
  /\ opinion = [r \in Requests |-> NoOpinion]

-----------------------------------------------------------------------------
Of(u, c) == {r \in Requests : opinion[r].user = u /\ opinion[r].club = c}

(* However the first reviews of one user overlap, one of them is answered  *)
(* "Review added": two answers would mean that one review is lost.         *)
CreatedOnce ==
  \A u \in Users, c \in Clubs :
    Cardinality({r \in Of(u, c) : opinion[r].answer = "created"})
      = IF review[<<u, c>>] = None THEN 0 ELSE 1

(* A request that found the review as it still is at the commit leaves     *)
(* exactly what it was sent, an empty comment included.                    *)
ExactUnlessRaced ==
  [][\A r \in Requests :
       /\ CommitReview(r)
       /\ review[<<opinion[r].user, opinion[r].club>>] = opinion[r].read
       => review'[<<opinion[r].user, opinion[r].club>>] = Text(opinion[r])]_reviewVars

=============================================================================
